----------------------------- MODULE Optimizer -----------------------------
(***************************************************************************)
(* The span-dependent optimizer: Object::Optimize driving the Optimizer    *)
(* class over the bytecodes of all sections (the same steps are repeated   *)
(* for one container by BytecodeContainer::Optimize).                      *)
(*                                                                         *)
(* The program is sequential: `phase' is the step of the algorithm that is *)
(* running and `i' the loop cursor of that step.  One action is one        *)
(* iteration of a loop of the code: one bytecode of steps 1a, 1c and 3, one *)
(* span of steps 1b, 1d and 1e, one queue entry, one interval tree         *)
(* callback or one offset setter of step 2.                                *)
(*                                                                         *)
(* A bytecode is its constant part (what the parser produced) plus its     *)
(* lengths.  Constant part, a record:                                      *)
(*   sect    the section (container) it lives in                           *)
(*   fixed   length of the fixed bytes in front of the tail                *)
(*   kind    "insn" (a gap, an X86Jmp, an X86General, a Multiple or a Fill), *)
(*           "leb", "align" or "org"                                       *)
(*   base    shortest length of one copy of the tail                       *)
(*   parts   the span-dependent fields of the tail: [expr, lo, hi, grow]   *)
(*   count   the multiple, an expression                                   *)
(*   sign, boundary, maxskip, start   of "leb", "align" and "org"          *)
(* An expression is add + k1*d1 + k2*d2 over two label distances, or too   *)
(* complex to evaluate (a reference to another section or an external).    *)
(***************************************************************************)
EXTENDS Integers, Sequences, FiniteSetsExt, Relation

CONSTANTS
    Programs,   \* the inputs: each a sequence of bytecodes, section by section
    LongMax     \* stands for LONG_MAX: beyond every distance of the model

VARIABLES
    prog,       \* the bytecodes' constant parts
    phase, i,   \* running step and its loop cursor
    off,        \* `offset', the running offset of steps 1a, 1c and 3
    err,        \* diags.hasErrorOccurred()
    len,        \* Bytecode::m_len, the tail lengths
    unit, mult, \* length of one copy of the tail, Multiple::m_int
    offset,     \* Bytecode::m_offset
    spans,      \* m_spans, in creation order
    osets,      \* m_offset_setters, without the trailing placeholder
    itree,      \* m_itree: the <<span, term>> pairs inserted
    QA, QB,     \* m_QA, m_QB
    todo, diff, \* step 2: interval tree callbacks still to run, their len_diff
    os, odiff,  \* step 2: next offset setter and offset_diff
    sect        \* step 2: container of the bytecode just expanded

bcVars   == <<len, unit, mult, offset>>
loopVars == <<todo, diff, os, odiff, sect>>
vars == <<prog, phase, i, off, err, bcVars, spans, osets, itree, QA, QB, loopVars>>

Bcs   == 1..Len(prog)
Terms == 1..2           \* bound: distances per expression
Running == phase \notin {"done", "fail", "abort"}

-----------------------------------------------------------------------------
(* Expressions and lengths *)

\* CalcDist: distance between two locations <<bytecode, offset>> of a section.
CalcDist(loc, loc2) == (offset[loc2[1]] + loc2[2]) - (offset[loc[1]] + loc[2])

Evaluate(e, d) == IF e.complex THEN LongMax
                  ELSE e.add + e.k[1] * d[1] + e.k[2] * d[2]

IsConst(e) == ~e.complex /\ \A t \in Terms : e.k[t] = 0

\* SizeLEB128 for distances that need at most four bytes.
LebLimit == <<128, 16384, 2097152, 268435456>>
FitsLEB128(v, sign, n) ==
    IF sign THEN -(LebLimit[n] \div 2) <= v /\ v < LebLimit[n] \div 2
            ELSE 0 <= v /\ v < LebLimit[n]
SizeLEB128(v, sign) ==
    CHOOSE n \in 1..4 : /\ FitsLEB128(v, sign, n)
                        /\ \A m \in 1..(n - 1) : ~FitsLEB128(v, sign, m)

\* AlignBytecode::Expand for a power-of-two boundary and tail offset v.
AlignLen(b, v) ==
    LET skip == IF b.boundary = 0 THEN 0 ELSE (-v) % b.boundary
    IN  IF skip > b.maxskip THEN 0 ELSE skip

\* OrgBytecode::Expand compares as unsigned: a negative offset is a huge one.
OrgOverlap(b, v) == v < 0 \/ v > b.start

IsOffsetSetter(b) == prog[b].kind \in {"align", "org"}

\* Length of offset setter b with its tail at v; an error leaves it alone.
SetterLen(b, v) ==
    IF prog[b].kind = "align" THEN AlignLen(prog[b], v)
    ELSE IF OrgOverlap(prog[b], v) THEN len[b] ELSE prog[b].start - v
SetterError(b, v) == prog[b].kind = "org" /\ OrgOverlap(prog[b], v)

TotalLen(b) == prog[b].fixed + len[b]

FirstOfSection(b) == b = 1 \/ prog[b].sect # prog[b - 1].sect
StartOffset(b) == IF FirstOfSection(b) THEN 0 ELSE off

-----------------------------------------------------------------------------
(* Spans *)

\* Span::Span through Optimizer::AddSpan; the offset setter a span will look
\* at first is the one created next.  (Term::m_cur_val and
\* OffsetSetter::m_thres are only ever written, and are left out.)
NewSpan(b, id, e, lo, hi) ==
    [bc |-> b, id |-> id, expr |-> e, os |-> Len(osets) + 1,
     active |-> "ACTIVE", cur |-> 0, new |-> 0, neg |-> lo, pos |-> hi,
     dist |-> [t \in Terms |-> 0], bt |-> {}]

\* The spans that CalcLen of bytecode b adds: the multiple first, with id -1,
\* then the fields of the tail, whose ids a Multiple renumbers from 100.
PartId(b, k) == IF prog[b].kind = "leb" THEN 2
                ELSE IF IsConst(prog[b].count) /\ prog[b].count.add = 1 THEN k
                ELSE 100 + k
NewSpans(b) ==
    LET p == prog[b] IN
    (IF IsConst(p.count) THEN << >> ELSE <<NewSpan(b, -1, p.count, 0, 0)>>)
    \o [k \in 1..Len(p.parts) |->
          NewSpan(b, PartId(b, k), p.parts[k].expr, p.parts[k].lo, p.parts[k].hi)]

\* CreateTerms: the value of every distance under the current offsets ...
Distances(e) == [t \in Terms |-> CalcDist(e.from[t], e.to[t])]

\* Mutant: the interval misses the first bytecode.
MutCrosses(e, t, b) ==
    LET f == e.from[t][1]
        g == e.to[t][1]
    IN  (f < b /\ b < g) \/ (g < b /\ b < f)

\* ... and the bytecodes a distance runs over, the interval of ITreeAdd.
Crosses(e, t, b) ==
    LET f == e.from[t][1]
        g == e.to[t][1]
    IN  (f <= b /\ b < g) \/ (g <= b /\ b < f)

\* RecalcNormal: the span with its value recomputed, and its verdict.
Recalc(s) ==
    LET v == Evaluate(s.expr, s.dist)
    IN  [s EXCEPT !.new = v, !.active = IF v = LongMax THEN "INACTIVE" ELSE @]
\* Mutant: the thresholds are off by one, and a multiple only grows.
MutExceeds(s) == IF s.id <= 0 THEN s.new > s.cur
                 ELSE s.new < s.neg - 1 \/ s.new > s.pos + 1
Exceeds(s) == IF s.id <= 0 THEN s.new # s.cur
              ELSE s.new < s.neg \/ s.new > s.pos

\* Contents::Expand of the bytecode of span s to the span's new value.  No
\* kind that owns a span ever fails to expand.
StillDepends(s) == s.id < 0 \/ prog[s.bc].kind = "leb"
Part(s) == prog[s.bc].parts[s.id % 100]
ExpandedMult(s) == IF s.id < 0 THEN s.new ELSE mult[s.bc]
ExpandedUnit(s) ==
    LET b == s.bc IN
    IF s.id < 0 THEN unit[b]
    ELSE IF prog[b].kind = "leb"
         THEN LET n == SizeLEB128(s.new, prog[b].sign)
              IN  IF n > unit[b] THEN n ELSE unit[b]
    ELSE unit[b] + Part(s).grow
Expand(s) ==
    /\ unit' = [unit EXCEPT ![s.bc] = ExpandedUnit(s)]
    /\ mult' = [mult EXCEPT ![s.bc] = ExpandedMult(s)]
    /\ len'  = [len EXCEPT ![s.bc] = ExpandedUnit(s) * ExpandedMult(s)]

\* LEB128 is the only content that moves the thresholds of its span.
Rethreshold(s) ==
    IF prog[s.bc].kind # "leb" THEN s
    ELSE LET sign == prog[s.bc].sign
             lim  == LebLimit[SizeLEB128(s.new, sign)]
         IN  [s EXCEPT !.neg = IF sign THEN -(lim \div 2) ELSE 0,
                       !.pos = IF sign THEN lim \div 2 - 1 ELSE lim - 1]

-----------------------------------------------------------------------------
(* Step 1a: minimum lengths, spans and offset setters *)

Init ==
    /\ prog \in Programs
    /\ phase = "1a" /\ i = 1 /\ off = 0 /\ err = FALSE
    /\ len = [b \in Bcs |-> 0]
    /\ unit = [b \in Bcs |-> prog[b].base]
    /\ mult = [b \in Bcs |-> 1]
    /\ offset = [b \in Bcs |-> 0]
    /\ spans = << >> /\ osets = << >> /\ itree = {}
    /\ QA = << >> /\ QB = << >>
    /\ todo = {} /\ diff = 0 /\ os = 1 /\ odiff = 0 /\ sect = 0

\* Multiple::CalcLen: an unknown multiple starts at 0.
StartMult(b) == IF IsConst(prog[b].count) THEN prog[b].count.add ELSE 0
CalcLenFails(b) ==
    IF IsOffsetSetter(b) THEN SetterError(b, StartOffset(b) + prog[b].fixed)
    ELSE StartMult(b) < 0

\* A failed CalcLen reports, keeps the length and does not move the offset.
Step1aFail ==
    /\ phase = "1a" /\ i \in Bcs /\ CalcLenFails(i)
    /\ err' = TRUE
    /\ offset' = [offset EXCEPT ![i] = StartOffset(i)]
    /\ off' = StartOffset(i)
    /\ mult' = IF IsOffsetSetter(i) THEN mult ELSE [mult EXCEPT ![i] = 0]
    /\ i' = i + 1
    /\ UNCHANGED <<prog, phase, len, unit, spans, osets, itree, QA, QB, loopVars>>

Step1aSetter ==
    /\ phase = "1a" /\ i \in Bcs /\ ~CalcLenFails(i) /\ IsOffsetSetter(i)
    /\ LET start == StartOffset(i)
           n     == SetterLen(i, start + prog[i].fixed)
       IN  /\ offset' = [offset EXCEPT ![i] = start]
           /\ len' = [len EXCEPT ![i] = n]
           /\ off' = start + prog[i].fixed + n
    /\ osets' = Append(osets, [bc |-> i, cur |-> 0, new |-> 0])
    /\ i' = i + 1
    /\ UNCHANGED <<prog, phase, err, unit, mult, spans, itree, QA, QB, loopVars>>

Step1aPlain ==
    /\ phase = "1a" /\ i \in Bcs /\ ~CalcLenFails(i) /\ ~IsOffsetSetter(i)
    /\ LET start == StartOffset(i)
           n     == unit[i] * StartMult(i)
       IN  /\ offset' = [offset EXCEPT ![i] = start]
           /\ len' = [len EXCEPT ![i] = n]
           /\ off' = start + prog[i].fixed + n
    /\ mult' = [mult EXCEPT ![i] = StartMult(i)]
    /\ spans' = spans \o NewSpans(i)
    /\ i' = i + 1
    /\ UNCHANGED <<prog, phase, err, unit, osets, itree, QA, QB, loopVars>>

\* The early returns of Object::Optimize between its steps.
Enter(next) == phase' = (IF err THEN "fail" ELSE next) /\ i' = 1

Step1aDone ==
    /\ phase = "1a" /\ i > Len(prog)
    /\ Enter("1b")
    /\ UNCHANGED <<prog, off, err, bcVars, spans, osets, itree, QA, QB, loopVars>>

-----------------------------------------------------------------------------
(* Step 1b: resolve the spans against the minimum offsets *)

Live(x) == spans[x].active # "DELETED"

\* CreateTerms: a multiple must not lie inside a distance it depends on.
Circular(s) == s.id <= 0 /\ \E t \in Terms : Crosses(s.expr, t, s.bc)

Step1bCircular ==
    /\ phase = "1b" /\ i \in 1..Len(spans) /\ Circular(spans[i])
    /\ err' = TRUE
    /\ spans' = [spans EXCEPT ![i].dist = Distances(spans[i].expr),
                              ![i].cur = spans[i].new]
    /\ i' = i + 1
    /\ UNCHANGED <<prog, phase, off, bcVars, osets, itree, QA, QB, loopVars>>

\* The span after CreateTerms and RecalcNormal against the current offsets.
Measured(s) == Recalc([s EXCEPT !.dist = Distances(s.expr)])

Step1bFits ==
    /\ phase = "1b" /\ i \in 1..Len(spans) /\ ~Circular(spans[i])
    /\ LET s == Measured(spans[i])
       IN  ~Exceeds(s) /\ spans' = [spans EXCEPT ![i] = [s EXCEPT !.cur = s.new]]
    /\ i' = i + 1
    /\ UNCHANGED <<prog, phase, off, err, bcVars, osets, itree, QA, QB, loopVars>>

Step1bExpand ==
    /\ phase = "1b" /\ i \in 1..Len(spans) /\ ~Circular(spans[i])
    /\ LET s == Measured(spans[i])
       IN  /\ Exceeds(s)
           /\ Expand(s)
           /\ err' = (err \/ (StillDepends(s) /\ s.active = "INACTIVE"))
           /\ spans' = [spans EXCEPT ![i] =
                  IF StillDepends(s) THEN [Rethreshold(s) EXCEPT !.cur = s.new]
                                     ELSE [s EXCEPT !.active = "DELETED"]]
    /\ i' = i + 1
    /\ UNCHANGED <<prog, phase, off, offset, osets, itree, QA, QB, loopVars>>

Step1bDone ==
    /\ phase = "1b" /\ i > Len(spans)
    /\ Enter("1c")
    /\ UNCHANGED <<prog, off, err, bcVars, spans, osets, itree, QA, QB, loopVars>>

-----------------------------------------------------------------------------
(* Steps 1c and 3: UpdateBytecodeOffsets *)

UpdateOffset ==
    /\ phase \in {"1c", "3"} /\ i \in Bcs
    /\ LET start == StartOffset(i)
           tail  == start + prog[i].fixed
           n     == IF IsOffsetSetter(i) THEN SetterLen(i, tail) ELSE len[i]
       IN  /\ len' = [len EXCEPT ![i] = n]
           /\ err' = (err \/ SetterError(i, tail))
           /\ offset' = [offset EXCEPT ![i] = start]
           /\ off' = tail + n
    /\ i' = i + 1
    /\ UNCHANGED <<prog, phase, unit, mult, spans, osets, itree, QA, QB, loopVars>>

UpdateOffsetsDone ==
    /\ phase \in {"1c", "3"} /\ i > Len(prog)
    /\ Enter(IF phase = "1c" THEN "1d" ELSE "done")
    /\ UNCHANGED <<prog, off, err, bcVars, spans, osets, itree, QA, QB, loopVars>>

-----------------------------------------------------------------------------
(* Step 1d: which spans exceed their thresholds under the new offsets *)

Step1d ==
    /\ phase = "1d" /\ i \in 1..Len(spans)
    /\ LET s == Measured(spans[i]) IN
       IF ~Live(i) THEN UNCHANGED <<spans, QB>>
       ELSE IF Exceeds(s)
            THEN /\ spans' = [spans EXCEPT ![i] = [s EXCEPT !.active = "ON_Q"]]
                 /\ QB' = Append(QB, i)
       ELSE spans' = [spans EXCEPT ![i] = s] /\ UNCHANGED QB
    /\ i' = i + 1
    /\ UNCHANGED <<prog, phase, off, err, bcVars, osets, itree, QA, loopVars>>

\* Nothing queued: the offsets of step 1c are final.
Step1dDone ==
    /\ phase = "1d" /\ i > Len(spans)
    /\ phase' = (IF QB = << >> THEN "done" ELSE "1e") /\ i' = 1
    /\ UNCHANGED <<prog, off, err, bcVars, spans, osets, itree, QA, QB, loopVars>>

-----------------------------------------------------------------------------
(* Step 1e: offset setter values, interval tree, cycles among multiples *)

\* Enumerate: the inserted distances that run over bytecode b.
Over(b) == {e \in itree : Crosses(spans[e[1]].expr, e[2], b)}

Step1eBuild ==
    /\ phase = "1e"
    /\ osets' = [j \in 1..Len(osets) |->
                   LET b == osets[j].bc
                       v == offset[b] + prog[b].fixed
                   IN  [bc |-> b, cur |-> v, new |-> v]]
    /\ itree' = {e \in (1..Len(spans)) \X Terms :
                    /\ Live(e[1])
                    /\ spans[e[1]].expr.from[e[2]][1] # spans[e[1]].expr.to[e[2]][1]}
    /\ phase' = "cycle" /\ i' = 1
    /\ UNCHANGED <<prog, off, err, bcVars, spans, QA, QB, loopVars>>

\* CheckCycle for every multiple whose distances run over the bytecode of
\* multiple i.  The order of the callbacks does not matter: none of them
\* changes the backtrace the others read.
Dependents(x) == {e[1] : e \in {f \in Over(spans[x].bc) : spans[f[1]].id <= 0}}

\* Mutant: multiples are looked for under id 0, but they have id -1.
MutCycleThrough(x) == spans[x].id = 0 /\ Dependents(x) \cap spans[x].bt # {}
CycleThrough(x) == Dependents(x) \cap spans[x].bt # {}

CheckCycle ==
    /\ phase = "cycle" /\ i \in 1..Len(spans)
    /\ IF Live(i) /\ spans[i].id <= 0
       THEN LET back == spans[i].bt IN
            /\ err' = (err \/ CycleThrough(i))
            /\ spans' = [x \in 1..Len(spans) |->
                   IF x \in Dependents(i) \ back
                   THEN [spans[x] EXCEPT !.bt = @ \cup back \cup {i}]
                   ELSE spans[x]]
       ELSE UNCHANGED <<err, spans>>
    /\ i' = i + 1
    /\ UNCHANGED <<prog, phase, off, bcVars, osets, itree, QA, QB, loopVars>>

Step1eDone ==
    /\ phase = "cycle" /\ i > Len(spans)
    /\ Enter("2")
    /\ UNCHANGED <<prog, off, err, bcVars, spans, osets, itree, QA, QB, loopVars>>

-----------------------------------------------------------------------------
(* Step 2: expand queued spans until none is left *)

\* Multiples first, so that they can absorb increases.
NextQueued == IF QA # << >> THEN Head(QA) ELSE Head(QB)
\* Mutant: a span of the second queue is not removed.
MutPopQueue == IF QA # << >> THEN QA' = Tail(QA) /\ UNCHANGED QB ELSE UNCHANGED <<QA, QB>>
PopQueue == IF QA # << >> THEN QA' = Tail(QA) /\ UNCHANGED QB
                          ELSE QB' = Tail(QB) /\ UNCHANGED QA
Dequeued == Recalc([spans[NextQueued] EXCEPT !.active = "ACTIVE"])

\* The span was given up, or shrank back below its thresholds meanwhile.
PopIdle ==
    /\ phase = "2" /\ (QA # << >> \/ QB # << >>)
    /\ LET x    == NextQueued
           idle == spans[x].active = "INACTIVE"
       IN  /\ idle \/ ~Exceeds(Dequeued)
           /\ spans' = IF idle THEN spans ELSE [spans EXCEPT ![x] = Dequeued]
    /\ PopQueue
    /\ UNCHANGED <<prog, phase, i, off, err, bcVars, osets, itree, loopVars>>

PopExpand ==
    /\ phase = "2" /\ (QA # << >> \/ QB # << >>)
    /\ LET x == NextQueued
           s == Dequeued
           d == len'[s.bc] - len[s.bc]
       IN  /\ spans[x].active # "INACTIVE"
           /\ Exceeds(s)
           /\ Expand(s)
           /\ spans' = [spans EXCEPT ![x] =
                  IF StillDepends(s) THEN [Rethreshold(s) EXCEPT !.cur = s.new]
                                     ELSE [s EXCEPT !.active = "INACTIVE"]]
           /\ IF d = 0 THEN UNCHANGED <<phase, loopVars>>
              ELSE /\ phase' = "ripple"
                   /\ todo' = Over(s.bc)
                   /\ diff' = d
                   /\ os' = s.os
                   /\ odiff' = d
                   /\ sect' = prog[s.bc].sect
    /\ PopQueue
    /\ UNCHANGED <<prog, i, off, err, offset, osets, itree>>

\* One callback of Enumerate: distance e[2] of span e[1] runs over the
\* bytecode that changed.  The tree's order is left open.
\* Mutant: backward distances are stretched the wrong way.
MutStretched(e) == [spans[e[1]] EXCEPT !.dist[e[2]] = @ + diff]
Stretched(e) ==
    LET s  == spans[e[1]]
        up == s.expr.from[e[2]][1] < s.expr.to[e[2]][1]
    IN  [s EXCEPT !.dist[e[2]] = IF up THEN @ + diff ELSE @ - diff]

ExpandTerm(e) ==
    /\ phase = "ripple" /\ e \in todo
    /\ todo' = todo \ {e}
    /\ LET x == e[1]
           s == Stretched(e)
           r == Recalc(s)
       IN  \/ /\ s.active = "INACTIVE"
              /\ UNCHANGED <<spans, QA, QB>>
           \/ /\ s.active = "ON_Q"
              /\ spans' = [spans EXCEPT ![x] = s]
              /\ UNCHANGED <<QA, QB>>
           \/ /\ s.active = "ACTIVE" /\ ~Exceeds(r)
              /\ spans' = [spans EXCEPT ![x] = r]
              /\ UNCHANGED <<QA, QB>>
           \/ /\ s.active = "ACTIVE" /\ Exceeds(r)
              /\ spans' = [spans EXCEPT ![x] = [r EXCEPT !.active = "ON_Q"]]
              /\ IF s.id <= 0 THEN QA' = Append(QA, x) /\ UNCHANGED QB
                              ELSE QB' = Append(QB, x) /\ UNCHANGED QA
    /\ UNCHANGED <<prog, phase, i, off, err, bcVars, osets, itree, diff, os, odiff, sect>>

\* The offset setters behind the change, while they still move what follows.
SetterFollows ==
    /\ os \in 1..Len(osets)
    /\ prog[osets[os].bc].sect = sect
    /\ odiff # 0

\* assert(... && "org/align went to negative offset"), on unsigned values.
NegativeOffset == LET o == osets[os] IN odiff < 0 /\ 0 <= o.new /\ -odiff > o.new

MoveOffsetSetter ==
    /\ phase = "ripple" /\ todo = {} /\ SetterFollows /\ ~NegativeOffset
    /\ LET b == osets[os].bc
           v == osets[os].new + odiff
           n == SetterLen(b, v)
       IN  /\ len' = [len EXCEPT ![b] = n]
           /\ err' = (err \/ SetterError(b, v))
           /\ osets' = [osets EXCEPT ![os].cur = v, ![os].new = v]
           /\ odiff' = (v + n) - (osets[os].cur + len[b])
           /\ diff' = n - len[b]
           /\ todo' = IF n = len[b] THEN {} ELSE Over(b)
           /\ os' = os + 1
    /\ UNCHANGED <<prog, phase, i, off, unit, mult, offset, spans, itree, QA, QB, sect>>

Abort ==
    /\ phase = "ripple" /\ todo = {} /\ SetterFollows /\ NegativeOffset
    /\ phase' = "abort"
    /\ UNCHANGED <<prog, i, off, err, bcVars, spans, osets, itree, QA, QB, loopVars>>

RippleDone ==
    /\ phase = "ripple" /\ todo = {} /\ ~SetterFollows
    /\ phase' = "2"
    /\ UNCHANGED <<prog, i, off, err, bcVars, spans, osets, itree, QA, QB, loopVars>>

Step2Done ==
    /\ phase = "2" /\ QA = << >> /\ QB = << >>
    /\ Enter("3")
    /\ UNCHANGED <<prog, off, err, bcVars, spans, osets, itree, QA, QB, loopVars>>

-----------------------------------------------------------------------------
Next ==
    \/ Step1aFail \/ Step1aSetter \/ Step1aPlain \/ Step1aDone
    \/ Step1bCircular \/ Step1bFits \/ Step1bExpand \/ Step1bDone
    \/ UpdateOffset \/ UpdateOffsetsDone
    \/ Step1d \/ Step1dDone
    \/ Step1eBuild \/ CheckCycle \/ Step1eDone
    \/ PopIdle \/ PopExpand
    \/ \E e \in todo : ExpandTerm(e)
    \/ MoveOffsetSetter \/ Abort \/ RippleDone
    \/ Step2Done

Spec == Init /\ [][Next]_vars

\* One thread runs the algorithm, so it always takes its next step.
FairSpec == Spec /\ WF_vars(Next)

-----------------------------------------------------------------------------
(* Properties *)

\* Where bytecode b really starts: the lengths of its section added up.
Position == [b \in Bcs |->
    LET pos[c \in 1..b] == IF FirstOfSection(c) THEN 0 ELSE pos[c - 1] + TotalLen(c - 1)
    IN  pos[b]]
TrueDistances(e) ==
    LET pos == Position
    IN  [t \in Terms |-> (pos[e.to[t][1]] + e.to[t][2]) - (pos[e.from[t][1]] + e.from[t][2])]

\* Step 2 never recomputes an offset: it patches distances and offset setters
\* by differences.  Between two queue entries the patched values are the real
\* ones, whatever mix of growing, shrinking, aligning and absorbing came before.
TermAccuracy ==
    phase = "2" =>
        /\ \A x \in 1..Len(spans) :
             spans[x].active \in {"ACTIVE", "ON_Q"} =>
                 spans[x].dist = TrueDistances(spans[x].expr)
        /\ \A j \in 1..Len(osets) :
             osets[j].new = Position[osets[j].bc] + prog[osets[j].bc].fixed

\* No wake-up is lost: a span that still depends on its value, and whose value
\* under the real distances exceeds its thresholds, is waiting in a queue
\* whenever step 2 looks at the queues.
NoLostExpansion ==
    phase = "2" =>
        \A x \in 1..Len(spans) :
            LET s == [spans[x] EXCEPT !.dist = TrueDistances(spans[x].expr)]
            IN  s.active \in {"ACTIVE", "ON_Q"} /\ Exceeds(Recalc(s)) => s.active = "ON_Q"

\* What the result promises to Output when no error was reported: offsets add
\* up, align and org tails end where they must, the short form is kept only
\* where the value fits it, and a multiple still has the value it was expanded
\* to ("multiple changed after optimize"), unless Output will reject it as
\* negative.
SpanSatisfied(s) ==
    LET v == Evaluate(s.expr, TrueDistances(s.expr)) IN
    IF s.id < 0 THEN v < 0 \/ mult[s.bc] = v
    ELSE IF prog[s.bc].kind = "leb" THEN SizeLEB128(v, prog[s.bc].sign) <= len[s.bc]
    ELSE s.active \in {"INACTIVE", "DELETED"} \/ (Part(s).lo <= v /\ v <= Part(s).hi)
SetterSatisfied(b) ==
    LET tail == offset[b] + prog[b].fixed IN
    IF prog[b].kind = "align" THEN len[b] = AlignLen(prog[b], tail)
                              ELSE tail + len[b] = prog[b].start
LayoutCorrect ==
    phase = "done" /\ ~err =>
        /\ offset = Position
        /\ \A x \in 1..Len(spans) : SpanSatisfied(spans[x])
        /\ \A b \in Bcs : IsOffsetSetter(b) => SetterSatisfied(b)

\* "detection of cycles": when step 2 starts no multiple depends, directly or
\* through other multiples, on its own size.
Multiples == {x \in 1..Len(spans) : Live(x) /\ spans[x].id <= 0}
DependsOn == {d \in Multiples \X Multiples : d[1] \in Dependents(d[2])}
CyclesDetected ==
    phase = "2" =>
        LET closure == TransitiveClosure([d \in Multiples \X Multiples |-> d \in DependsOn], Multiples)
        IN  \A x \in Multiples : ~closure[x, x]

\* The optimizer ends, in a layout, with an error, or on its own assertion.
Termination == <>~Running

=============================================================================
