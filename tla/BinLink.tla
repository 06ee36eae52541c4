------------------------------- MODULE BinLink -------------------------------
(***************************************************************************)
(* The flat binary object format: SECTION and ORG directives, BinLink,     *)
(* which gives every section a load address (LMA) and an execution address *)
(* (VMA), and the output of the sections.  Section contents are lengths.   *)
(***************************************************************************)
EXTENDS Integers, FiniteSetsExt
LOCAL INSTANCE SequencesExt

CONSTANTS Names,            \* names of sections, one of them ".text"
          Attributes,       \* attribute records a directive can carry
          Lengths,          \* bytes between two directives
          Origins,          \* operands of ORG
          MaxDirectives,    \* bound: SECTION and ORG directives
          None,             \* an attribute that is not given
          Complex           \* an expression that is not an integer

VARIABLES
    phase,      \* "parse", "create", "follow", "assign", "vfollow", "vassign",
                \* "output", "done" or "failed"
    directives, \* directives seen so far
    order,      \* the sections of the object, in the order of creation
    attr,       \* BinSection and section flags, by name
    length,     \* bytes in the section
    default,    \* sections that exist only because code came first
    cur,        \* current section
    org,        \* operand of ORG or None
    todo,       \* what is left of the current loop
    top,        \* m_lma_groups, then m_vma_groups
    kids,       \* m_follow_groups, by name
    link,       \* addresses and accumulators of the assignment, a record
    file,       \* bytes written: name to file offset
    diags       \* diagnostics: kind and section

vars == <<phase, directives, order, attr, length, default, cur, org, todo, top, kids,
          link, file, diags>>

parseVars == <<directives, order, attr, length, default, cur, org>>

NoAttributes(n) ==
    [start |-> None, follows |-> None, align |-> None, vstart |-> None, vfollows |-> None,
     valign |-> None, bss |-> n = ".bss",
     content |-> 1]         \* Section::getAlign(): what ALIGN in the section asks for

IsError(kind) == kind \notin {"redef_flags", "align_larger", "start_not_aligned"}
Errors == {d \in diags : IsError(d[1])}

-----------------------------------------------------------------------------
(* Directives *)

Known(n) == n \in Range(order)

\* The section directive with attributes a, and the len bytes up to the next one.
DirSection(n, a, len) ==
    LET first == ~Known(n) \/ n \in default
        new   == IF first /\ a # None THEN a @@ NoAttributes(n)
                 ELSE IF Known(n) THEN attr[n] ELSE NoAttributes(n)
    IN  /\ phase = "parse" /\ directives < MaxDirectives
        /\ directives' = directives + 1
        /\ order' = IF Known(n) THEN order ELSE Append(order, n)
        /\ cur' = n
        /\ default' = default \ {n}
        /\ attr' = [attr EXCEPT ![n] = new]
        /\ length' = [length EXCEPT ![n] = @ + len]
        /\ diags' = diags
             \cup (IF ~first /\ a # None THEN {<<"redef_flags", n>>} ELSE {})
             \cup (IF first /\ a # None /\ new.start # None /\ new.follows # None
                   THEN {<<"start_follows", n>>} ELSE {})
             \cup (IF first /\ a # None /\ new.vstart # None /\ new.vfollows # None
                   THEN {<<"vstart_vfollows", n>>} ELSE {})
        /\ UNCHANGED <<phase, org, todo, top, kids, link, file>>

DirOrg(o) ==
    /\ phase = "parse" /\ directives < MaxDirectives
    /\ directives' = directives + 1
    /\ IF org # None THEN diags' = diags \cup {<<"org_redefined", None>>} /\ UNCHANGED org
       ELSE org' = o /\ UNCHANGED diags
    /\ UNCHANGED <<phase, order, attr, length, default, cur, todo, top, kids, link, file>>

Fail(kind, n) == phase' = "failed" /\ diags' = diags \cup {<<kind, n>>}

\* BinObject::Output: after errors the object is not written at all.
StartOutput ==
    /\ phase = "parse"
    /\ IF Errors # {} THEN phase' = "failed" /\ UNCHANGED diags
       ELSE IF org = Complex THEN Fail("org_too_complex", None)
       ELSE IF org # None /\ org < 0 THEN Fail("org_negative", None)
       ELSE phase' = "create" /\ UNCHANGED diags
    /\ todo' = order
    /\ link' = LET o == IF org \in {None, Complex} THEN 0 ELSE org
               IN  [link EXCEPT !.origin = o, !.start = o, !.last = o]
    /\ UNCHANGED <<directives, order, attr, length, default, cur, org, top, kids, file>>

-----------------------------------------------------------------------------
(* BinLink::DoLink *)

CreateLMAGroup ==
    /\ phase = "create" /\ todo # << >>
    /\ LET n == Head(todo)
           a == attr[n]
       IN  IF a.start = Complex
           THEN Fail("start_too_complex", n) /\ UNCHANGED <<todo, top, link>>
           ELSE IF a.vstart = Complex
           THEN Fail("vstart_too_complex", n) /\ UNCHANGED <<todo, top, link>>
           ELSE /\ todo' = Tail(todo)
                /\ top' = Append(top, n)
                /\ link' = [link EXCEPT
                     !.align[n] = IF a.align = None THEN Max({a.content, 4}) ELSE a.align,
                     !.lma[n] = IF a.start = None THEN @ ELSE a.start,
                     !.vma[n] = IF a.vstart = None THEN @ ELSE a.vstart,
                     !.has_istart = IF a.start = None THEN @ ELSE @ \cup {n},
                     !.has_ivstart = IF a.vstart = None THEN @ ELSE @ \cup {n}]
                /\ diags' = IF a.align # None /\ a.content > a.align
                            THEN diags \cup {<<"align_larger", n>>} ELSE diags
                /\ UNCHANGED phase
    /\ UNCHANGED <<kids, file>> /\ UNCHANGED parseVars

CreateDone ==
    /\ phase = "create" /\ todo = << >>
    /\ phase' = "follow" /\ todo' = top
    /\ UNCHANGED <<top, kids, link, file, diags>> /\ UNCHANGED parseVars

RECURSIVE Under(_)
Under(n) == Range(kids[n]) \cup UNION {Under(k) : k \in Range(kids[n])}

\* One iteration of the follows loop: target is what the group is to follow.
\* Mutant: only a section that follows itself is a loop.
MutFollowStep(target, unknown, loop) ==
    LET n == Head(todo) IN
    IF target = None THEN todo' = Tail(todo) /\ UNCHANGED <<phase, top, kids, diags>>
    ELSE IF ~Known(target) THEN Fail(unknown, n) /\ UNCHANGED <<todo, top, kids>>
    ELSE IF target = n THEN Fail(loop, n) /\ UNCHANGED <<todo, top, kids>>
    ELSE /\ todo' = Tail(todo)
         /\ top' = SelectSeq(top, LAMBDA x : x # n)
         /\ kids' = [kids EXCEPT ![target] = Append(@, n)]
         /\ UNCHANGED <<phase, diags>>
FollowStep(target, unknown, loop) ==
    LET n == Head(todo) IN
    IF target = None THEN todo' = Tail(todo) /\ UNCHANGED <<phase, top, kids, diags>>
    ELSE IF ~Known(target) THEN Fail(unknown, n) /\ UNCHANGED <<todo, top, kids>>
    ELSE IF target = n \/ target \in Under(n) THEN Fail(loop, n) /\ UNCHANGED <<todo, top, kids>>
    ELSE /\ todo' = Tail(todo)
         /\ top' = SelectSeq(top, LAMBDA x : x # n)
         /\ kids' = [kids EXCEPT ![target] = Append(@, n)]
         /\ UNCHANGED <<phase, diags>>

\* Mutant: the loop waits for a section that it cannot find.
MutFollow ==
    /\ phase = "follow" /\ todo # << >>
    /\ attr[Head(todo)].follows \in {None} \cup Range(order)
    /\ FollowStep(attr[Head(todo)].follows, "follows_unknown", "follows_loop")
    /\ UNCHANGED <<link, file>> /\ UNCHANGED parseVars
Follow ==
    /\ phase = "follow" /\ todo # << >>
    /\ FollowStep(attr[Head(todo)].follows, "follows_unknown", "follows_loop")
    /\ UNCHANGED <<link, file>> /\ UNCHANGED parseVars

isNotBSS(n) == n \in link.has_istart \/ ~attr[n].bss

CompareIStart(m, n) ==
    /\ m \in link.has_istart /\ n \in link.has_istart
    /\ link.lma[m] < link.lma[n]

\* std::stable_sort on a short sequence: each element in turn goes to the front
\* if it is less than the first one, else left past the elements it is less than.
\* CompareIStart is no strict weak order, so the procedure matters.
StableSort(s) ==
    LET Place(acc, x) ==
          IF acc # << >> /\ CompareIStart(x, acc[1]) THEN <<x>> \o acc
          ELSE LET stop == {i \in 0..Len(acc) :
                              \A j \in (i + 1)..Len(acc) : CompareIStart(x, acc[j])}
               IN  InsertAt(acc, Min(stop) + 1, x)
    IN  FoldLeft(Place, << >>, s)

FollowDone ==
    /\ phase = "follow" /\ todo = << >>
    /\ phase' = "assign"
    /\ top' = StableSort(SelectSeq(top, isNotBSS)) \o SelectSeq(top, LAMBDA n : ~isNotBSS(n))
    /\ todo' = top'
    /\ UNCHANGED <<kids, link, file, diags>> /\ UNCHANGED parseVars

AlignStart(start, align) == IF start % align # 0 THEN (start \div align) * align + align ELSE start

\* The section takes its VMA from its LMA.
OwnVMA(n) == attr[n].vstart = None /\ attr[n].vfollows = None

\* What the alignment of a VMA adds to vdelta.  Mutant: nothing.
MutPushed(vdelta, vma, orig) == vdelta
Pushed(vdelta, vma, orig) == vdelta + vma - orig

\* Where a following section starts.  Mutant: the length is not added.
MutAfter(n, addr) == addr
After(n, addr) == addr + length[n]

\* AssignStartRecurse: st accumulates addresses, last, vdelta and diagnostics.
RECURSIVE AssignStartRecurse(_, _, _)
AssignStartRecurse(n, start, st) ==
    LET a    == attr[n]
        lma  == AlignStart(start, st.align[n])
        orig == lma + st.vdelta
        own  == OwnVMA(n)
        vma  == IF ~own THEN st.vma[n]
                ELSE IF a.valign = None THEN orig ELSE AlignStart(orig, a.valign)
        st1  == [st EXCEPT
                   !.lma[n] = lma, !.vma[n] = vma,
                   !.vdelta = IF own THEN Pushed(@, vma, orig) ELSE @,
                   !.has_istart = @ \cup {n},
                   !.has_ivstart = IF own THEN @ \cup {n} ELSE @,
                   !.last = Max({@, lma + length[n]}),
                   !.warn = IF n \in st.has_istart /\ start # lma
                            THEN @ \cup {<<"start_not_aligned", n>>} ELSE @]
    IN  FoldLeft(LAMBDA acc, k : AssignStartRecurse(k, After(n, lma), acc), st1, kids[n])

\* A top-level group without a start begins where the last one ended.
StartOf(n) == IF n \in link.has_istart THEN link.lma[n] ELSE link.start

AssignStart ==
    /\ phase = "assign" /\ todo # << >>
    /\ LET n  == Head(todo)
           st == AssignStartRecurse(n, StartOf(n), link)
       IN  /\ link' = [st EXCEPT !.start = st.last, !.warn = {}]
           /\ diags' = diags \cup st.warn
    /\ todo' = Tail(todo)
    /\ UNCHANGED <<phase, top, kids, file>> /\ UNCHANGED parseVars

\* The groups are built again for the VMA.
AssignDone ==
    /\ phase = "assign" /\ todo = << >>
    /\ phase' = "vfollow" /\ todo' = order /\ top' = order
    /\ kids' = [n \in Names |-> << >>]
    /\ UNCHANGED <<link, file, diags>> /\ UNCHANGED parseVars

VFollow ==
    /\ phase = "vfollow" /\ todo # << >>
    /\ FollowStep(attr[Head(todo)].vfollows, "vfollows_unknown", "vfollows_loop")
    /\ UNCHANGED <<link, file>> /\ UNCHANGED parseVars

VFollowDone ==
    /\ phase = "vfollow" /\ todo = << >>
    /\ phase' = "vassign" /\ todo' = top
    /\ UNCHANGED <<top, kids, link, file, diags>> /\ UNCHANGED parseVars

RECURSIVE AssignVStartRecurse(_, _, _)
AssignVStartRecurse(n, start, st) ==
    LET a      == attr[n]
        valign == IF a.valign = None THEN st.align[n] ELSE a.valign
        vma    == AlignStart(start, valign)
        st1    == [st EXCEPT
                     !.vma[n] = vma,
                     !.has_ivstart = @ \cup {n},
                     !.warn = @ \cup
                        (IF a.valign # None /\ a.content > a.valign
                         THEN {<<"align_larger", n>>} ELSE {}) \cup
                        (IF n \in st.has_ivstart /\ start # vma
                         THEN {<<"vstart_not_aligned", n>>} ELSE {})]
    IN  FoldLeft(LAMBDA acc, k : AssignVStartRecurse(k, After(n, vma), acc), st1, kids[n])

AssignVStart ==
    /\ phase = "vassign" /\ todo # << >>
    /\ LET st == AssignVStartRecurse(Head(todo), link.vma[Head(todo)], link)
       IN  link' = [st EXCEPT !.warn = {}] /\ diags' = diags \cup st.warn
    /\ todo' = Tail(todo)
    /\ UNCHANGED <<phase, top, kids, file>> /\ UNCHANGED parseVars

-----------------------------------------------------------------------------
(* CheckLMAOverlap and the output of the sections *)

\* Mutant: sections of which one starts where the other does are not compared.
MutOverlap(m, n) ==
    LET gap(x, y) == link.lma[x] + length[x] - link.lma[y]
    IN  /\ length[m] # 0 /\ length[n] # 0 /\ link.lma[m] # link.lma[n]
        /\ (IF link.lma[m] < link.lma[n] THEN gap(m, n) ELSE gap(n, m)) > 0
Overlap(m, n) ==
    LET gap(x, y) == link.lma[x] + length[x] - link.lma[y]
    IN  /\ length[m] # 0 /\ length[n] # 0
        /\ (IF link.lma[m] <= link.lma[n] THEN gap(m, n) ELSE gap(n, m)) > 0

CheckLMAOverlap ==
    /\ phase = "vassign" /\ todo = << >>
    /\ LET bad == {n \in Range(order) : \E m \in Range(order) \ {n} : Overlap(m, n)}
       IN  IF bad # {} THEN Fail("section_overlap", None) ELSE phase' = "output" /\ UNCHANGED diags
    /\ todo' = order
    /\ UNCHANGED <<top, kids, link, file>> /\ UNCHANGED parseVars

OutputSection ==
    /\ phase = "output" /\ todo # << >>
    /\ LET n   == Head(todo)
           pos == link.lma[n] - link.origin
       IN  IF attr[n].bss THEN UNCHANGED <<file, diags>>
           ELSE IF pos < 0 THEN diags' = diags \cup {<<"before_origin", n>>} /\ UNCHANGED file
           ELSE file' = [file EXCEPT ![n] = pos] /\ UNCHANGED diags
    /\ todo' = Tail(todo)
    /\ UNCHANGED <<phase, top, kids, link>> /\ UNCHANGED parseVars

OutputDone ==
    /\ phase = "output" /\ todo = << >> /\ phase' = "done"
    /\ UNCHANGED <<todo, top, kids, link, file, diags>> /\ UNCHANGED parseVars

-----------------------------------------------------------------------------
Link ==
    \/ CreateLMAGroup \/ CreateDone \/ Follow \/ FollowDone
    \/ AssignStart \/ AssignDone \/ VFollow \/ VFollowDone \/ AssignVStart
    \/ CheckLMAOverlap \/ OutputSection \/ OutputDone

Init ==
    /\ phase = "parse" /\ directives = 0 /\ order = <<".text">>
    /\ attr = [n \in Names |-> NoAttributes(n)]
    /\ length = [n \in Names |-> 0]
    /\ default = {".text"} /\ cur = ".text" /\ org = None
    /\ todo = << >> /\ top = << >> /\ kids = [n \in Names |-> << >>]
    /\ link = [lma |-> [n \in Names |-> 0], vma |-> [n \in Names |-> 0],
               align |-> [n \in Names |-> 4], has_istart |-> {}, has_ivstart |-> {},
               origin |-> 0, start |-> 0, last |-> 0, vdelta |-> 0, warn |-> {}]
    /\ file = [n \in Names |-> None] /\ diags = {}

Next ==
    \/ \E n \in Names, a \in Attributes \cup {None}, len \in Lengths : DirSection(n, a, len)
    \/ \E o \in Origins : DirOrg(o)
    \/ StartOutput \/ Link

\* Once started, Output runs to its end: it waits for nothing.
Spec == Init /\ [][Next]_vars /\ WF_vars(Link)

-----------------------------------------------------------------------------
(* Properties *)

Linked    == phase \in {"output", "done"}
Placed    == phase \in {"vfollow", "vassign", "output", "done"}
Reported(kind) == \E d \in diags : d[1] = kind
Sections  == Range(order)

Simple == \A n \in Sections :
    attr[n].start = None /\ attr[n].vstart = None /\ attr[n].vfollows = None
Fork == \E m, n \in Sections : m # n /\ attr[m].follows # None /\ attr[m].follows = attr[n].follows

RECURSIVE Ancestors(_, _, _)
Ancestors(by, n, k) ==
    IF k = 0 \/ attr[n][by] \notin Sections THEN {}
    ELSE {attr[n][by]} \cup Ancestors(by, attr[n][by], k - 1)
Circular(by) == \E n \in Sections : n \in Ancestors(by, n, Len(order))

\* The loops over follows and vfollows in DoLink report a loop exactly when
\* sections follow each other in a circle, in whatever order they come, and
\* otherwise reach the assignment with every section that is named known.
LoopsDetected ==
    /\ phase \in {"assign", "vfollow", "vassign", "output", "done"} =>
         ~Circular("follows") /\ \A n \in Sections : attr[n].follows \in Sections \cup {None}
    /\ phase \in {"vassign", "output", "done"} =>
         ~Circular("vfollows") /\ \A n \in Sections : attr[n].vfollows \in Sections \cup {None}
    /\ Reported("follows_loop") => Circular("follows")
    /\ Reported("vfollows_loop") => Circular("vfollows")

\* "should follow the section named ... in the output file": a section comes right
\* after the one it follows, at its alignment, and so does its VMA for vfollows.
FollowsHolds ==
    /\ Placed => \A n \in Sections : attr[n].follows # None =>
         LET f == attr[n].follows
         IN  link.lma[n] = AlignStart(link.lma[f] + length[f], link.align[n])
    /\ Linked => \A n \in Sections : attr[n].vfollows # None =>
         LET f == attr[n].vfollows
         IN  link.vma[n] = AlignStart(link.vma[f] + length[f],
                    IF attr[n].valign = None THEN link.align[n] ELSE attr[n].valign)


\* The sections written do not overwrite each other in the file, and each lies at
\* the distance of its load address from the origin.  And CheckLMAOverlap fails no
\* link with neither start addresses nor two sections that follow the same one.
FileDisjoint ==
    /\ \A m, n \in Names : m # n /\ file[m] # None /\ file[n] # None =>
         /\ file[m] - file[n] = link.lma[m] - link.lma[n]
         /\ \/ length[m] = 0 \/ length[n] = 0
            \/ file[m] + length[m] <= file[n] \/ file[n] + length[n] <= file[m]
    /\ Reported("section_overlap") => Fork \/ \E n \in Sections : attr[n].start # None

\* objfmt-bin.txt: valign pushes the following sections "to avoid VMA overlap":
\* sections placed by default, follows or valign do not overlap in an accepted link.
NoVMAOverlap ==
    phase = "done" /\ Errors = {} /\ Simple
        => \A m, n \in Sections : m # n /\ length[m] # 0 /\ length[n] # 0 =>
             \/ link.vma[m] + length[m] <= link.vma[n]
             \/ link.vma[n] + length[n] <= link.vma[m]

\* Output ends with a file or with an error: no choice of follows, vfollows and
\* starts keeps one of the loops of DoLink and Output from ending.
LinkEnds == phase = "create" ~> phase \in {"done", "failed"}

==============================================================================
