-------------------------- MODULE BumpVersionProofs --------------------------
(***************************************************************************)
(* Theorems about BumpVersion, for any files, versions and overlapping     *)
(* runs.                                                                   *)
(***************************************************************************)
EXTENDS BumpVersion, TLAPS

\* A process at rest remembers nothing; a running one has a real target.  No
\* file is committed empty.
Sound(m) == IF m.pc = "idle" THEN m = Rest ELSE m.target \in Version

TypeInv ==
    /\ TypeOK
    /\ \A r \in Runner : Sound(run[r])
    /\ \A f \in File : head[f] # Empty

LEMMA EmptyTree == Nothing \in Tree
  BY DEF Nothing, Tree, Content

LEMMA RestTypes == Rest \in RunState /\ Sound(Rest)
  <1>1. 1 \in DOMAIN Order
    BY BumpAssumption
  <1>2. 0 \in 0..MaxVersion
    BY BumpAssumption
  <1>. QED
    BY <1>1, <1>2, EmptyTree DEF Rest, RunState, Steps, Sound

LEMMA HereIsFile == TypeOK => \A r \in Runner : Here(r) \in File
  BY DEF TypeOK, RunState, Here, File, ToSet

\* A rewritten content is one the file may have, and stems from the same edit.
LEMMA RewrittenTypes ==
  ASSUME NEW f, NEW c \in Content, c # Empty, NEW target \in Version
  PROVE  Rewritten(f, c, target) \in Content /\ Rewritten(f, c, target).edit = c.edit
  <1>1. c \in [versions: Seq(Version), edit: Edits]
    BY DEF Content
  <1>. DEFINE w == [i \in DOMAIN c.versions |->
                      IF f = Changelog /\ i > 1 THEN c.versions[i] ELSE target]
  <1>2. w \in Seq(Version)
    <2>1. PICK n \in Nat : c.versions \in [1..n -> Version]
      BY <1>1
    <2>2. w \in [1..n -> Version]
      BY <2>1
    <2>. QED
      BY <2>2
  <1>3. Rewritten(f, c, target) = [c EXCEPT !.versions = w]
    BY DEF Rewritten
  <1>. HIDE DEF w
  <1>4. [c EXCEPT !.versions = w] \in [versions: Seq(Version), edit: Edits]
    BY <1>1, <1>2
  <1>5. [c EXCEPT !.versions = w].edit = c.edit
    BY <1>1
  <1>. QED
    BY <1>3, <1>4, <1>5 DEF Content

\* What a loop makes of a process's memory.
Looped(mem, step, after) ==
    IF mem.at < Len(Order) THEN [mem EXCEPT !.pc = step, !.at = @ + 1]
                           ELSE [mem EXCEPT !.pc = after, !.at = 1]

LEMMA LoopedTypes ==
  ASSUME NEW m \in RunState, NEW step \in Steps, NEW after \in Steps
  PROVE  /\ Looped(m, step, after) \in RunState
         /\ Looped(m, step, after).pc \in {step, after}
         /\ Looped(m, step, after).new = m.new
         /\ Looped(m, step, after).original = m.original
         /\ Looped(m, step, after).target = m.target
  <1>1. DOMAIN Order = 1..Len(Order) /\ Len(Order) \in Nat \ {0}
    BY BumpAssumption
  <1>2. m.at < Len(Order) => m.at + 1 \in DOMAIN Order
    BY <1>1 DEF RunState
  <1>3. 1 \in DOMAIN Order
    BY <1>1
  <1>. QED
    BY <1>2, <1>3 DEF Looped, RunState

-----------------------------------------------------------------------------
\* The steps before git has been asked.
Early == {"idle", "consistency", "git"}

\* A content that stems from one remembered before, or from the working tree.
StemsFrom(x, kept, f) == x = Empty \/ x = kept \/ (tree[f] # Empty /\ x.edit = tree[f].edit)

\* What every step of process r has in common, with m in its memory afterwards.
StepTo(r, m) ==
    /\ m \in RunState /\ Sound(m)
    /\ run' = [run EXCEPT ![r] = m]
    /\ outcome' \in [Runner -> Outcomes]
    /\ notes' \in Notes
    /\ spent' \in [runs: Nat, faults: Nat, kills: Nat, edits: Edits]
    /\ UNCHANGED <<head, latest>>
    /\ \/ tree' = tree
       \/ /\ run[r].pc \notin Early
          /\ \E f \in File : \E c \in {Empty, run[r].new[f], run[r].original[f]} :
                tree' = [tree EXCEPT ![f] = c]
    /\ m.pc \notin Early =>
          run[r].pc \notin Early \/ tree = head \/ FALSE \in GitAnswers
    /\ \A f \in File : /\ StemsFrom(m.new[f], run[r].new[f], f)
                       /\ StemsFrom(m.original[f], run[r].original[f], f)

LEMMA SpentTypes ==
  TypeInv /\ (spent' = spent \/ Fault) =>
      spent' \in [runs: Nat, faults: Nat, kills: Nat, edits: Edits]
  BY DEF TypeInv, TypeOK, Fault

LEMMA EndSteps ==
  ASSUME TypeInv, NEW r \in Runner, NEW how \in Outcomes, End(r, how),
         spent' \in [runs: Nat, faults: Nat, kills: Nat, edits: Edits],
         notes' \in Notes, UNCHANGED <<tree, head, latest>>
  PROVE  StepTo(r, Rest)
  <1>1. outcome' \in [Runner -> Outcomes]
    BY DEF TypeInv, TypeOK, End
  <1>2. \A f \in File : Rest.new[f] = Empty /\ Rest.original[f] = Empty
    BY DEF Rest, Nothing
  <1>3. Rest.pc = "idle"
    BY DEF Rest
  <1>. QED
    BY <1>1, <1>2, <1>3, RestTypes DEF StepTo, End, Early, StemsFrom

LEMMA StartSteps ==
  ASSUME TypeInv, NEW r \in Runner, NEW target \in Version, NEW confirm \in Version,
         Start(r, target, confirm)
  PROVE  \E m : StepTo(r, m)
  <1>. DEFINE m == [Rest EXCEPT !.pc = "consistency", !.current = confirm,
                                !.target = target,
                                !.before = [tree |-> tree, notes |-> notes]]
  <1>1. spent' \in [runs: Nat, faults: Nat, kills: Nat, edits: Edits]
    BY DEF Start, TypeInv, TypeOK
  <1>2. CASE Shown(Canonical) # 0 /\ confirm = Shown(Canonical)
    <2>1. target \in 0..MaxVersion /\ confirm \in 0..MaxVersion
      BY BumpAssumption DEF Version
    <2>2. [tree |-> tree, notes |-> notes] \in [tree: Tree, notes: Notes \cup {<<>>}]
      BY DEF TypeInv, TypeOK
    <2>3. m \in RunState /\ m.pc = "consistency" /\ m.target = target
          /\ m.new = Rest.new /\ m.original = Rest.original
      BY <2>1, <2>2, RestTypes DEF RunState, Steps
    <2>4. \A f \in File : Rest.new[f] = Empty /\ Rest.original[f] = Empty
      BY DEF Rest, Nothing
    <2>5. run' = [run EXCEPT ![r] = m] /\ UNCHANGED <<outcome, tree, head, notes, latest>>
      BY <1>2 DEF Start
    <2>. HIDE DEF m
    <2>6. StepTo(r, m)
      BY <1>1, <2>3, <2>4, <2>5
         DEF StepTo, Sound, StemsFrom, Early, TypeInv, TypeOK
    <2>. QED
      BY <2>6
  <1>3. CASE ~(Shown(Canonical) # 0 /\ confirm = Shown(Canonical))
    <2>1. End(r, "blocked") /\ UNCHANGED <<tree, head, notes, latest>>
      BY <1>3 DEF Start
    <2>. QED
      BY <1>1, <2>1, EndSteps DEF TypeInv, TypeOK, Outcomes
  <1>. QED
    BY <1>2, <1>3

\* A step that changes neither what the process has computed nor what it keeps.
LEMMA GotoSteps ==
  ASSUME TypeInv, NEW r \in Runner, ~At(r, "idle"), NEW m \in RunState,
         m.pc # "idle", m.target = run[r].target,
         m.new = run[r].new, m.original = run[r].original,
         m.pc \notin Early =>
             run[r].pc \notin Early \/ tree = head \/ FALSE \in GitAnswers,
         run' = [run EXCEPT ![r] = m],
         \/ tree' = tree
         \/ /\ run[r].pc \notin Early
            /\ \E f \in File : \E c \in {Empty, run[r].new[f], run[r].original[f]} :
                  tree' = [tree EXCEPT ![f] = c],
         spent' = spent \/ Fault, notes' \in Notes,
         UNCHANGED <<outcome, head, latest>>
  PROVE  StepTo(r, m)
  <1>1. Sound(m)
    BY DEF TypeInv, Sound, At
  <1>2. spent' \in [runs: Nat, faults: Nat, kills: Nat, edits: Edits]
    BY SpentTypes
  <1>. QED
    BY <1>1, <1>2 DEF StepTo, StemsFrom, TypeInv, TypeOK

-----------------------------------------------------------------------------
LEMMA CheckSteps ==
  ASSUME TypeInv, NEW r \in Runner,
         CheckConsistency(r) \/ \E works \in GitAnswers : CheckGit(r, works)
  PROVE  \E m : StepTo(r, m)
  <1>1. run[r] \in RunState /\ 1 \in DOMAIN Order
    BY BumpAssumption DEF TypeInv, TypeOK
  <1>2. CASE End(r, "blocked") /\ UNCHANGED <<tree, head, notes, latest, spent>>
    BY <1>2, SpentTypes, EndSteps DEF TypeInv, TypeOK, Outcomes
  <1>3. CASE /\ At(r, "consistency")
             /\ run' = [run EXCEPT ![r].pc = "git", ![r].errors = ~Consistent]
             /\ UNCHANGED <<outcome, tree, head, notes, latest, spent>>
    <2>. DEFINE m == [run[r] EXCEPT !.pc = "git", !.errors = ~Consistent]
    <2>1. m \in RunState /\ m.pc = "git" /\ m.target = run[r].target
          /\ m.new = run[r].new /\ m.original = run[r].original
      BY <1>1 DEF RunState, Steps, Consistent
    <2>2. run' = [run EXCEPT ![r] = m]
      BY <1>3 DEF TypeInv, TypeOK
    <2>3. ~At(r, "idle")
      BY <1>3 DEF At
    <2>. HIDE DEF m
    <2>4. StepTo(r, m)
      BY <1>3, <2>1, <2>2, <2>3, GotoSteps DEF Early, TypeInv, TypeOK
    <2>. QED
      BY <2>4
  <1>4. CASE \E works \in GitAnswers :
                /\ At(r, "git")
                /\ ~(works /\ tree # head)
                /\ Begin(r, "compute")
                /\ UNCHANGED <<outcome, tree, head, notes, latest, spent>>
    <2>. DEFINE m == [run[r] EXCEPT !.pc = "compute", !.at = 1]
    <2>1. m \in RunState /\ m.pc = "compute" /\ m.target = run[r].target
          /\ m.new = run[r].new /\ m.original = run[r].original
      BY <1>1 DEF RunState, Steps
    <2>2. run' = [run EXCEPT ![r] = m]
      BY <1>4 DEF Begin, TypeInv, TypeOK
    <2>3. ~At(r, "idle")
      BY <1>4 DEF At
    <2>4. tree = head \/ FALSE \in GitAnswers
      BY <1>4, BumpAssumption
    <2>. HIDE DEF m
    <2>5. StepTo(r, m)
      BY <1>4, <2>1, <2>2, <2>3, <2>4, GotoSteps DEF Early, TypeInv, TypeOK
    <2>. QED
      BY <2>5
  <1>. QED
    BY <1>2, <1>3, <1>4 DEF CheckConsistency, CheckGit

LEMMA LoopIsLooped ==
  ASSUME NEW r, NEW m, NEW step, NEW after, Loop(r, m, step, after)
  PROVE  run' = [run EXCEPT ![r] = Looped(m, step, after)]
  BY DEF Loop, Looped

LEMMA ComputeSteps ==
  ASSUME TypeInv, NEW r \in Runner, Compute(r)
  PROVE  \E m : StepTo(r, m)
  <1>. DEFINE f == Here(r)
              mem(c) == [run[r] EXCEPT !.new[f] = c]
  <1>1. run[r] \in RunState /\ f \in File /\ tree[f] \in Content /\ Empty \in Content
    BY HereIsFile DEF TypeInv, TypeOK, Tree, Content
  <1>2. run[r].target \in Version /\ run[r].pc = "compute"
    BY DEF Compute, At, TypeInv, Sound
  <1>3. PICK c \in Content : /\ c = Empty \/ (tree[f] # Empty /\ c.edit = tree[f].edit)
                             /\ Loop(r, mem(c), "compute", "keep")
    <2>1. CASE f \in Reached /\ tree[f] # Empty
                /\ Loop(r, mem(Rewritten(f, tree[f], run[r].target)), "compute", "keep")
      BY <1>1, <1>2, <2>1, RewrittenTypes
    <2>2. CASE Loop(r, mem(Empty), "compute", "keep")
      BY <1>1, <2>2
    <2>. QED
      BY <2>1, <2>2 DEF Compute
  <1>4. mem(c) \in RunState /\ mem(c).target = run[r].target
        /\ mem(c).new = [run[r].new EXCEPT ![f] = c]
        /\ mem(c).original = run[r].original
    BY <1>1, <1>3 DEF RunState, Tree
  <1>. DEFINE k == mem(c)
              m == Looped(k, "compute", "keep")
  <1>5. run' = [run EXCEPT ![r] = m]
    BY <1>3, LoopIsLooped
  <1>. HIDE DEF k
  <1>6. m \in RunState /\ m.pc \in {"compute", "keep"} /\ m.target = run[r].target
        /\ m.new = [run[r].new EXCEPT ![f] = c] /\ m.original = run[r].original
    <2>1. /\ k \in RunState /\ k.target = run[r].target
          /\ k.new = [run[r].new EXCEPT ![f] = c] /\ k.original = run[r].original
      BY <1>4 DEF k
    <2>2. "compute" \in Steps /\ "keep" \in Steps
      BY DEF Steps
    <2>. HIDE DEF f
    <2>. QED
      BY <2>1, <2>2, LoopedTypes
  <1>7. spent' = spent \/ Fault
    BY DEF Compute
  <1>8. UNCHANGED <<outcome, tree, head, notes, latest>>
    BY DEF Compute
  <1>9. run[r].new \in [File -> Content]
    BY <1>1 DEF RunState, Tree
  <1>. HIDE DEF m, f
  <1>10. \A g \in File : StemsFrom(m.new[g], run[r].new[g], g)
                         /\ StemsFrom(m.original[g], run[r].original[g], g)
    BY <1>3, <1>6, <1>9 DEF StemsFrom
  <1>11. StepTo(r, m)
    BY <1>2, <1>5, <1>6, <1>7, <1>8, <1>10, SpentTypes
       DEF StepTo, Sound, Early, TypeInv, TypeOK
  <1>. QED
    BY <1>11

LEMMA KeepSteps ==
  ASSUME TypeInv, NEW r \in Runner, Keep(r)
  PROVE  \E m : StepTo(r, m)
  <1>. DEFINE f == Here(r)
              c == IF Planned(r) THEN tree[f] ELSE Empty
              k == [run[r] EXCEPT !.original[f] = c]
              m == Looped(k, "keep", "open")
  <1>1. run[r] \in RunState /\ f \in File /\ c \in Content
    BY HereIsFile DEF TypeInv, TypeOK, Tree, Content
  <1>2. run[r].target \in Version /\ run[r].pc = "keep"
    BY DEF Keep, At, TypeInv, Sound
  <1>3. CASE End(r, "died") /\ Fault
    BY <1>3, SpentTypes, EndSteps DEF Keep, TypeInv, TypeOK, Outcomes
  <1>4. CASE Loop(r, k, "keep", "open") /\ UNCHANGED <<outcome, spent>>
    <2>1. run' = [run EXCEPT ![r] = m]
      BY <1>4, LoopIsLooped
    <2>2. /\ k \in RunState /\ k.target = run[r].target
          /\ k.new = run[r].new /\ k.original = [run[r].original EXCEPT ![f] = c]
      BY <1>1 DEF RunState, Tree
    <2>3. "keep" \in Steps /\ "open" \in Steps
      BY DEF Steps
    <2>4. c = Empty \/ (tree[f] # Empty /\ c.edit = tree[f].edit)
      OBVIOUS
    <2>5. UNCHANGED <<outcome, tree, head, notes, latest, spent>>
      BY <1>4 DEF Keep
    <2>6. run[r].original \in [File -> Content]
      BY <1>1 DEF RunState, Tree
    <2>. HIDE DEF k, f, c
    <2>7. m \in RunState /\ m.pc \in {"keep", "open"} /\ m.target = run[r].target
          /\ m.new = run[r].new /\ m.original = [run[r].original EXCEPT ![f] = c]
      BY <2>2, <2>3, LoopedTypes
    <2>. HIDE DEF m
    <2>8. \A g \in File : StemsFrom(m.new[g], run[r].new[g], g)
                          /\ StemsFrom(m.original[g], run[r].original[g], g)
      BY <2>4, <2>6, <2>7 DEF StemsFrom
    <2>9. StepTo(r, m)
      BY <1>2, <2>1, <2>5, <2>7, <2>8, SpentTypes
         DEF StepTo, Sound, Early, TypeInv, TypeOK
    <2>. QED
      BY <2>9
  <1>. QED
    BY <1>3, <1>4 DEF Keep

\* A loop goes on, memory unchanged.
LEMMA LoopSteps ==
  ASSUME TypeInv, NEW r \in Runner, run[r].pc \notin Early,
         NEW step \in Steps \ Early, NEW after \in Steps \ Early,
         Loop(r, run[r], step, after),
         \/ tree' = tree
         \/ \E f \in File : \E c \in {Empty, run[r].new[f], run[r].original[f]} :
               tree' = [tree EXCEPT ![f] = c],
         UNCHANGED <<outcome, spent, head, notes, latest>>
  PROVE  \E m : StepTo(r, m)
  <1>. DEFINE k == run[r]
              m == Looped(k, step, after)
  <1>1. run' = [run EXCEPT ![r] = m]
    BY LoopIsLooped
  <1>2. k \in RunState
    BY DEF TypeInv, TypeOK
  <1>. HIDE DEF k
  <1>3. m \in RunState /\ m.pc \in {step, after} /\ m.target = k.target
        /\ m.new = k.new /\ m.original = k.original
    BY <1>2, LoopedTypes
  <1>4. m.pc # "idle" /\ ~At(r, "idle")
    BY <1>3 DEF Early, At
  <1>. HIDE DEF m
  <1>5. StepTo(r, m)
    BY <1>1, <1>3, <1>4, GotoSteps DEF k, TypeInv, TypeOK
  <1>. QED
    BY <1>5

\* The process goes to a step, its loop starting anew.
LEMMA BeginSteps ==
  ASSUME TypeInv, NEW r \in Runner, run[r].pc \notin Early,
         NEW step \in Steps \ Early,
         \/ Begin(r, step) \/ Goto(r, step)
         \/ run' = [run EXCEPT ![r].pc = step, ![r].noted = TRUE]
         \/ run' = [run EXCEPT ![r].pc = step, ![r].at = 1, ![r].noted = TRUE]
         \/ run' = [run EXCEPT ![r].pc = step, ![r].rejected = TRUE],
         \/ tree' = tree
         \/ \E f \in File : \E c \in {Empty, run[r].new[f], run[r].original[f]} :
               tree' = [tree EXCEPT ![f] = c],
         spent' = spent \/ Fault, notes' \in Notes,
         UNCHANGED <<outcome, head, latest>>
  PROVE  \E m : StepTo(r, m)
  <1>1. run[r] \in RunState /\ 1 \in DOMAIN Order /\ run \in [Runner -> RunState]
    BY BumpAssumption DEF TypeInv, TypeOK
  <1>2. PICK m : /\ m \in {[run[r] EXCEPT !.pc = step, !.at = 1],
                           [run[r] EXCEPT !.pc = step],
                           [run[r] EXCEPT !.pc = step, !.noted = TRUE],
                           [run[r] EXCEPT !.pc = step, !.at = 1, !.noted = TRUE],
                           [run[r] EXCEPT !.pc = step, !.rejected = TRUE]}
                 /\ run' = [run EXCEPT ![r] = m]
    BY <1>1 DEF Begin, Goto
  <1>. DEFINE Goes(k) == /\ k \in RunState /\ k.pc = step
                         /\ k.target = run[r].target
                         /\ k.new = run[r].new /\ k.original = run[r].original
  <1>3. Goes(m)
    <2>1. Goes([run[r] EXCEPT !.pc = step, !.at = 1])
      BY <1>1 DEF RunState
    <2>2. Goes([run[r] EXCEPT !.pc = step])
      BY <1>1 DEF RunState
    <2>3. Goes([run[r] EXCEPT !.pc = step, !.noted = TRUE])
      BY <1>1 DEF RunState
    <2>4. Goes([run[r] EXCEPT !.pc = step, !.at = 1, !.noted = TRUE])
      BY <1>1 DEF RunState
    <2>5. Goes([run[r] EXCEPT !.pc = step, !.rejected = TRUE])
      BY <1>1 DEF RunState
    <2>. HIDE DEF Goes
    <2>. QED
      BY <1>2, <2>1, <2>2, <2>3, <2>4, <2>5
  <1>4. m.pc # "idle" /\ ~At(r, "idle")
    BY <1>3 DEF Early, At
  <1>5. StepTo(r, m)
    BY <1>2, <1>3, <1>4, GotoSteps
  <1>. QED
    BY <1>5

LEMMA WriteSteps ==
  ASSUME TypeInv, NEW r \in Runner, Open(r) \/ Write(r)
  PROVE  \E m : StepTo(r, m)
  <1>1. Here(r) \in File /\ run[r].pc \notin Early
    BY HereIsFile DEF TypeInv, Open, Write, At, Early
  <1>2. {"open", "write", "note", "undo_open"} \subseteq Steps \ Early
    BY DEF Steps, Early
  <1>3. UNCHANGED <<outcome, head, notes, latest>> /\ notes \in Notes
    BY DEF Open, Write, TypeInv, TypeOK
  <1>4. CASE Loop(r, run[r], "open", "note") /\ UNCHANGED spent
              /\ (tree' = tree \/ tree' = [tree EXCEPT ![Here(r)] = run[r].new[Here(r)]])
    BY <1>1, <1>2, <1>3, <1>4, LoopSteps
  <1>5. CASE /\ Goto(r, "write") /\ UNCHANGED spent
             /\ tree' = [tree EXCEPT ![Here(r)] = Empty]
    BY <1>1, <1>2, <1>3, <1>5, BeginSteps
  <1>6. CASE Begin(r, "undo_open") /\ Fault /\ UNCHANGED tree
    BY <1>1, <1>2, <1>3, <1>6, BeginSteps
  <1>. QED
    BY <1>4, <1>5, <1>6 DEF Open, Write

LEMMA NoteSteps ==
  ASSUME TypeInv, NEW r \in Runner, OpenNote(r) \/ WriteNote(r) \/ Check(r)
  PROVE  \E m : StepTo(r, m)
  <1>1. run[r].pc \notin Early
    BY DEF OpenNote, WriteNote, Check, At, Early
  <1>2. {"write_note", "check", "undo_open"} \subseteq Steps \ Early
    BY DEF Steps, Early
  <1>3. UNCHANGED <<tree, head, latest>> /\ notes' \in Notes
        /\ (spent' = spent \/ Fault)
    BY DEF OpenNote, WriteNote, Check, TypeInv, TypeOK, Notes
  <1>4. CASE /\ UNCHANGED outcome
             /\ \E step \in {"write_note", "check", "undo_open"} :
                   \/ Begin(r, step) \/ Goto(r, step)
                   \/ run' = [run EXCEPT ![r].pc = step, ![r].noted = TRUE]
                   \/ run' = [run EXCEPT ![r].pc = step, ![r].at = 1,
                                         ![r].noted = TRUE]
                   \/ run' = [run EXCEPT ![r].pc = step, ![r].rejected = TRUE]
    <2>1. PICK step \in Steps \ Early :
                   \/ Begin(r, step) \/ Goto(r, step)
                   \/ run' = [run EXCEPT ![r].pc = step, ![r].noted = TRUE]
                   \/ run' = [run EXCEPT ![r].pc = step, ![r].at = 1,
                                         ![r].noted = TRUE]
                   \/ run' = [run EXCEPT ![r].pc = step, ![r].rejected = TRUE]
      BY <1>2, <1>4
    <2>. QED
      BY <1>1, <1>3, <1>4, <2>1, BeginSteps
  <1>5. CASE \E how \in Outcomes : End(r, how)
    BY <1>3, <1>5, SpentTypes, EndSteps
  <1>6. CASE OpenNote(r)
    BY <1>4, <1>6 DEF OpenNote
  <1>7. CASE WriteNote(r)
    BY <1>4, <1>7 DEF WriteNote
  <1>8. CASE Check(r)
    BY <1>4, <1>5, <1>8 DEF Check, Outcomes
  <1>. QED
    BY <1>6, <1>7, <1>8

LEMMA UndoSteps ==
  ASSUME TypeInv, NEW r \in Runner, UndoOpen(r) \/ UndoWrite(r) \/ UndoNote(r) \/ Kill(r)
  PROVE  \E m : StepTo(r, m)
  <1>1. CASE \E how \in Outcomes : End(r, how) /\ UNCHANGED tree
    <2>1. UNCHANGED <<head, latest>> /\ notes' \in Notes
      BY DEF UndoOpen, UndoWrite, UndoNote, Kill, TypeInv, TypeOK, Notes
    <2>2. spent' \in [runs: Nat, faults: Nat, kills: Nat, edits: Edits]
      BY SpentTypes DEF UndoOpen, UndoWrite, UndoNote, Kill, TypeInv, TypeOK
    <2>. QED
      BY <1>1, <2>1, <2>2, EndSteps
  <1>2. CASE UndoOpen(r) \/ UndoWrite(r)
    <2>1. Here(r) \in File /\ run[r].pc \notin Early
      BY <1>2, HereIsFile DEF TypeInv, UndoOpen, UndoWrite, At, Early
    <2>2. {"undo_open", "undo_write", "undo_note"} \subseteq Steps \ Early
      BY DEF Steps, Early
    <2>3. UNCHANGED <<head, notes, latest>> /\ notes \in Notes
      BY <1>2 DEF UndoOpen, UndoWrite, TypeInv, TypeOK
    <2>4. CASE Loop(r, run[r], "undo_open", "undo_note") /\ UNCHANGED <<outcome, spent>>
                /\ (tree' = tree
                    \/ tree' = [tree EXCEPT ![Here(r)] = run[r].original[Here(r)]])
      BY <2>1, <2>2, <2>3, <2>4, LoopSteps
    <2>5. CASE /\ Goto(r, "undo_write") /\ UNCHANGED <<outcome, spent>>
               /\ tree' = [tree EXCEPT ![Here(r)] = Empty]
      BY <2>1, <2>2, <2>3, <2>5, BeginSteps
    <2>6. CASE End(r, "died") /\ UNCHANGED tree
      BY <1>1, <2>6 DEF Outcomes
    <2>. QED
      BY <1>2, <2>4, <2>5, <2>6 DEF UndoOpen, UndoWrite
  <1>. QED
    BY <1>1, <1>2 DEF UndoNote, Kill, Outcomes

-----------------------------------------------------------------------------
LEMMA InitTypes == Init => TypeInv
  <1>. SUFFICES ASSUME Init PROVE TypeInv
    OBVIOUS
  <1>1. run \in [Runner -> RunState] /\ \A r \in Runner : Sound(run[r])
    BY RestTypes DEF Init
  <1>2. tree \in Tree
    <2>1. PICK v \in [File -> InitVersions] :
             tree = [f \in File |->
               [versions |-> IF f = Changelog /\ v[f] > 1
                             THEN <<v[f], v[f] - 1>> ELSE <<v[f]>>,
                edit |-> 0]]
      BY DEF Init
    <2>2. \A f \in File : v[f] \in Version
      BY BumpAssumption DEF Version
    <2>3. \A f \in File : v[f] > 1 => v[f] - 1 \in Version
      BY <2>2, BumpAssumption DEF Version
    <2>4. 0 \in Edits
      BY BumpAssumption DEF Edits
    <2>5. \A f \in File : (IF f = Changelog /\ v[f] > 1
                           THEN <<v[f], v[f] - 1>> ELSE <<v[f]>>) \in Seq(Version)
      BY <2>2, <2>3
    <2>. QED
      BY <2>1, <2>4, <2>5 DEF Tree, Content
  <1>3. 0 \in Edits
    BY BumpAssumption DEF Edits
  <1>. QED
    <2>1. /\ outcome \in [Runner -> Outcomes] /\ head \in Tree
          /\ notes \in Notes /\ latest \in [File -> Edits]
      BY <1>2, <1>3 DEF Init, Notes, Outcomes
    <2>2. spent \in [runs: Nat, faults: Nat, kills: Nat, edits: Edits]
      BY <1>3 DEF Init
    <2>3. \A f \in File : head[f] # Empty
      BY DEF Init, Empty
    <2>. QED
      BY <1>1, <1>2, <2>1, <2>2, <2>3 DEF TypeInv, TypeOK

\* A step of the developer, while every process rests.
LEMMA DeveloperTypes ==
  ASSUME TypeInv,
         (\E f \in File, v \in InitVersions : Edit(f, v)) \/ Commit \/ Discard
  PROVE  TypeInv'
  <1>1. UNCHANGED <<run, outcome, notes>>
    BY DEF Edit, Commit, Discard
  <1>2. CASE Commit \/ Discard
    <2>1. /\ head' \in Tree /\ tree' \in Tree /\ \A f \in File : head'[f] # Empty
          /\ spent' = spent
      BY <1>2 DEF Commit, Discard, TypeInv, TypeOK
    <2>2. \A f \in File : head[f].edit \in Edits
      BY DEF TypeInv, TypeOK, Tree, Content
    <2>3. latest' \in [File -> Edits]
      BY <1>2, <2>2 DEF Commit, Discard, TypeInv, TypeOK
    <2>. QED
      BY <1>1, <2>1, <2>3 DEF TypeInv, TypeOK, Sound
  <1>3. CASE \E f \in File, v \in InitVersions : Edit(f, v)
    <2>1. PICK f \in File, v \in InitVersions : Edit(f, v)
      BY <1>3
    <2>2. spent.edits + 1 \in Edits
      BY <2>1, BumpAssumption DEF Edit, TypeInv, TypeOK, Edits
    <2>3. [versions |-> <<v>>, edit |-> spent.edits + 1] \in Content
      BY <2>2, BumpAssumption DEF Content, Version
    <2>4. tree' \in Tree
      BY <2>1, <2>3 DEF Edit, TypeInv, TypeOK, Tree
    <2>5. latest' \in [File -> Edits]
      BY <2>1, <2>2 DEF Edit, TypeInv, TypeOK
    <2>6. spent' \in [runs: Nat, faults: Nat, kills: Nat, edits: Edits]
      BY <2>1, <2>2 DEF Edit, TypeInv, TypeOK
    <2>7. head' = head
      BY <2>1 DEF Edit
    <2>. QED
      BY <1>1, <2>4, <2>5, <2>6, <2>7 DEF TypeInv, TypeOK, Sound
  <1>. QED
    BY <1>2, <1>3

\* What every step of a process keeps.
LEMMA StepToTypes ==
  ASSUME TypeInv, NEW r \in Runner, NEW m, StepTo(r, m)
  PROVE  TypeInv'
  <1>1. run' \in [Runner -> RunState] /\ \A q \in Runner : Sound(run'[q])
    BY DEF StepTo, TypeInv, TypeOK
  <1>2. tree' \in Tree
    <2>1. run[r].new \in Tree /\ run[r].original \in Tree
      BY DEF TypeInv, TypeOK, RunState
    <2>. QED
      BY <2>1 DEF StepTo, TypeInv, TypeOK, Tree, Content
  <1>. QED
    BY <1>1, <1>2 DEF StepTo, TypeInv, TypeOK

LEMMA RunnerSteps ==
  ASSUME TypeInv, NEW r \in Runner, RunnerStep(r)
  PROVE  \E m : StepTo(r, m)
  BY StartSteps, CheckSteps, ComputeSteps, KeepSteps, WriteSteps, NoteSteps, UndoSteps
     DEF RunnerStep

LEMMA TypeStep == TypeInv /\ [Next]_vars => TypeInv'
  <1>. SUFFICES ASSUME TypeInv, [Next]_vars PROVE TypeInv'
    OBVIOUS
  <1>1. CASE \E r \in Runner : RunnerStep(r)
    BY <1>1, RunnerSteps, StepToTypes
  <1>2. CASE (\E f \in File, v \in InitVersions : Edit(f, v)) \/ Commit \/ Discard
    BY <1>2, DeveloperTypes
  <1>3. CASE UNCHANGED vars
    BY <1>3 DEF vars, TypeInv, TypeOK, Sound
  <1>. QED
    BY <1>1, <1>2, <1>3 DEF Next

\* apply, its rollback and the loops they run: what a process has computed or
\* kept is always a content the file may have, and no loop leaves the files.
THEOREM BumpTypes == Spec => []TypeOK
  <1>1. Spec => []TypeInv
    BY InitTypes, TypeStep, PTL DEF Spec
  <1>. QED
    BY <1>1, PTL DEF TypeInv
-----------------------------------------------------------------------------
\* The last edit of each file is in the working tree, unless the file is empty:
\* then it is committed.  Past the git check everything is committed, and what a
\* process remembers of a file stems from its last edit.
InTree ==
    \A f \in File : latest[f] = IF tree[f] = Empty THEN head[f].edit
                                                   ELSE tree[f].edit

Committed == \A f \in File : latest[f] = head[f].edit

Remembered(x, f) == x = Empty \/ x.edit = latest[f]

EditInv ==
    /\ InTree
    /\ \A r \in Runner :
        /\ run[r].pc \notin Early => Committed
        /\ \A f \in File : /\ Remembered(run[r].new[f], f)
                           /\ Remembered(run[r].original[f], f)

LEMMA EditInit == Init /\ TypeInv => EditInv
  <1>. SUFFICES ASSUME Init, TypeInv PROVE EditInv
    OBVIOUS
  <1>1. \A f \in File : latest[f] = 0 /\ tree[f].edit = 0 /\ head = tree
    BY DEF Init
  <1>2. \A f \in File : tree[f] # Empty
    BY <1>1 DEF Empty
  <1>3. \A r \in Runner : run[r].pc = "idle" /\ run[r].new = Nothing
                          /\ run[r].original = Nothing
    BY DEF Init, Rest
  <1>. QED
    BY <1>1, <1>2, <1>3 DEF EditInv, InTree, Remembered, Early, Nothing

LEMMA EditRunner ==
  ASSUME FALSE \notin GitAnswers, TypeInv, EditInv,
         NEW r \in Runner, NEW m, StepTo(r, m)
  PROVE  EditInv'
  <1>1. UNCHANGED <<head, latest>> /\ run' = [run EXCEPT ![r] = m]
    BY DEF StepTo
  <1>2. run \in [Runner -> RunState]
    BY DEF TypeInv, TypeOK
  <1>3. InTree'
    <2>1. CASE tree' = tree
      BY <1>1, <2>1 DEF EditInv, InTree
    <2>2. CASE run[r].pc \notin Early /\
               \E f \in File : \E c \in {Empty, run[r].new[f], run[r].original[f]} :
                   tree' = [tree EXCEPT ![f] = c]
      <3>1. Committed
        BY <2>2 DEF EditInv
      <3>2. PICK f \in File : \E c \in {Empty, run[r].new[f], run[r].original[f]} :
                tree' = [tree EXCEPT ![f] = c]
        BY <2>2
      <3>3. PICK c \in {Empty, run[r].new[f], run[r].original[f]} :
                tree' = [tree EXCEPT ![f] = c]
        BY <3>2
      <3>4. c = Empty \/ c.edit = latest[f]
        BY <3>3 DEF EditInv, Remembered
      <3>5. \A g \in File : tree'[g] = IF g = f THEN c ELSE tree[g]
        BY <3>3 DEF TypeInv, TypeOK, Tree
      <3>. QED
        BY <1>1, <3>1, <3>4, <3>5 DEF EditInv, InTree, Committed
    <2>. QED
      BY <2>1, <2>2 DEF StepTo
  <1>4. m.pc \notin Early => Committed'
    <2>1. tree = head => Committed
      BY DEF EditInv, InTree, Committed
    <2>. QED
      BY <1>1, <2>1 DEF StepTo, EditInv, Committed
  <1>5. \A f \in File : Remembered(m.new[f], f)' /\ Remembered(m.original[f], f)'
    BY <1>1 DEF StepTo, StemsFrom, EditInv, Remembered, InTree
  <1>6. \A q \in Runner : run'[q] = IF q = r THEN m ELSE run[q]
    BY <1>1, <1>2
  <1>. QED
    BY <1>1, <1>3, <1>4, <1>5, <1>6 DEF EditInv, Committed, Remembered

LEMMA EditDeveloper ==
  ASSUME TypeInv, EditInv,
         (\E f \in File, v \in InitVersions : Edit(f, v)) \/ Commit \/ Discard
  PROVE  EditInv'
  <1>1. \A r \in Runner : run[r] = Rest /\ run'[r] = Rest
    BY DEF Edit, Commit, Discard, Quiet, At, TypeInv, Sound
  <1>2. Rest.pc = "idle" /\ Rest.new = Nothing /\ Rest.original = Nothing
    BY DEF Rest
  <1>3. \A f \in File : Nothing[f] = Empty
    BY DEF Nothing
  <1>4. InTree'
    <2>1. CASE Commit
      BY <2>1 DEF Commit, EditInv, InTree
    <2>2. CASE Discard
      BY <2>2 DEF Discard, InTree
    <2>3. CASE \E f \in File, v \in InitVersions : Edit(f, v)
      <3>1. PICK f \in File, v \in InitVersions : Edit(f, v)
        BY <2>3
      <3>. DEFINE e == spent.edits + 1
                  c == [versions |-> <<v>>, edit |-> e]
      <3>2. spent.edits \in 0..MaxEdits
        BY DEF TypeInv, TypeOK, Edits
      <3>3. c.edit = e /\ c # Empty
        BY <3>2, BumpAssumption DEF Empty
      <3>4. /\ tree' = [tree EXCEPT ![f] = c] /\ latest' = [latest EXCEPT ![f] = e]
            /\ head' = head
        BY <3>1 DEF Edit
      <3>. HIDE DEF c, e
      <3>. QED
        BY <3>3, <3>4 DEF EditInv, InTree, TypeInv, TypeOK, Tree
    <2>. QED
      BY <2>1, <2>2, <2>3
  <1>. QED
    BY <1>1, <1>2, <1>3, <1>4 DEF EditInv, Early, Remembered

LEMMA EditStep ==
  ASSUME FALSE \notin GitAnswers
  PROVE  TypeInv /\ EditInv /\ [Next]_vars => EditInv'
  <1>. SUFFICES ASSUME TypeInv, EditInv, [Next]_vars PROVE EditInv'
    OBVIOUS
  <1>1. CASE \E r \in Runner : RunnerStep(r)
    BY <1>1, RunnerSteps, EditRunner
  <1>2. CASE (\E f \in File, v \in InitVersions : Edit(f, v)) \/ Commit \/ Discard
    BY <1>2, EditDeveloper
  <1>3. CASE UNCHANGED vars
    BY <1>3 DEF vars, EditInv, InTree, Committed, Remembered
  <1>. QED
    BY <1>1, <1>2, <1>3 DEF Next

\* _check_git_safety and apply: where git answers, no failure, kill or overlap
\* of runs loses what the developer last wrote in a version-bearing file.
THEOREM BumpRecoverable ==
  ASSUME FALSE \notin GitAnswers
  PROVE  Spec => []Recoverable
  <1>1. Spec => [](TypeInv /\ EditInv)
    <2>1. Init => TypeInv /\ EditInv
      BY InitTypes, EditInit
    <2>2. TypeInv /\ EditInv /\ [Next]_vars => (TypeInv /\ EditInv)'
      BY TypeStep, EditStep
    <2>. QED
      BY <2>1, <2>2, PTL DEF Spec
  <1>2. EditInv => Recoverable
    BY DEF EditInv, InTree, Recoverable
  <1>. QED
    BY <1>1, <1>2, PTL
-----------------------------------------------------------------------------
\* One process at a time: what a run, with m in its memory, has made of the
\* working tree t and the release notes n, step by step.

\* A file that is not empty names a version.
Legible(t) == \A f \in File : t[f] = Empty \/ t[f].versions # <<>>

\* The files a loop has behind it.
Passed(m, f) == \E i \in DOMAIN Order : i < m.at /\ Order[i] = f

ToWrite(m) == {f \in File : m.new[f] # Empty}

\* The canonical version was confirmed, and the target is greater.
Confirmed(m) ==
    /\ m.target \in Version
    /\ m.before.tree \in Tree /\ m.before.notes \in Notes
    /\ m.before.tree[Canonical] # Empty
    /\ m.current = Head(m.before.tree[Canonical].versions)
    /\ m.pc # "consistency" => m.target > m.current

\* What is planned shows the target.
PlannedShow(m) ==
    \A f \in ToWrite(m) : m.new[f].versions # <<>> /\ Head(m.new[f].versions) = m.target

Preparing == {"consistency", "git", "compute", "keep"}

\* Until the first write nothing has changed, and what is kept is what is there.
NothingWritten(m, t, n) ==
    m.pc \in Preparing =>
        /\ t = m.before.tree /\ n = m.before.notes
        /\ ~m.noted
        /\ m.pc = "keep" =>
              \A f \in ToWrite(m) : Passed(m, f) => m.original[f] = t[f]

\* From then on the originals are kept, only planned files are touched, and
\* only the note of the target, if the run began it.
OthersUntouched(m, t, n) ==
    m.pc \notin Preparing =>
        /\ \A f \in ToWrite(m) : m.original[f] = m.before.tree[f]
        /\ \A f \in File \ ToWrite(m) : t[f] = m.before.tree[f]
        /\ \A v \in Version \ {m.target} : n[v] = m.before.notes[v]
        /\ IF m.noted THEN m.before.notes[m.target] = "absent"
                      ELSE n[m.target] = m.before.notes[m.target]

\* How far the writing has come.
Written(m, t) ==
    /\ m.pc \in {"open", "write"} =>
          \A f \in ToWrite(m) :
              Passed(m, f) => t[f] = m.new[f] \/ (m.pc = "write" /\ f = Order[m.at])
    /\ m.pc \in {"note", "write_note", "check"} =>
          m.at = 1 /\ \A f \in ToWrite(m) : t[f] = m.new[f]
    /\ m.pc \in {"write", "undo_write"} => Order[m.at] \in ToWrite(m)

NoteWritten(m, n) ==
    /\ m.pc \in {"open", "write", "note"} => ~m.noted
    /\ m.pc = "write_note" => m.noted
    /\ m.pc = "check" => n[m.target] = "whole" \/ m.before.notes[m.target] # "absent"

\* How far the rollback has come.
PutBack(m, t) ==
    /\ m.pc \in {"undo_open", "undo_write"} =>
          \A f \in ToWrite(m) :
              Passed(m, f) => \/ t[f] = m.before.tree[f]
                              \/ m.pc = "undo_write" /\ f = Order[m.at]
    /\ m.pc = "undo_note" => t = m.before.tree

Safe(m, t, n) ==
    m.pc # "idle" =>
        /\ Confirmed(m) /\ Legible(m.before.tree) /\ PlannedShow(m)
        /\ NothingWritten(m, t, n) /\ OthersUntouched(m, t, n)
        /\ Written(m, t) /\ NoteWritten(m, n) /\ PutBack(m, t)

SafeInv ==
    /\ Legible(tree) /\ Legible(head)
    /\ \A r \in Runner : Safe(run[r], tree, notes)

LEMMA FirstIsPastNothing ==
  ASSUME NEW m, m.at = 1
  PROVE  \A f : ~Passed(m, f)
  BY BumpAssumption DEF Passed

\* A loop has one file more behind it, and in the end all of them.
GoesOn(k, m, step) ==
    /\ k = [m EXCEPT !.pc = step, !.at = @ + 1]
    /\ \A f : Passed(k, f) => Passed(m, f) \/ f = Order[m.at]

ComesTo(k, m, step) ==
    /\ k = [m EXCEPT !.pc = step, !.at = 1]
    /\ \A f \in File : Passed(m, f) \/ f = Order[m.at]

LEMMA Looping ==
  ASSUME NEW m \in RunState, NEW step, NEW after
  PROVE  \/ GoesOn(Looped(m, step, after), m, step)
         \/ ComesTo(Looped(m, step, after), m, after)
  <1>1. DOMAIN Order = 1..Len(Order) /\ Len(Order) \in Nat /\ m.at \in 1..Len(Order)
    BY BumpAssumption DEF RunState
  <1>2. CASE m.at < Len(Order)
    <2>. DEFINE k == [m EXCEPT !.pc = step, !.at = @ + 1]
    <2>1. Looped(m, step, after) = k /\ k.at = m.at + 1
      BY <1>2 DEF Looped, RunState
    <2>2. \A i \in DOMAIN Order : i < m.at + 1 => i < m.at \/ i = m.at
      BY <1>1
    <2>. HIDE DEF k
    <2>3. \A f : Passed(k, f) => Passed(m, f) \/ f = Order[m.at]
      BY <2>1, <2>2 DEF Passed
    <2>. QED
      BY <2>1, <2>3 DEF k, GoesOn
  <1>3. CASE ~(m.at < Len(Order))
    <2>1. \A i \in DOMAIN Order : i < m.at \/ i = m.at
      BY <1>1, <1>3
    <2>2. \A f \in File : \E i \in DOMAIN Order : Order[i] = f
      BY DEF File, ToSet
    <2>3. \A f \in File : Passed(m, f) \/ f = Order[m.at]
      BY <2>1, <2>2 DEF Passed
    <2>. QED
      BY <1>3, <2>3 DEF Looped, ComesTo
  <1>. QED
    BY <1>2, <1>3

\* What a step leaves alone in a process's memory.
Same(k, m) ==
    /\ k.target = m.target /\ k.current = m.current /\ k.before = m.before
    /\ k.new = m.new

LEMMA Carried ==
  ASSUME NEW m, NEW k, Same(k, m), m.pc # "consistency",
         Confirmed(m), Legible(m.before.tree), PlannedShow(m)
  PROVE  /\ Confirmed(k) /\ Legible(k.before.tree) /\ PlannedShow(k)
         /\ ToWrite(k) = ToWrite(m)
  BY DEF Same, Confirmed, PlannedShow, ToWrite

\* A run that ends owes nothing more.
LEMMA EndSafe ==
  ASSUME TypeInv, SafeInv, NEW r \in Runner, NEW how, End(r, how), tree' = tree
  PROVE  Safe(run[r], tree, notes)' /\ Legible(tree)'
  BY DEF End, Rest, Safe, SafeInv, Legible, TypeInv, TypeOK

LEMMA StartSafe ==
  ASSUME TypeInv, SafeInv, NEW r \in Runner,
         NEW target \in Version, NEW confirm \in Version, Start(r, target, confirm)
  PROVE  Safe(run[r], tree, notes)' /\ Legible(tree)'
  <1>1. CASE Shown(Canonical) # 0 /\ confirm = Shown(Canonical)
    <2>. DEFINE k == run'[r]
    <2>1. /\ k = [Rest EXCEPT !.pc = "consistency", !.current = confirm,
                              !.target = target,
                              !.before = [tree |-> tree, notes |-> notes]]
          /\ tree' = tree /\ notes' = notes
      BY <1>1 DEF Start, TypeInv, TypeOK
    <2>2. /\ k.pc = "consistency" /\ k.current = confirm /\ k.target = target
          /\ k.before.tree = tree /\ k.before.notes = notes /\ ~k.noted
          /\ \A f \in File : k.new[f] = Empty
      BY <2>1 DEF Rest, Nothing
    <2>3. tree[Canonical] # Empty /\ confirm = Head(tree[Canonical].versions)
      BY <1>1 DEF Shown
    <2>. HIDE DEF k
    <2>4. ToWrite(k) = {}
      BY <2>2 DEF ToWrite
    <2>5. Legible(tree)
      BY DEF SafeInv
    <2>6. Confirmed(k) /\ Legible(k.before.tree) /\ PlannedShow(k)
      BY <2>2, <2>3, <2>4, <2>5 DEF Confirmed, PlannedShow, TypeInv, TypeOK
    <2>7. /\ NothingWritten(k, tree, notes) /\ OthersUntouched(k, tree, notes)
          /\ Written(k, tree) /\ NoteWritten(k, notes) /\ PutBack(k, tree)
      BY <2>2 DEF NothingWritten, OthersUntouched, Written, NoteWritten, PutBack, Preparing
    <2>8. Safe(k, tree, notes)
      BY <2>6, <2>7 DEF Safe
    <2>. QED
      BY <2>1, <2>5, <2>8 DEF k, Legible
  <1>2. CASE ~(Shown(Canonical) # 0 /\ confirm = Shown(Canonical))
    BY <1>2, EndSafe DEF Start
  <1>. QED
    BY <1>1, <1>2

LEMMA CheckConsistencySafe ==
  ASSUME TypeInv, SafeInv, NEW r \in Runner, CheckConsistency(r)
  PROVE  Safe(run[r], tree, notes)' /\ Legible(tree)'
  <1>. DEFINE m == run[r]
              k == run'[r]
  <1>1. m \in RunState /\ Safe(m, tree, notes) /\ Legible(tree) /\ m.pc = "consistency"
        /\ tree' = tree /\ notes' = notes
    BY DEF CheckConsistency, At, TypeInv, TypeOK, SafeInv
  <1>2. CASE Shown(Canonical) = 0 \/ m.target <= m.current
    BY <1>2, <1>1, EndSafe DEF CheckConsistency
  <1>3. CASE ~(Shown(Canonical) = 0 \/ m.target <= m.current)
    <2>1. k = [m EXCEPT !.pc = "git", !.errors = ~Consistent]
      BY <1>3 DEF CheckConsistency, TypeInv, TypeOK
    <2>2. Same(k, m) /\ k.pc = "git" /\ k.noted = m.noted
      BY <1>1, <2>1 DEF Same, RunState
    <2>3. m.target > m.current
      BY <1>1, <1>3, BumpAssumption DEF RunState
    <2>. HIDE DEF k, m
    <2>4. /\ Confirmed(m) /\ Legible(m.before.tree) /\ PlannedShow(m)
          /\ tree = m.before.tree /\ notes = m.before.notes /\ ~m.noted
      BY <1>1 DEF Safe, NothingWritten, Preparing
    <2>5. Confirmed(k) /\ Legible(k.before.tree) /\ PlannedShow(k)
      BY <2>2, <2>3, <2>4 DEF Same, Confirmed, PlannedShow, ToWrite
    <2>6. NothingWritten(k, tree, notes)
      BY <2>2, <2>4 DEF Same, NothingWritten, Preparing
    <2>7. /\ OthersUntouched(k, tree, notes)
          /\ Written(k, tree) /\ NoteWritten(k, notes) /\ PutBack(k, tree)
      BY <2>2 DEF OthersUntouched, Written, NoteWritten, PutBack, Preparing
    <2>8. Safe(k, tree, notes)
      BY <2>5, <2>6, <2>7 DEF Safe
    <2>. QED
      BY <1>1, <2>8 DEF k, Legible
  <1>. QED
    BY <1>2, <1>3

LEMMA CheckGitSafe ==
  ASSUME TypeInv, SafeInv, NEW r \in Runner, NEW works, CheckGit(r, works)
  PROVE  Safe(run[r], tree, notes)' /\ Legible(tree)'
  <1>. DEFINE m == run[r]
              k == run'[r]
  <1>1. m \in RunState /\ Safe(m, tree, notes) /\ Legible(tree) /\ m.pc = "git"
        /\ tree' = tree /\ notes' = notes
    BY DEF CheckGit, At, TypeInv, TypeOK, SafeInv
  <1>2. CASE works /\ tree # head
    BY <1>2, <1>1, EndSafe DEF CheckGit
  <1>3. CASE ~(works /\ tree # head)
    <2>1. k = [m EXCEPT !.pc = "compute", !.at = 1]
      BY <1>3 DEF CheckGit, Begin, TypeInv, TypeOK
    <2>2. Same(k, m) /\ k.pc = "compute" /\ k.noted = m.noted
      BY <1>1, <2>1 DEF Same, RunState
    <2>. HIDE DEF k, m
    <2>3. /\ Confirmed(m) /\ Legible(m.before.tree) /\ PlannedShow(m)
          /\ tree = m.before.tree /\ notes = m.before.notes /\ ~m.noted
      BY <1>1 DEF Safe, NothingWritten, Preparing
    <2>4. Confirmed(k) /\ Legible(k.before.tree) /\ PlannedShow(k)
      BY <1>1, <2>2, <2>3, Carried
    <2>5. NothingWritten(k, tree, notes)
      BY <2>2, <2>3 DEF Same, NothingWritten, Preparing
    <2>6. /\ OthersUntouched(k, tree, notes)
          /\ Written(k, tree) /\ NoteWritten(k, notes) /\ PutBack(k, tree)
      BY <2>2 DEF OthersUntouched, Written, NoteWritten, PutBack, Preparing
    <2>7. Safe(k, tree, notes)
      BY <2>4, <2>5, <2>6 DEF Safe
    <2>. QED
      BY <1>1, <2>7 DEF k, Legible
  <1>. QED
    BY <1>2, <1>3

\* A rewritten content shows the target first.
LEMMA RewrittenShows ==
  ASSUME NEW f, NEW c \in Content, c # Empty, c.versions # <<>>, NEW target \in Version
  PROVE  LET w == Rewritten(f, c, target).versions IN w # <<>> /\ Head(w) = target
  <1>1. c \in [versions: Seq(Version), edit: Edits]
    BY DEF Content
  <1>. DEFINE s == c.versions
              w == [i \in DOMAIN s |-> IF f = Changelog /\ i > 1 THEN s[i] ELSE target]
  <1>2. Rewritten(f, c, target).versions = w
    BY <1>1 DEF Rewritten
  <1>3. s \in Seq(Version) /\ s # <<>>
    BY <1>1
  <1>4. PICK l \in Nat : s \in [1..l -> Version] /\ l # 0
    BY <1>3
  <1>5. w \in [1..l -> Version] /\ w[1] = target
    BY <1>4
  <1>6. w \in Seq(Version) /\ Len(w) = l
    BY <1>5
  <1>7. w # <<>> /\ Head(w) = target
    BY <1>4, <1>5, <1>6
  <1>. QED
    BY <1>2, <1>7

LEMMA ComputeSafe ==
  ASSUME TypeInv, SafeInv, NEW r \in Runner, Compute(r)
  PROVE  Safe(run[r], tree, notes)' /\ Legible(tree)'
  <1>. DEFINE m == run[r]
              k == run'[r]
              f == Here(r)
  <1>1. m \in RunState /\ Safe(m, tree, notes) /\ Legible(tree) /\ m.pc = "compute"
        /\ tree' = tree /\ notes' = notes /\ f \in File /\ tree[f] \in Content
    BY HereIsFile DEF Compute, At, TypeInv, TypeOK, SafeInv, Tree
  <1>2. /\ Confirmed(m) /\ Legible(m.before.tree) /\ PlannedShow(m)
        /\ tree = m.before.tree /\ notes = m.before.notes /\ ~m.noted
    BY <1>1 DEF Safe, NothingWritten, Preparing
  <1>3. PICK c : /\ c = Empty \/ (c.versions # <<>> /\ Head(c.versions) = m.target)
                 /\ Loop(r, [m EXCEPT !.new[f] = c], "compute", "keep")
    <2>1. CASE f \in Reached /\ tree[f] # Empty
                /\ Loop(r, [m EXCEPT !.new[f] = Rewritten(f, tree[f], m.target)],
                        "compute", "keep")
      <3>1. tree[f].versions # <<>> /\ m.target \in Version
        BY <1>1, <1>2, <2>1 DEF Legible, Confirmed
      <3>. QED
        BY <1>1, <2>1, <3>1, RewrittenShows
    <2>2. CASE Loop(r, [m EXCEPT !.new[f] = Empty], "compute", "keep")
      BY <2>2
    <2>. QED
      BY <2>1, <2>2 DEF Compute
  <1>4. /\ k = Looped([m EXCEPT !.new[f] = c], "compute", "keep")
        /\ m.new \in [File -> Content]
    BY <1>1, <1>3, LoopIsLooped DEF TypeInv, TypeOK, RunState, Tree
  <1>5. /\ k.target = m.target /\ k.current = m.current /\ k.before = m.before
        /\ k.noted = m.noted
        /\ \A g \in File : k.new[g] = IF g = f THEN c ELSE m.new[g]
        /\ k.pc = "compute" \/ (k.pc = "keep" /\ k.at = 1)
    BY <1>1, <1>4 DEF Looped, RunState
  <1>. HIDE DEF k, m, f
  <1>6. Confirmed(k) /\ Legible(k.before.tree)
    BY <1>1, <1>2, <1>5 DEF Confirmed
  <1>7. PlannedShow(k)
    BY <1>2, <1>3, <1>5 DEF PlannedShow, ToWrite
  <1>8. NothingWritten(k, tree, notes)
    BY <1>2, <1>5, FirstIsPastNothing DEF NothingWritten, Preparing
  <1>9. /\ OthersUntouched(k, tree, notes)
        /\ Written(k, tree) /\ NoteWritten(k, notes) /\ PutBack(k, tree)
    BY <1>5 DEF OthersUntouched, Written, NoteWritten, PutBack, Preparing
  <1>10. Safe(k, tree, notes)
    BY <1>6, <1>7, <1>8, <1>9 DEF Safe
  <1>. QED
    BY <1>1, <1>10 DEF k, Legible

LEMMA KeepSafe ==
  ASSUME TypeInv, SafeInv, NEW r \in Runner, Keep(r)
  PROVE  Safe(run[r], tree, notes)' /\ Legible(tree)'
  <1>. DEFINE m == run[r]
              k == run'[r]
              f == Here(r)
              c == IF Planned(r) THEN tree[f] ELSE Empty
              l == [m EXCEPT !.original[f] = c]
  <1>1. m \in RunState /\ Safe(m, tree, notes) /\ Legible(tree) /\ m.pc = "keep"
        /\ tree' = tree /\ notes' = notes /\ f \in File /\ f = Order[m.at]
        /\ c \in Content
    BY HereIsFile DEF Keep, At, TypeInv, TypeOK, SafeInv, Tree, Here, Content
  <1>2. /\ Confirmed(m) /\ Legible(m.before.tree) /\ PlannedShow(m)
        /\ tree = m.before.tree /\ notes = m.before.notes /\ ~m.noted
        /\ \A g \in ToWrite(m) : Passed(m, g) => m.original[g] = tree[g]
    BY <1>1 DEF Safe, NothingWritten, Preparing
  <1>3. CASE End(r, "died")
    BY <1>1, <1>3, EndSafe
  <1>4. CASE Loop(r, l, "keep", "open")
    <2>1. l \in RunState /\ k = Looped(l, "keep", "open")
      <3>1. l \in RunState
        BY <1>1 DEF RunState, Tree
      <3>2. run' = [run EXCEPT ![r] = Looped(l, "keep", "open")]
        BY <1>4, LoopIsLooped
      <3>. QED
        BY <3>1, <3>2 DEF TypeInv, TypeOK
    <2>2. /\ Same(l, m) /\ l.noted = m.noted /\ l.at = m.at
          /\ \A g \in File : l.original[g] = IF g = f THEN c ELSE m.original[g]
          /\ f \in ToWrite(m) => c = tree[f]
      BY <1>1 DEF Same, RunState, Tree, Planned, ToWrite
    <2>3. \A g : Passed(l, g) <=> Passed(m, g)
      BY <2>2 DEF Passed
    <2>. HIDE DEF m, f, c, l
    <2>4. \A g \in ToWrite(m) : Passed(l, g) \/ g = f => l.original[g] = tree[g]
      BY <1>2, <2>2, <2>3 DEF ToWrite
    <2>5. GoesOn(k, l, "keep") \/ ComesTo(k, l, "open")
      BY <2>1, Looping
    <2>. DEFINE Like(x) == Same(x, m) /\ x.noted = m.noted /\ x.original = l.original
    <2>6. CASE GoesOn(k, l, "keep")
      <3>1. Like(k) /\ k.pc = "keep"
        BY <2>1, <2>2, <2>6 DEF GoesOn, Same, RunState
      <3>. HIDE DEF k
      <3>2. Confirmed(k) /\ Legible(k.before.tree) /\ PlannedShow(k)
            /\ ToWrite(k) = ToWrite(m)
        BY <1>1, <1>2, <3>1, Carried
      <3>3. NothingWritten(k, tree, notes)
        BY <1>1, <1>2, <2>2, <2>4, <2>6, <3>1, <3>2 DEF GoesOn, NothingWritten, Same, Preparing
      <3>4. /\ OthersUntouched(k, tree, notes)
            /\ Written(k, tree) /\ NoteWritten(k, notes) /\ PutBack(k, tree)
        BY <3>1 DEF OthersUntouched, Written, NoteWritten, PutBack, Preparing
      <3>5. Safe(k, tree, notes)
        BY <3>2, <3>3, <3>4 DEF Safe
      <3>. QED
        BY <1>1, <3>5 DEF k, Legible
    <2>7. CASE ComesTo(k, l, "open")
      <3>1. Like(k) /\ k.pc = "open" /\ k.at = 1
        BY <2>1, <2>2, <2>7 DEF ComesTo, Same, RunState
      <3>. HIDE DEF k
      <3>2. Confirmed(k) /\ Legible(k.before.tree) /\ PlannedShow(k)
            /\ ToWrite(k) = ToWrite(m)
        BY <1>1, <1>2, <3>1, Carried
      <3>3. OthersUntouched(k, tree, notes)
        BY <1>1, <1>2, <2>2, <2>4, <2>7, <3>1, <3>2
           DEF ComesTo, OthersUntouched, Same, ToWrite, Preparing
      <3>4. Written(k, tree)
        BY <3>1, FirstIsPastNothing DEF Written
      <3>5. NothingWritten(k, tree, notes) /\ NoteWritten(k, notes) /\ PutBack(k, tree)
        BY <1>2, <3>1 DEF NothingWritten, NoteWritten, PutBack, Preparing
      <3>6. Safe(k, tree, notes)
        BY <3>2, <3>3, <3>4, <3>5 DEF Safe
      <3>. QED
        BY <1>1, <3>6 DEF k, Legible
    <2>. QED
      BY <2>5, <2>6, <2>7
  <1>. QED
    BY <1>3, <1>4 DEF Keep

\* From the first write on, a step shows how far it comes; the rest is carried.
Writing(m) == m.pc \notin Preparing \cup {"idle"}

LEMMA LateCarried ==
  ASSUME NEW m, NEW k, NEW t, NEW u, NEW n, Safe(m, t, n), Writing(m), Writing(k),
         Same(k, m), k.original = m.original, k.noted = m.noted,
         \A f \in File \ ToWrite(m) : u[f] = t[f],
         Written(k, u), NoteWritten(k, n), PutBack(k, u)
  PROVE  Safe(k, u, n)
  <1>1. Confirmed(m) /\ Legible(m.before.tree) /\ PlannedShow(m)
    BY DEF Safe, Writing
  <1>2. Confirmed(k) /\ Legible(k.before.tree) /\ PlannedShow(k)
        /\ ToWrite(k) = ToWrite(m)
    BY <1>1, Carried DEF Writing, Preparing
  <1>3. NothingWritten(k, u, n)
    BY DEF NothingWritten, Writing
  <1>4. OthersUntouched(k, u, n)
    BY <1>2 DEF Safe, OthersUntouched, Writing, Same
  <1>. QED
    BY <1>2, <1>3, <1>4 DEF Safe

\* What a running process has in memory after a loop, and when a loop begins.
LEMMA LoopLate ==
  ASSUME TypeInv, NEW r \in Runner, NEW step, NEW after,
         Loop(r, run[r], step, after)
  PROVE  /\ Same(run[r]', run[r]) /\ run[r].original' = run[r].original
         /\ run[r].noted' = run[r].noted
         /\ \/ /\ run[r].pc' = step
               /\ \A f : Passed(run[r], f)' => Passed(run[r], f) \/ f = Here(r)
            \/ /\ run[r].pc' = after /\ run[r].at' = 1
               /\ \A f \in File : Passed(run[r], f) \/ f = Here(r)
  <1>. DEFINE m == run[r]
              k == run'[r]
  <1>1. m \in RunState /\ k = Looped(m, step, after)
    BY LoopIsLooped DEF TypeInv, TypeOK
  <1>2. GoesOn(k, m, step) \/ ComesTo(k, m, after)
    BY <1>1, Looping
  <1>3. /\ Same(k, m) /\ k.original = m.original /\ k.noted = m.noted
        /\ k.pc = step \/ (k.pc = after /\ k.at = 1)
    BY <1>1 DEF Looped, Same, RunState
  <1>4. CASE GoesOn(k, m, step)
    <2>1. k.pc = step /\ \A f : Passed(k, f) => Passed(m, f) \/ f = Order[m.at]
      BY <1>1, <1>4 DEF GoesOn, RunState
    <2>. QED
      BY <1>3, <2>1 DEF Here, Passed
  <1>5. CASE ComesTo(k, m, after)
    <2>1. k.pc = after /\ k.at = 1 /\ \A f \in File : Passed(m, f) \/ f = Order[m.at]
      BY <1>1, <1>5 DEF ComesTo, RunState
    <2>. QED
      BY <1>3, <2>1 DEF Here
  <1>. QED
    BY <1>2, <1>4, <1>5

LEMMA BeginLate ==
  ASSUME TypeInv, NEW r \in Runner, NEW step, Begin(r, step)
  PROVE  /\ Same(run[r]', run[r]) /\ run[r].original' = run[r].original
         /\ run[r].noted' = run[r].noted
         /\ run[r].pc' = step /\ run[r].at' = 1
  <1>1. run[r] \in RunState /\ run'[r] = [run[r] EXCEPT !.pc = step, !.at = 1]
    BY DEF Begin, TypeInv, TypeOK
  <1>. QED
    BY <1>1 DEF Same, RunState

LEMMA GotoLate ==
  ASSUME TypeInv, NEW r \in Runner, NEW step, Goto(r, step)
  PROVE  /\ Same(run[r]', run[r]) /\ run[r].original' = run[r].original
         /\ run[r].noted' = run[r].noted
         /\ run[r].pc' = step /\ run[r].at' = run[r].at
  <1>1. run[r] \in RunState /\ run'[r] = [run[r] EXCEPT !.pc = step]
    BY DEF Goto, TypeInv, TypeOK
  <1>. QED
    BY <1>1 DEF Same, RunState

\* A failure while files or notes are written: the rollback begins.
LEMMA UndoBegins ==
  ASSUME TypeInv, SafeInv, NEW r \in Runner, Writing(run[r]), Begin(r, "undo_open"),
         tree' = tree, notes' = notes
  PROVE  Safe(run[r], tree, notes)' /\ Legible(tree)'
  <1>. DEFINE m == run[r]
              k == run'[r]
  <1>1. /\ Same(k, m) /\ k.original = m.original /\ k.noted = m.noted
        /\ k.pc = "undo_open" /\ k.at = 1
    BY BeginLate
  <1>2. Safe(m, tree, notes) /\ Legible(tree)
    BY DEF SafeInv
  <1>. HIDE DEF m, k
  <1>3. Written(k, tree) /\ NoteWritten(k, notes) /\ PutBack(k, tree) /\ Writing(k)
    BY <1>1, FirstIsPastNothing DEF Written, NoteWritten, PutBack, Writing, Preparing
  <1>4. Safe(k, tree, notes)
    BY <1>1, <1>2, <1>3, LateCarried DEF m
  <1>. QED
    BY <1>2, <1>4 DEF k, Legible

\* What is known of a process while it writes, or puts back, the next file.
LEMMA AtFile ==
  ASSUME TypeInv, SafeInv, NEW r \in Runner, Writing(run[r])
  PROVE  /\ Safe(run[r], tree, notes) /\ Legible(tree)
         /\ tree \in [File -> Content] /\ Here(r) \in File
         /\ Planned(r) <=> Here(r) \in ToWrite(run[r])
         /\ PlannedShow(run[r]) /\ OthersUntouched(run[r], tree, notes)
         /\ Written(run[r], tree) /\ NoteWritten(run[r], notes)
         /\ PutBack(run[r], tree) /\ Confirmed(run[r]) /\ Legible(run[r].before.tree)
  BY HereIsFile
     DEF TypeInv, TypeOK, SafeInv, Safe, Writing, Planned, ToWrite, Tree

LEMMA OpenSafe ==
  ASSUME TypeInv, SafeInv, NEW r \in Runner, Open(r)
  PROVE  Safe(run[r], tree, notes)' /\ Legible(tree)'
  <1>. DEFINE m == run[r]
              k == run'[r]
              h == Here(r)
  <1>1. m.pc = "open" /\ Writing(m) /\ notes' = notes
    BY DEF Open, At, Writing, Preparing
  <1>2. /\ Safe(m, tree, notes) /\ Legible(tree)
        /\ tree \in [File -> Content] /\ h \in File /\ h = Order[m.at]
        /\ ~m.noted
        /\ \A f \in ToWrite(m) : Passed(m, f) => tree[f] = m.new[f]
    BY <1>1, AtFile DEF Written, NoteWritten, Here
  <1>3. CASE Planned(r) /\ tree' = [tree EXCEPT ![h] = Empty] /\ Goto(r, "write")
    <2>1. /\ Same(k, m) /\ k.original = m.original /\ k.noted = m.noted
          /\ k.pc = "write" /\ k.at = m.at
      BY <1>3, GotoLate
    <2>2. h \in ToWrite(m)
      BY <1>1, <1>3, AtFile
    <2>3. \A f \in File : tree'[f] = IF f = h THEN Empty ELSE tree[f]
      BY <1>2, <1>3
    <2>. HIDE DEF m, k, h
    <2>4. ToWrite(k) = ToWrite(m) /\ \A f : Passed(k, f) <=> Passed(m, f)
      BY <2>1 DEF Same, ToWrite, Passed
    <2>5. Written(k, tree')
      BY <1>2, <2>1, <2>2, <2>3, <2>4 DEF Written, Same, ToWrite
    <2>6. NoteWritten(k, notes) /\ PutBack(k, tree') /\ Writing(k)
      BY <1>2, <2>1 DEF NoteWritten, PutBack, Writing, Preparing
    <2>7. Safe(k, tree', notes)
      BY <1>1, <1>2, <2>1, <2>2, <2>3, <2>5, <2>6, LateCarried
    <2>. QED
      BY <1>1, <1>2, <2>3, <2>7 DEF k, Legible
  <1>4. CASE ~Planned(r) /\ Loop(r, m, "open", "note") /\ tree' = tree
    <2>1. /\ Same(k, m) /\ k.original = m.original /\ k.noted = m.noted
          /\ \/ k.pc = "open" /\ \A f : Passed(k, f) => Passed(m, f) \/ f = h
             \/ k.pc = "note" /\ k.at = 1 /\ \A f \in File : Passed(m, f) \/ f = h
      BY <1>4, LoopLate DEF Passed
    <2>2. h \notin ToWrite(m)
      BY <1>1, <1>4, AtFile
    <2>. HIDE DEF m, k, h
    <2>3. ToWrite(k) = ToWrite(m)
      BY <2>1 DEF Same, ToWrite
    <2>4. Written(k, tree)
      BY <1>2, <2>1, <2>2, <2>3 DEF Written, Same, ToWrite
    <2>5. NoteWritten(k, notes) /\ PutBack(k, tree) /\ Writing(k)
      BY <1>2, <2>1 DEF NoteWritten, PutBack, Writing, Preparing
    <2>6. Safe(k, tree, notes)
      BY <1>1, <1>2, <2>1, <2>4, <2>5, LateCarried
    <2>. QED
      BY <1>1, <1>2, <1>4, <2>6 DEF k, Legible
  <1>5. CASE Begin(r, "undo_open") /\ tree' = tree
    BY <1>1, <1>5, UndoBegins
  <1>. QED
    BY <1>3, <1>4, <1>5 DEF Open

LEMMA WriteSafe ==
  ASSUME TypeInv, SafeInv, NEW r \in Runner, Write(r)
  PROVE  Safe(run[r], tree, notes)' /\ Legible(tree)'
  <1>. DEFINE m == run[r]
              k == run'[r]
              h == Here(r)
  <1>1. m.pc = "write" /\ Writing(m) /\ notes' = notes
    BY DEF Write, At, Writing, Preparing
  <1>2. /\ Safe(m, tree, notes) /\ Legible(tree)
        /\ tree \in [File -> Content] /\ h \in ToWrite(m) /\ h = Order[m.at]
        /\ ~m.noted /\ m.new[h].versions # <<>>
        /\ \A f \in ToWrite(m) : Passed(m, f) => tree[f] = m.new[f] \/ f = h
    BY <1>1, AtFile DEF Written, NoteWritten, Here, PlannedShow
  <1>3. CASE tree' = [tree EXCEPT ![h] = m.new[h]] /\ Loop(r, m, "open", "note")
    <2>1. /\ Same(k, m) /\ k.original = m.original /\ k.noted = m.noted
          /\ \/ k.pc = "open" /\ \A f : Passed(k, f) => Passed(m, f) \/ f = h
             \/ k.pc = "note" /\ k.at = 1 /\ \A f \in File : Passed(m, f) \/ f = h
      BY <1>3, LoopLate DEF Passed
    <2>2. \A f \in File : tree'[f] = IF f = h THEN m.new[h] ELSE tree[f]
      BY <1>2, <1>3
    <2>. HIDE DEF m, k, h
    <2>3. ToWrite(k) = ToWrite(m)
      BY <2>1 DEF Same, ToWrite
    <2>4. Written(k, tree')
      BY <1>2, <2>1, <2>2, <2>3 DEF Written, Same, ToWrite
    <2>5. NoteWritten(k, notes) /\ PutBack(k, tree') /\ Writing(k)
      BY <1>2, <2>1 DEF NoteWritten, PutBack, Writing, Preparing
    <2>6. Safe(k, tree', notes)
      BY <1>1, <1>2, <2>1, <2>2, <2>4, <2>5, LateCarried
    <2>. QED
      BY <1>1, <1>2, <2>2, <2>6 DEF k, Legible
  <1>4. CASE Begin(r, "undo_open") /\ tree' = tree
    BY <1>1, <1>4, UndoBegins
  <1>. QED
    BY <1>3, <1>4 DEF Write

LEMMA NoteSafe ==
  ASSUME TypeInv, SafeInv, NEW r \in Runner, OpenNote(r) \/ WriteNote(r)
  PROVE  Safe(run[r], tree, notes)' /\ Legible(tree)'
  <1>. DEFINE m == run[r]
              k == run'[r]
  <1>1. m.pc \in {"note", "write_note"} /\ Writing(m) /\ tree' = tree
    BY DEF OpenNote, WriteNote, At, Writing, Preparing
  <1>2. /\ Safe(m, tree, notes) /\ Legible(tree) /\ Confirmed(m) /\ PlannedShow(m)
        /\ Legible(m.before.tree) /\ OthersUntouched(m, tree, notes)
        /\ Written(m, tree) /\ NoteWritten(m, notes)
        /\ m \in RunState /\ notes \in Notes
    BY <1>1, AtFile DEF TypeInv, TypeOK
  <1>3. CASE Begin(r, "undo_open") /\ notes' = notes
    BY <1>1, <1>3, UndoBegins
  <1>4. CASE ~(Begin(r, "undo_open") /\ notes' = notes)
    <2>1. /\ Same(k, m) /\ k.original = m.original
          /\ \/ /\ m.pc = "note" /\ notes[m.target] # "absent" /\ notes' = notes
                /\ k.pc = "check" /\ k.at = m.at /\ k.noted = m.noted
             \/ /\ m.pc = "note" /\ notes[m.target] = "absent"
                /\ notes' = [notes EXCEPT ![m.target] = "torn"]
                /\ k.pc = "write_note" /\ k.at = m.at /\ k.noted
             \/ /\ m.pc = "note" /\ notes[m.target] = "absent" /\ notes' = notes
                /\ k.pc = "undo_open" /\ k.at = 1 /\ k.noted
             \/ /\ m.pc = "write_note"
                /\ notes' = [notes EXCEPT ![m.target] = "whole"]
                /\ k.pc = "check" /\ k.at = m.at /\ k.noted = m.noted
      <3>1. CASE OpenNote(r)
        BY <1>1, <1>2, <3>1, GotoLate
           DEF OpenNote, At, Same, RunState, TypeInv, TypeOK
      <3>2. CASE WriteNote(r)
        BY <1>1, <1>2, <1>4, <3>2, GotoLate DEF WriteNote, At
      <3>. QED
        BY <3>1, <3>2
    <2>. HIDE DEF m, k
    <2>2. Confirmed(k) /\ Legible(k.before.tree) /\ PlannedShow(k)
          /\ ToWrite(k) = ToWrite(m)
      BY <1>1, <1>2, <2>1, Carried
    <2>3. \A v \in Version : v # m.target => notes'[v] = notes[v]
      BY <1>2, <2>1 DEF Notes
    <2>4. OthersUntouched(k, tree, notes')
      BY <1>1, <1>2, <2>1, <2>2, <2>3
         DEF OthersUntouched, Same, Preparing, NoteWritten
    <2>5. Written(k, tree)
      BY <1>1, <1>2, <2>1, <2>2 DEF Written, Same
    <2>6. notes'[m.target] = "whole" \/ m.pc = "note"
      BY <1>1, <1>2, <2>1 DEF Notes, Confirmed
    <2>7. NoteWritten(k, notes')
      BY <1>1, <1>2, <2>1, <2>6
         DEF NoteWritten, Same, OthersUntouched, Preparing
    <2>8. PutBack(k, tree) /\ NothingWritten(k, tree, notes')
      BY <2>1, FirstIsPastNothing DEF PutBack, NothingWritten, Preparing
    <2>9. Safe(k, tree, notes')
      BY <2>2, <2>4, <2>5, <2>7, <2>8 DEF Safe
    <2>. QED
      BY <1>1, <1>2, <2>9 DEF k, Legible
  <1>. QED
    BY <1>3, <1>4

LEMMA CheckSafe ==
  ASSUME TypeInv, SafeInv, NEW r \in Runner, Check(r)
  PROVE  Safe(run[r], tree, notes)' /\ Legible(tree)'
  <1>. DEFINE m == run[r]
              k == run'[r]
  <1>1. m.pc = "check" /\ Writing(m) /\ tree' = tree /\ notes' = notes
    BY DEF Check, At, Writing, Preparing
  <1>2. CASE \E how : End(r, how)
    BY <1>1, <1>2, EndSafe
  <1>3. CASE run' = [run EXCEPT ![r].pc = "undo_open", ![r].rejected = TRUE]
    <2>1. m \in RunState /\ k = [m EXCEPT !.pc = "undo_open", !.rejected = TRUE]
      BY <1>3 DEF TypeInv, TypeOK
    <2>2. /\ Same(k, m) /\ k.original = m.original /\ k.noted = m.noted
          /\ k.pc = "undo_open" /\ k.at = m.at
      BY <2>1 DEF Same, RunState
    <2>3. Safe(m, tree, notes) /\ Legible(tree) /\ m.at = 1
      BY <1>1, AtFile DEF Written
    <2>. HIDE DEF m, k
    <2>4. Written(k, tree) /\ NoteWritten(k, notes) /\ PutBack(k, tree) /\ Writing(k)
      BY <2>2, <2>3, FirstIsPastNothing
         DEF Written, NoteWritten, PutBack, Writing, Preparing
    <2>5. Safe(k, tree, notes)
      BY <1>1, <2>2, <2>3, <2>4, LateCarried
    <2>. QED
      BY <1>1, <2>3, <2>5 DEF k, Legible
  <1>. QED
    BY <1>2, <1>3 DEF Check

\* The rollback goes on to the next file, h put back or not to be.
LEMMA PutBackLoop ==
  ASSUME TypeInv, SafeInv, NEW r \in Runner, Writing(run[r]), notes' = notes,
         run[r].pc \in {"undo_open", "undo_write"},
         Loop(r, run[r], "undo_open", "undo_note"),
         \/ tree' = tree /\ Here(r) \notin ToWrite(run[r])
         \/ /\ tree' = [tree EXCEPT ![Here(r)] = run[r].before.tree[Here(r)]]
            /\ Here(r) \in ToWrite(run[r])
  PROVE  Safe(run[r], tree, notes)' /\ Legible(tree)'
  <1>. DEFINE m == run[r]
              k == run'[r]
              h == Here(r)
              b == m.before.tree
  <1>1. /\ Safe(m, tree, notes) /\ Legible(tree) /\ tree \in [File -> Content]
        /\ h \in File /\ b \in Tree /\ Legible(b)
        /\ \A f \in File \ ToWrite(m) : tree[f] = b[f]
        /\ \A f \in ToWrite(m) : Passed(m, f) => tree[f] = b[f] \/ f = h
    BY AtFile DEF PutBack, Confirmed, OthersUntouched, Writing, Here
  <1>2. /\ Same(k, m) /\ k.original = m.original /\ k.noted = m.noted
        /\ \/ k.pc = "undo_open" /\ \A f : Passed(k, f) => Passed(m, f) \/ f = h
           \/ k.pc = "undo_note" /\ k.at = 1 /\ \A f \in File : Passed(m, f) \/ f = h
    BY LoopLate DEF Passed
  <1>3. \A f \in File : tree'[f] = IF f = h THEN b[h] ELSE tree[f]
    BY <1>1
  <1>4. tree' \in [File -> Content]
    BY <1>1 DEF Tree
  <1>5. h \in ToWrite(m) \/ tree' = tree
    OBVIOUS
  <1>. HIDE DEF m, k, h, b
  <1>6. ToWrite(k) = ToWrite(m) /\ k.before.tree = b
    BY <1>2 DEF Same, ToWrite, b
  <1>7. ToWrite(m) \subseteq File
    BY DEF ToWrite
  <1>8. k.pc = "undo_note" => tree' = b
    <2>1. k.pc = "undo_note" => \A f \in File : tree'[f] = b[f]
      BY <1>1, <1>2, <1>3
    <2>. QED
      BY <1>1, <1>4, <2>1 DEF Tree
  <1>9. PutBack(k, tree')
    BY <1>1, <1>2, <1>3, <1>6, <1>7, <1>8 DEF PutBack
  <1>10. Written(k, tree') /\ NoteWritten(k, notes) /\ Writing(k)
    BY <1>2 DEF Written, NoteWritten, Writing, Preparing
  <1>11. \A f \in File \ ToWrite(m) : tree'[f] = tree[f]
    BY <1>3, <1>5
  <1>12. Writing(m)
    BY DEF m
  <1>13. Safe(k, tree', notes)
    BY <1>1, <1>2, <1>9, <1>10, <1>11, <1>12, LateCarried
  <1>. QED
    BY <1>1, <1>3, <1>13 DEF k, Legible

LEMMA UndoOpenSafe ==
  ASSUME TypeInv, SafeInv, NEW r \in Runner, UndoOpen(r)
  PROVE  Safe(run[r], tree, notes)' /\ Legible(tree)'
  <1>. DEFINE m == run[r]
              k == run'[r]
              h == Here(r)
  <1>1. m.pc = "undo_open" /\ Writing(m) /\ notes' = notes
    BY DEF UndoOpen, At, Writing, Preparing
  <1>2. /\ Safe(m, tree, notes) /\ Legible(tree)
        /\ tree \in [File -> Content] /\ h \in File /\ h = Order[m.at]
        /\ \A f \in ToWrite(m) : Passed(m, f) => tree[f] = m.before.tree[f]
    BY <1>1, AtFile DEF PutBack, Here
  <1>3. CASE Planned(r) /\ tree' = [tree EXCEPT ![h] = Empty] /\ Goto(r, "undo_write")
    <2>1. /\ Same(k, m) /\ k.original = m.original /\ k.noted = m.noted
          /\ k.pc = "undo_write" /\ k.at = m.at
      BY <1>3, GotoLate
    <2>2. h \in ToWrite(m)
      BY <1>1, <1>3, AtFile
    <2>3. \A f \in File : tree'[f] = IF f = h THEN Empty ELSE tree[f]
      BY <1>2, <1>3
    <2>. HIDE DEF m, k, h
    <2>4. ToWrite(k) = ToWrite(m) /\ \A f : Passed(k, f) <=> Passed(m, f)
      BY <2>1 DEF Same, ToWrite, Passed
    <2>5. PutBack(k, tree') /\ Written(k, tree')
      BY <1>2, <2>1, <2>2, <2>3, <2>4 DEF PutBack, Written, Same, ToWrite
    <2>6. NoteWritten(k, notes) /\ Writing(k)
      BY <2>1 DEF NoteWritten, Writing, Preparing
    <2>7. Safe(k, tree', notes)
      BY <1>1, <1>2, <2>1, <2>2, <2>3, <2>5, <2>6, LateCarried
    <2>. QED
      BY <1>1, <1>2, <2>3, <2>7 DEF k, Legible
  <1>4. CASE ~Planned(r) /\ Loop(r, m, "undo_open", "undo_note") /\ tree' = tree
    <2>1. h \notin ToWrite(m)
      BY <1>1, <1>4, AtFile
    <2>2. \A f \in ToWrite(m) : f # h
      BY <2>1
    <2>. QED
      BY <1>1, <1>2, <1>4, <2>2, PutBackLoop
  <1>5. CASE End(r, "died") /\ tree' = tree
    BY <1>5, EndSafe
  <1>. QED
    BY <1>3, <1>4, <1>5 DEF UndoOpen

LEMMA UndoWriteSafe ==
  ASSUME TypeInv, SafeInv, NEW r \in Runner, UndoWrite(r)
  PROVE  Safe(run[r], tree, notes)' /\ Legible(tree)'
  <1>. DEFINE m == run[r]
              h == Here(r)
  <1>1. m.pc = "undo_write" /\ Writing(m) /\ notes' = notes
    BY DEF UndoWrite, At, Writing, Preparing
  <1>2. /\ tree \in [File -> Content] /\ h \in ToWrite(m) /\ h \in File
        /\ \A f \in ToWrite(m) : Passed(m, f) => tree[f] = m.before.tree[f] \/ f = h
    BY <1>1, AtFile DEF PutBack, Written, Here
  <1>3. m.original[h] = m.before.tree[h]
    BY <1>1, <1>2, AtFile DEF OthersUntouched, Writing
  <1>4. CASE tree' = [tree EXCEPT ![h] = m.original[h]]
             /\ Loop(r, m, "undo_open", "undo_note")
    <2>1. \A f \in File : tree'[f] = IF f = h THEN m.before.tree[h] ELSE tree[f]
      BY <1>2, <1>3, <1>4
    <2>2. tree' = [tree EXCEPT ![h] = m.before.tree[h]]
      BY <1>3, <1>4
    <2>. QED
      BY <1>1, <1>2, <1>4, <2>1, <2>2, PutBackLoop
  <1>5. CASE End(r, "died") /\ tree' = tree
    BY <1>5, EndSafe
  <1>. QED
    BY <1>4, <1>5 DEF UndoWrite

\* Steps of the loops of one process.
LEMMA SafeRunner ==
  ASSUME TypeInv, SafeInv, NEW r \in Runner, RunnerStep(r)
  PROVE  Safe(run[r], tree, notes)' /\ Legible(tree)' /\ head' = head
  <1>1. CASE \E target, confirm \in Version : Start(r, target, confirm)
    BY <1>1, StartSafe DEF Start
  <1>2. CASE CheckConsistency(r) \/ \E works \in GitAnswers : CheckGit(r, works)
    BY <1>2, CheckConsistencySafe, CheckGitSafe DEF CheckConsistency, CheckGit
  <1>3. CASE Compute(r) \/ Keep(r)
    BY <1>3, ComputeSafe, KeepSafe DEF Compute, Keep
  <1>4. CASE Open(r) \/ Write(r)
    BY <1>4, OpenSafe, WriteSafe DEF Open, Write
  <1>5. CASE OpenNote(r) \/ WriteNote(r)
    BY <1>5, NoteSafe DEF OpenNote, WriteNote
  <1>6. CASE Check(r)
    BY <1>6, CheckSafe DEF Check
  <1>7. CASE UndoOpen(r) \/ UndoWrite(r)
    BY <1>7, UndoOpenSafe, UndoWriteSafe DEF UndoOpen, UndoWrite
  <1>8. CASE UndoNote(r) \/ Kill(r)
    BY <1>8, EndSafe DEF UndoNote, Kill
  <1>. QED
    BY <1>1, <1>2, <1>3, <1>4, <1>5, <1>6, <1>7, <1>8 DEF RunnerStep

LEMMA SafeInit == Init => SafeInv
  <1>. SUFFICES ASSUME Init PROVE SafeInv
    OBVIOUS
  <1>1. \A f \in File : tree[f].versions # <<>>
    <2>1. PICK v \in [File -> InitVersions] :
             tree = [f \in File |->
               [versions |-> IF f = Changelog /\ v[f] > 1
                             THEN <<v[f], v[f] - 1>> ELSE <<v[f]>>,
                edit |-> 0]]
      BY DEF Init
    <2>2. \A a, b : <<a, b>> # <<>> /\ <<a>> # <<>>
      OBVIOUS
    <2>. QED
      BY <2>1, <2>2
  <1>2. \A r \in Runner : run[r].pc = "idle"
    BY DEF Init, Rest
  <1>. QED
    BY <1>1, <1>2 DEF Init, SafeInv, Safe, Legible

LEMMA SafeDeveloper ==
  ASSUME TypeInv, SafeInv,
         (\E f \in File, v \in InitVersions : Edit(f, v)) \/ Commit \/ Discard
  PROVE  SafeInv'
  <1>1. \A r \in Runner : run'[r].pc = "idle"
    BY DEF Edit, Commit, Discard, Quiet, At
  <1>2. CASE Commit \/ Discard
    BY <1>1, <1>2 DEF Commit, Discard, SafeInv, Safe, Legible
  <1>3. CASE \E f \in File, v \in InitVersions : Edit(f, v)
    <2>1. PICK f \in File, v \in InitVersions : Edit(f, v)
      BY <1>3
    <2>. DEFINE c == [versions |-> <<v>>, edit |-> spent.edits + 1]
    <2>2. c.versions # <<>>
      OBVIOUS
    <2>3. tree' = [tree EXCEPT ![f] = c] /\ head' = head
      BY <2>1 DEF Edit
    <2>. HIDE DEF c
    <2>4. Legible(tree)'
      BY <2>2, <2>3 DEF SafeInv, Legible, TypeInv, TypeOK, Tree
    <2>. QED
      BY <1>1, <2>3, <2>4 DEF SafeInv, Safe, Legible
  <1>. QED
    BY <1>2, <1>3

LEMMA SafeStep ==
  ASSUME \A q, r \in Runner : q = r
  PROVE  TypeInv /\ SafeInv /\ [Next]_vars => SafeInv'
  <1>. SUFFICES ASSUME TypeInv, SafeInv, [Next]_vars PROVE SafeInv'
    OBVIOUS
  <1>1. CASE \E r \in Runner : RunnerStep(r)
    <2>1. PICK r \in Runner : RunnerStep(r)
      BY <1>1
    <2>2. Safe(run[r], tree, notes)' /\ Legible(tree)' /\ head' = head
      BY <2>1, SafeRunner
    <2>. QED
      BY <2>2 DEF SafeInv, Legible
  <1>2. CASE (\E f \in File, v \in InitVersions : Edit(f, v)) \/ Commit \/ Discard
    BY <1>2, SafeDeveloper
  <1>3. CASE UNCHANGED vars
    <2>1. UNCHANGED <<run, tree, head, notes>>
      BY <1>3 DEF vars
    <2>. QED
      BY <2>1 DEF SafeInv, Legible
  <1>. QED
    BY <1>1, <1>2, <1>3 DEF Next

LEMMA SafeAlways ==
  ASSUME \A q, r \in Runner : q = r
  PROVE  Spec => [](TypeInv /\ SafeInv)
  <1>1. Init => TypeInv /\ SafeInv
    BY InitTypes, SafeInit
  <1>2. TypeInv /\ SafeInv /\ [Next]_vars => (TypeInv /\ SafeInv)'
    BY TypeStep, SafeStep
  <1>. QED
    BY <1>1, <1>2, PTL DEF Spec

\* The ways a run ends.
Ending(r) ==
    \/ End(r, "blocked") /\ (CheckConsistency(r) \/ \E works : CheckGit(r, works))
    \/ UndoNote(r)
    \/ /\ Check(r) /\ Consistent
       /\ End(r, IF run[r].errors THEN "error" ELSE "ok")
    \/ End(r, "died") \/ End(r, "killed")

LEMMA EndingStep ==
  ASSUME \A q, s \in Runner : q = s, TypeInv, [Next]_vars,
         NEW r \in Runner, ~At(r, "idle"), At(r, "idle")'
  PROVE  Ending(r)
  <1>. DEFINE m == run[r]
  <1>1. m \in RunState /\ m.pc # "idle" /\ run'[r].pc = "idle"
    BY DEF At, TypeInv, TypeOK
  <1>2. \A step : ~Begin(r, step) \/ step = "idle"
    BY <1>1 DEF Begin, RunState, TypeInv, TypeOK
  <1>3. \A step : ~Goto(r, step) \/ step = "idle"
    BY <1>1 DEF Goto, RunState, TypeInv, TypeOK
  <1>4. ASSUME NEW l, NEW step, NEW after, Loop(r, l, step, after),
               \/ l = m
               \/ \E f, c : l = [m EXCEPT !.new[f] = c]
               \/ \E f, c : l = [m EXCEPT !.original[f] = c]
        PROVE  step = "idle" \/ after = "idle"
    <2>1. run'[r] = Looped(l, step, after)
      BY <1>4, LoopIsLooped DEF TypeInv, TypeOK
    <2>. QED
      BY <1>1, <1>4, <2>1 DEF Looped, RunState
  <1>5. RunnerStep(r)
    BY <1>1 DEF Next, vars, Edit, Commit, Discard
  <1>6. CASE \E target, confirm \in Version : Start(r, target, confirm)
    BY <1>1, <1>6 DEF Start, At
  <1>7. CASE CheckConsistency(r) \/ \E works \in GitAnswers : CheckGit(r, works)
    <2>1. CASE CheckConsistency(r)
      BY <1>1, <2>1 DEF CheckConsistency, RunState, TypeInv, TypeOK, Ending
    <2>2. CASE \E works \in GitAnswers : CheckGit(r, works)
      BY <1>2, <2>2 DEF CheckGit, Ending
    <2>. QED
      BY <1>7, <2>1, <2>2
  <1>8. CASE Compute(r)
    BY <1>4, <1>8 DEF Compute
  <1>9. CASE Keep(r)
    BY <1>4, <1>9 DEF Keep, Ending
  <1>10. CASE Open(r) \/ Write(r)
    BY <1>2, <1>3, <1>4, <1>10 DEF Open, Write
  <1>11. CASE OpenNote(r) \/ WriteNote(r)
    <2>1. CASE OpenNote(r)
      BY <1>1, <1>3, <2>1 DEF OpenNote, RunState, TypeInv, TypeOK
    <2>2. CASE WriteNote(r)
      BY <1>2, <1>3, <2>2 DEF WriteNote
    <2>. QED
      BY <1>11, <2>1, <2>2
  <1>12. CASE Check(r)
    BY <1>1, <1>12 DEF Check, RunState, TypeInv, TypeOK, Ending
  <1>13. CASE UndoOpen(r) \/ UndoWrite(r)
    BY <1>3, <1>4, <1>13 DEF UndoOpen, UndoWrite, Ending
  <1>14. CASE UndoNote(r) \/ Kill(r)
    BY <1>14 DEF Kill, Ending
  <1>. QED
    BY <1>5, <1>6, <1>7, <1>8, <1>9, <1>10, <1>11, <1>12, <1>13, <1>14 DEF RunnerStep

LEMMA RestoredStep ==
  ASSUME \A q, s \in Runner : q = s, TypeInv, SafeInv, [Next]_vars,
         NEW r \in Runner, Ends(r, {"blocked", "undone"})
  PROVE  [tree |-> tree', notes |-> notes'] = run[r].before
  <1>. DEFINE m == run[r]
  <1>1. m \in RunState /\ m.pc # "idle" /\ Safe(m, tree, notes)
        /\ outcome \in [Runner -> Outcomes] /\ notes \in Notes
    BY DEF Ends, At, TypeInv, TypeOK, SafeInv
  <1>2. m.before = [tree |-> m.before.tree, notes |-> m.before.notes]
    BY <1>1 DEF RunState
  <1>3. \A how : End(r, how) => how \in {"blocked", "undone"}
    BY <1>1 DEF End, Ends
  <1>4. Ending(r)
    BY EndingStep DEF Ends
  <1>5. CASE CheckConsistency(r) \/ \E works : CheckGit(r, works)
    <2>1. m.pc \in {"consistency", "git"} /\ tree' = tree /\ notes' = notes
      BY <1>5 DEF CheckConsistency, CheckGit, At
    <2>2. tree = m.before.tree /\ notes = m.before.notes
      BY <1>1, <2>1 DEF Safe, NothingWritten, Preparing
    <2>. QED
      BY <1>2, <2>1, <2>2
  <1>6. CASE UndoNote(r)
    <2>1. m.pc = "undo_note" /\ tree' = tree /\ ~End(r, "died")
          /\ notes' = IF m.noted THEN [notes EXCEPT ![m.target] = "absent"] ELSE notes
      BY <1>3, <1>6 DEF UndoNote, At
    <2>2. tree = m.before.tree /\ OthersUntouched(m, tree, notes)
          /\ m.before.notes \in Notes
      BY <1>1, <2>1 DEF Safe, PutBack, Confirmed
    <2>3. notes' \in Notes
      BY <1>1, <2>1 DEF Notes
    <2>4. \A v \in Version : notes'[v] = m.before.notes[v]
      BY <1>1, <2>1, <2>2 DEF OthersUntouched, Preparing, Notes
    <2>5. notes' = m.before.notes
      BY <2>2, <2>3, <2>4 DEF Notes
    <2>. QED
      BY <1>2, <2>1, <2>2, <2>5
  <1>7. CASE Check(r) /\ End(r, IF m.errors THEN "error" ELSE "ok")
    BY <1>3, <1>7
  <1>. QED
    BY <1>3, <1>4, <1>5, <1>6, <1>7 DEF Ending

LEMMA AdvancedStep ==
  ASSUME \A q, s \in Runner : q = s, TypeInv, SafeInv, [Next]_vars,
         NEW r \in Runner, Ends(r, {"ok", "error"}),
         NEW g \in Inventory, run[r].new[g] # Empty
  PROVE  /\ \A f \in Inventory : Shown(f)' = run[r].target
         /\ run[r].target > Head(run[r].before.tree[Canonical].versions)
         /\ \/ notes'[run[r].target] = "whole"
            \/ run[r].before.notes[run[r].target] # "absent"
  <1>. DEFINE m == run[r]
  <1>1. m.pc # "idle" /\ Safe(m, tree, notes) /\ outcome \in [Runner -> Outcomes]
    BY DEF Ends, At, TypeInv, TypeOK, SafeInv
  <1>2. \A how : End(r, how) => how \in {"ok", "error"}
    BY <1>1 DEF End, Ends
  <1>3. Ending(r)
    BY EndingStep DEF Ends
  <1>4. Check(r) /\ Consistent
    BY <1>2, <1>3 DEF Ending, UndoNote
  <1>5. m.pc = "check" /\ tree' = tree /\ notes' = notes
    BY <1>4 DEF Check, At
  <1>6. Confirmed(m) /\ PlannedShow(m) /\ Written(m, tree) /\ NoteWritten(m, notes)
    BY <1>1 DEF Safe
  <1>7. g \in ToWrite(m)
    BY BumpAssumption DEF ToWrite, File
  <1>8. Shown(g) = m.target
    BY <1>5, <1>6, <1>7 DEF Written, PlannedShow, ToWrite, Shown
  <1>9. \A f \in Inventory : Shown(f) = m.target
    BY <1>4, <1>8 DEF Consistent
  <1>. QED
    BY <1>5, <1>6, <1>9 DEF Shown, Confirmed, NoteWritten

\* rollback: where the developer runs one command at a time, a run that reports
\* failure leaves every file and every release note as it found them.
THEOREM BumpRestored ==
  ASSUME \A q, r \in Runner : q = r
  PROVE  Spec => Restored
  <1>1. TypeInv /\ SafeInv /\ [Next]_vars =>
            [\A r \in Runner : Ends(r, {"blocked", "undone"}) =>
                [tree |-> tree', notes |-> notes'] = run[r].before]_vars
    BY RestoredStep
  <1>. QED
    BY <1>1, SafeAlways, PTL DEF Spec, Restored

\* apply: where the developer runs one command at a time, a run that goes
\* through, with one new content for the inventory, advances all it reads.
THEOREM BumpAdvanced ==
  ASSUME \A q, r \in Runner : q = r
  PROVE  Spec => Advanced
  <1>1. TypeInv /\ SafeInv /\ [Next]_vars =>
            [\A r \in Runner :
                 /\ Ends(r, {"ok", "error"})
                 /\ \E f \in Inventory : run[r].new[f] # Empty
                 =>
                 /\ \A f \in Inventory : Shown(f)' = run[r].target
                 /\ run[r].target > Head(run[r].before.tree[Canonical].versions)
                 /\ notes'[run[r].target] = "whole"
                    \/ run[r].before.notes[run[r].target] # "absent"]_vars
    BY AdvancedStep
  <1>. QED
    BY <1>1, SafeAlways, PTL DEF Spec, Advanced

=============================================================================
