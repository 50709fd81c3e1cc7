------------------------------ MODULE BumpVersion ------------------------------
(***************************************************************************)
(* core_runtime/tooling/bump_version.py, BumpVersionPlanner.apply: a run   *)
(* checks the repository, computes every new content in memory, keeps the  *)
(* originals, writes file after file, adds a release note and inspects the *)
(* result; a failure on the way puts the originals back.  Any read or      *)
(* write may fail, a run may be killed between any two steps, and several  *)
(* runs may overlap.  Between runs the developer edits, commits or         *)
(* discards the working tree.                                              *)
(***************************************************************************)
EXTENDS Integers, Sequences, SequencesExt

CONSTANTS
    Runner,      \* processes running the command
    Order,       \* the files of the replacement rules, in the order of writing
    Canonical,   \* core_runtime/__version__.py
    Changelog,   \* CHANGELOG.md
    Inventory,   \* the files whose version the inventory reads
    Reached,     \* the files in which a replacement rule finds that version
    InitVersions,\* the versions each file may show in the beginning
    MaxVersion,  \* bound: versions are 1..MaxVersion
    MaxEdits,    \* bound: edits by the developer
    MaxRuns,     \* bound: runs started
    MaxFaults,   \* bound: reads and writes that fail
    MaxKills,    \* bound: runs killed
    GitAnswers   \* whether git status may work: a subset of BOOLEAN

VARIABLES
    run,         \* each process: its step and what it holds in memory
    outcome,     \* how the last run of each process ended
    tree,        \* the working tree: the content of each file
    head,        \* what is committed
    notes,       \* the release note of each version
    latest,      \* the developer's last edit of each file, unless discarded
    spent        \* runs, faults, kills and edits so far

vars == <<run, outcome, tree, head, notes, latest, spent>>
-----------------------------------------------------------------------------
File == ToSet(Order)
Version == 1..MaxVersion
Edits == 0..MaxEdits

\* An empty file: opening for writing truncates.
Empty == [versions |-> <<>>, edit |-> -1]

\* The versions a file names, first to last, and the edit it stems from.
Content == [versions: Seq(Version), edit: Edits] \cup {Empty}

ASSUME BumpAssumption ==
    /\ Order \in Seq(ToSet(Order)) \ {<<>>}
    /\ Canonical \in Inventory
    /\ Inventory \subseteq ToSet(Order)
    /\ Reached \subseteq ToSet(Order)
    /\ MaxVersion \in Nat
    /\ InitVersions \subseteq 1..MaxVersion
    /\ MaxEdits \in Nat
    /\ GitAnswers \subseteq BOOLEAN

Nothing == [f \in File |-> Empty]

Rest == [pc |-> "idle", current |-> 0, target |-> 0, errors |-> FALSE, at |-> 1,
         new |-> Nothing, original |-> Nothing, noted |-> FALSE, rejected |-> FALSE,
         before |-> [tree |-> Nothing, notes |-> <<>>]]

Steps == {"idle", "consistency", "git", "compute", "keep", "open", "write",
          "note", "write_note", "check", "undo_open", "undo_write", "undo_note"}

Outcomes == {"none", "ok", "error", "blocked", "undone", "died", "killed"}

Notes == [Version -> {"absent", "torn", "whole"}]

Tree == [File -> Content]

RunState ==
    [pc: Steps, current: 0..MaxVersion, target: 0..MaxVersion, errors: BOOLEAN,
     at: DOMAIN Order, new: Tree, original: Tree,
     noted: BOOLEAN, rejected: BOOLEAN,
     before: [tree: Tree, notes: Notes \cup {<<>>}]]

\* VersionInventory.discover: the first version a file names.
Shown(f) == IF tree[f] = Empty THEN 0 ELSE Head(tree[f].versions)

Consistent == \A f \in Inventory : Shown(f) = Shown(Canonical)

\* ReplacementRule: every version named, in the changelog only the first.
Rewritten(f, c, target) ==
    [c EXCEPT !.versions = [i \in DOMAIN @ |->
        IF f = Changelog /\ i > 1 THEN @[i] ELSE target]]

At(r, step) == run[r].pc = step
Goto(r, step) == run' = [run EXCEPT ![r].pc = step]
Begin(r, step) == run' = [run EXCEPT ![r].pc = step, ![r].at = 1]

\* The file a loop over Order has come to.
Here(r) == Order[run[r].at]

\* Mutant of Loop: the last file is not recognised.
LoopPast(r, mem, step, after) ==
    run' = [run EXCEPT ![r] =
        IF mem.at <= Len(Order) THEN [mem EXCEPT !.pc = step, !.at = @ + 1]
                                ELSE [mem EXCEPT !.pc = after, !.at = 1]]

\* The process goes on with mem: to step for the next file, or else to after.
Loop(r, mem, step, after) ==
    run' = [run EXCEPT ![r] =
        IF mem.at < Len(Order) THEN [mem EXCEPT !.pc = step, !.at = @ + 1]
                               ELSE [mem EXCEPT !.pc = after, !.at = 1]]

Planned(r) == run[r].new[Here(r)] # Empty

End(r, how) ==
    /\ run' = [run EXCEPT ![r] = Rest]
    /\ outcome' = [outcome EXCEPT ![r] = how]

Fault == /\ spent.faults < MaxFaults
         /\ spent' = [spent EXCEPT !.faults = @ + 1]

Init ==
    /\ run = [r \in Runner |-> Rest]
    /\ outcome = [r \in Runner |-> "none"]
    /\ \E v \in [File -> InitVersions] :
           tree = [f \in File |->
               [versions |-> IF f = Changelog /\ v[f] > 1
                             THEN <<v[f], v[f] - 1>> ELSE <<v[f]>>,
                edit |-> 0]]
    /\ head = tree
    /\ notes = [v \in Version |-> "absent"]
    /\ latest = [f \in File |-> 0]
    /\ spent = [runs |-> 0, faults |-> 0, kills |-> 0, edits |-> 0]
-----------------------------------------------------------------------------
\* The canonical version is read and must be the one the caller confirms.
Start(r, target, confirm) ==
    /\ At(r, "idle")
    /\ spent.runs < MaxRuns
    /\ spent' = [spent EXCEPT !.runs = @ + 1]
    /\ IF Shown(Canonical) # 0 /\ confirm = Shown(Canonical)
       THEN /\ run' = [run EXCEPT ![r] =
                  [Rest EXCEPT !.pc = "consistency", !.current = confirm,
                               !.target = target,
                               !.before = [tree |-> tree, notes |-> notes]]]
            /\ UNCHANGED outcome
       ELSE End(r, "blocked")
    /\ UNCHANGED <<tree, head, notes, latest>>

\* Mismatches are errors, not blocks; the target must be greater.
CheckConsistency(r) ==
    /\ At(r, "consistency")
    /\ IF Shown(Canonical) = 0 \/ run[r].target <= run[r].current
       THEN End(r, "blocked")
       ELSE /\ run' = [run EXCEPT ![r].pc = "git", ![r].errors = ~Consistent]
            /\ UNCHANGED outcome
    /\ UNCHANGED <<tree, head, notes, latest, spent>>

\* Mutant of CheckGit: only the canonical file has to be clean.
CheckGitCanonical(r, works) ==
    /\ At(r, "git")
    /\ IF works /\ tree[Canonical] # head[Canonical]
       THEN End(r, "blocked")
       ELSE Begin(r, "compute") /\ UNCHANGED outcome
    /\ UNCHANGED <<tree, head, notes, latest, spent>>

\* _check_git_safety: a dirty file blocks; without git the check is skipped.
CheckGit(r, works) ==
    /\ At(r, "git")
    /\ IF works /\ tree # head
       THEN End(r, "blocked")
       ELSE Begin(r, "compute") /\ UNCHANGED outcome
    /\ UNCHANGED <<tree, head, notes, latest, spent>>

\* _compute_new_contents, one file: one that cannot be read is passed over.
Compute(r) ==
    LET f == Here(r)
        step(c) == Loop(r, [run[r] EXCEPT !.new[f] = c], "compute", "keep")
    IN  /\ At(r, "compute")
        /\ \/ /\ step(IF f \in Reached /\ tree[f] # Empty
                      THEN Rewritten(f, tree[f], run[r].target) ELSE Empty)
              /\ UNCHANGED spent
           \/ step(Empty) /\ Fault
        /\ UNCHANGED <<outcome, tree, head, notes, latest>>

\* original_contents, one file; a failure here is not caught.
Keep(r) ==
    LET f == Here(r)
        kept == IF Planned(r) THEN tree[f] ELSE Empty
    IN  /\ At(r, "keep")
        /\ \/ /\ Loop(r, [run[r] EXCEPT !.original[f] = kept], "keep", "open")
              /\ UNCHANGED <<outcome, spent>>
           \/ Planned(r) /\ End(r, "died") /\ Fault
        /\ UNCHANGED <<tree, head, notes, latest>>

\* write_text opens and truncates the file; a failure starts the rollback.
Open(r) ==
    /\ At(r, "open")
    /\ \/ /\ Planned(r)
          /\ tree' = [tree EXCEPT ![Here(r)] = Empty]
          /\ Goto(r, "write")
          /\ UNCHANGED spent
       \/ /\ ~Planned(r)
          /\ Loop(r, run[r], "open", "note")
          /\ UNCHANGED <<tree, spent>>
       \/ Planned(r) /\ Begin(r, "undo_open") /\ Fault /\ UNCHANGED tree
    /\ UNCHANGED <<outcome, head, notes, latest>>

\* Mutant of Write: the file whose write failed is not among those put back.
WriteForgetful(r) ==
    /\ At(r, "write")
    /\ \/ /\ tree' = [tree EXCEPT ![Here(r)] = run[r].new[Here(r)]]
          /\ Loop(r, run[r], "open", "note")
          /\ UNCHANGED spent
       \/ /\ run' = [run EXCEPT ![r].pc = "undo_open", ![r].at = 1,
                                   ![r].new[Here(r)] = Empty]
          /\ Fault /\ UNCHANGED tree
    /\ UNCHANGED <<outcome, head, notes, latest>>

Write(r) ==
    /\ At(r, "write")
    /\ \/ /\ tree' = [tree EXCEPT ![Here(r)] = run[r].new[Here(r)]]
          /\ Loop(r, run[r], "open", "note")
          /\ UNCHANGED spent
       \/ Begin(r, "undo_open") /\ Fault /\ UNCHANGED tree
    /\ UNCHANGED <<outcome, head, notes, latest>>

\* The release note is created unless there is one; a failure rolls back.
OpenNote(r) ==
    /\ At(r, "note")
    /\ IF notes[run[r].target] # "absent"
       THEN Goto(r, "check") /\ UNCHANGED <<notes, spent>>
       ELSE \/ /\ run' = [run EXCEPT ![r].pc = "write_note", ![r].noted = TRUE]
               /\ notes' = [notes EXCEPT ![run[r].target] = "torn"]
               /\ UNCHANGED spent
            \/ /\ run' = [run EXCEPT ![r].pc = "undo_open", ![r].at = 1,
                                     ![r].noted = TRUE]
               /\ Fault
               /\ UNCHANGED notes
    /\ UNCHANGED <<outcome, tree, head, latest>>

WriteNote(r) ==
    /\ At(r, "write_note")
    /\ \/ /\ notes' = [notes EXCEPT ![run[r].target] = "whole"]
          /\ Goto(r, "check")
          /\ UNCHANGED spent
       \/ Begin(r, "undo_open") /\ Fault /\ UNCHANGED notes
    /\ UNCHANGED <<outcome, tree, head, latest>>

\* Mutant of Check: the files are not inspected after writing.
CheckNothing(r) ==
    /\ At(r, "check")
    /\ \/ /\ End(r, IF run[r].errors THEN "error" ELSE "ok")
          /\ UNCHANGED spent
       \/ End(r, "died") /\ Fault
    /\ UNCHANGED <<tree, head, notes, latest>>

\* The files are read again, a failure uncaught; then the inventory decides.
Check(r) ==
    /\ At(r, "check")
    /\ \/ /\ IF Consistent /\ Shown(Canonical) # 0
             THEN End(r, IF run[r].errors THEN "error" ELSE "ok")
             ELSE /\ run' = [run EXCEPT ![r].pc = "undo_open",
                                        ![r].rejected = TRUE]
                  /\ UNCHANGED outcome
          /\ UNCHANGED spent
       \/ End(r, "died") /\ Fault
    /\ UNCHANGED <<tree, head, notes, latest>>
-----------------------------------------------------------------------------

\* rollback: every planned file is written again, also those never touched.
UndoOpen(r) ==
    /\ At(r, "undo_open")
    /\ \/ /\ Planned(r)
          /\ tree' = [tree EXCEPT ![Here(r)] = Empty]
          /\ Goto(r, "undo_write")
          /\ UNCHANGED <<outcome, spent>>
       \/ /\ ~Planned(r)
          /\ Loop(r, run[r], "undo_open", "undo_note")
          /\ UNCHANGED <<outcome, tree, spent>>
       \/ Planned(r) /\ End(r, "died") /\ Fault /\ UNCHANGED tree
    /\ UNCHANGED <<head, notes, latest>>

\* A failure inside rollback leaves it.
UndoWrite(r) ==
    /\ At(r, "undo_write")
    /\ \/ /\ tree' = [tree EXCEPT ![Here(r)] = run[r].original[Here(r)]]
          /\ Loop(r, run[r], "undo_open", "undo_note")
          /\ UNCHANGED <<outcome, spent>>
       \/ End(r, "died") /\ Fault /\ UNCHANGED tree
    /\ UNCHANGED <<head, notes, latest>>

\* The note goes if this run began it.  A failed inspection is an error, any
\* other failure blocks.
UndoNote(r) ==
    /\ At(r, "undo_note")
    /\ \/ /\ notes' = IF run[r].noted
                      THEN [notes EXCEPT ![run[r].target] = "absent"]
                      ELSE notes
          /\ End(r, IF run[r].rejected THEN "undone" ELSE "blocked")
          /\ UNCHANGED spent
       \/ run[r].noted /\ End(r, "died") /\ Fault /\ UNCHANGED notes
    /\ UNCHANGED <<tree, head, latest>>

\* A signal ends the run where it stands: except Exception does not see it.
Kill(r) ==
    /\ ~At(r, "idle")
    /\ spent.kills < MaxKills
    /\ spent' = [spent EXCEPT !.kills = @ + 1]
    /\ End(r, "killed")
    /\ UNCHANGED <<tree, head, notes, latest>>
-----------------------------------------------------------------------------
\* The developer, who does not touch the files while a run is under way.
Quiet == \A r \in Runner : At(r, "idle")

Edit(f, v) ==
    /\ Quiet
    /\ spent.edits < MaxEdits
    /\ spent' = [spent EXCEPT !.edits = @ + 1]
    /\ tree' = [tree EXCEPT ![f] = [versions |-> <<v>>,
                                    edit |-> spent.edits + 1]]
    /\ latest' = [latest EXCEPT ![f] = spent.edits + 1]
    /\ UNCHANGED <<run, outcome, head, notes>>

Commit ==
    /\ Quiet
    /\ \A f \in File : tree[f] # Empty
    /\ head' = tree
    /\ UNCHANGED <<run, outcome, tree, notes, latest, spent>>

\* git checkout: what is not committed is given up.
Discard ==
    /\ Quiet
    /\ tree' = head
    /\ latest' = [f \in File |-> head[f].edit]
    /\ UNCHANGED <<run, outcome, head, notes, spent>>

RunnerStep(r) ==
    \/ \E target, confirm \in Version : Start(r, target, confirm)
    \/ CheckConsistency(r)
    \/ \E works \in GitAnswers : CheckGit(r, works)
    \/ Compute(r) \/ Keep(r) \/ Open(r) \/ Write(r)
    \/ OpenNote(r) \/ WriteNote(r) \/ Check(r)
    \/ UndoOpen(r) \/ UndoWrite(r) \/ UndoNote(r)
    \/ Kill(r)

Next ==
    \/ \E r \in Runner : RunnerStep(r)
    \/ \E f \in File, v \in InitVersions : Edit(f, v)
    \/ Commit
    \/ Discard

Spec == Init /\ [][Next]_vars
-----------------------------------------------------------------------------
\* Type invariant: what a run has computed or kept is a content of a file, and
\* its loops stay within the files.
TypeOK ==
    /\ run \in [Runner -> RunState]
    /\ outcome \in [Runner -> Outcomes]
    /\ tree \in Tree
    /\ head \in Tree
    /\ notes \in Notes
    /\ latest \in [File -> Edits]
    /\ spent \in [runs: Nat, faults: Nat, kills: Nat, edits: Edits]

\* Whatever step fails or is cut off, and with runs overlapping: the last thing
\* the developer wrote in a file is in the working tree or committed.
Recoverable == \A f \in File : latest[f] \in {tree[f].edit, head[f].edit}

Ends(r, how) == ~At(r, "idle") /\ At(r, "idle")' /\ outcome'[r] \in how

\* A run that reports failure, and could roll back, leaves every file and every
\* release note as it found them.
Restored ==
    [][\A r \in Runner : Ends(r, {"blocked", "undone"}) =>
           [tree |-> tree', notes |-> notes'] = run[r].before]_vars

\* A run that goes through, and could compute one new content of a file of the
\* inventory, advances all of these to the target, from a lower version; the
\* release note is complete unless there was one.
Advanced ==
    [][\A r \in Runner :
           /\ Ends(r, {"ok", "error"})
           /\ \E f \in Inventory : run[r].new[f] # Empty
           =>
           /\ \A f \in Inventory : Shown(f)' = run[r].target
           /\ run[r].target > Head(run[r].before.tree[Canonical].versions)
           /\ notes'[run[r].target] = "whole"
              \/ run[r].before.notes[run[r].target] # "absent"]_vars

\* docs/CORE_TOOLING.md: an inconsistent repository is blocked, and no file is
\* written until all validation passes.
InconsistentUntouched ==
    \A r \in Runner : At(r, "note") /\ run[r].errors => tree = run[r].before.tree

\* docs/CORE_TOOLING.md: a greater target is accepted.  A run on a consistent,
\* clean repository in which nothing fails is never rolled back.
GreaterAccepted ==
    \A r \in Runner :
        run[r].rejected /\ spent.faults = 0 => run[r].errors
=============================================================================
