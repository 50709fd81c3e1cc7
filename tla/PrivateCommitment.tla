-------------------------- MODULE PrivateCommitment --------------------------
(***************************************************************************)
(* scripts/create_private_rule_commitment.py: a run draws a nonce, commits *)
(* to a private rule, and writes two files: the secret opening, then the   *)
(* public envelope.  Each is created exclusively and taken back when       *)
(* writing it fails; the opening is taken back too when the envelope       *)
(* fails.  Several runs may share paths, any creation or write may fail,   *)
(* and a run may be killed between any two steps.  An operator clears away *)
(* what a killed run left behind.                                          *)
(***************************************************************************)
EXTENDS Naturals

CONSTANTS
    Runner,     \* processes running the script
    Path,       \* paths given as outputs
    Public,     \* the paths inside the public repository
    None,       \* no file, no value
    MaxRuns     \* bound: runs started in one behaviour

VARIABLES
    run,        \* each process: its step, paths and commitment
    files,      \* the content of each path
    outcome     \* how the run of each commitment ended, or "running"

vars == <<run, files, outcome>>
-----------------------------------------------------------------------------
\* A commitment hides a rule behind 32 random bytes, so each run has its own.
Commitment == 1..MaxRuns

Content == [kind: {"torn", "opening", "envelope"}, commitment: Commitment]

ASSUME CommitmentAssumption ==
    /\ Public \subseteq Path
    /\ MaxRuns \in Nat
    /\ None \notin Content

Torn(c) == [kind |-> "torn", commitment |-> c]
Opening(c) == [kind |-> "opening", commitment |-> c]
Envelope(c) == [kind |-> "envelope", commitment |-> c]

Steps == {"create_opening", "write_opening", "unlink_opening",
          "create_public", "write_public", "unlink_public", "undo_opening",
          "report"}

Rest == [pc |-> "idle", opening |-> None, public |-> None, commitment |-> None]

RunState ==
    {Rest} \cup [pc: Steps, opening: Path \ Public, public: Path,
                 commitment: Commitment]

At(v, step) == run[v].pc = step

Proceed(v, step) == run' = [run EXCEPT ![v].pc = step]

End(v, how) ==
    /\ run' = [run EXCEPT ![v] = Rest]
    /\ outcome' = [outcome EXCEPT ![run[v].commitment] = how]

Init ==
    /\ run = [v \in Runner |-> Rest]
    /\ files = [p \in Path |-> None]
    /\ outcome = [c \in Commitment |-> "new"]
-----------------------------------------------------------------------------
\* Mutant of Start: --opening-output is not checked.
StartAnywhere(v, o, p, c) ==
    /\ At(v, "idle")
    /\ outcome[c] = "new"
    /\ \A b \in Commitment : b < c => outcome[b] # "new"
    /\ run' = [run EXCEPT ![v] = [pc |-> "create_opening", opening |-> o,
                                  public |-> p, commitment |-> c]]
    /\ outcome' = [outcome EXCEPT ![c] = "running"]
    /\ UNCHANGED files

\* The opening must not be inside the repository; the commitment is computed.
Start(v, o, p, c) ==
    /\ At(v, "idle")
    /\ o \notin Public
    /\ outcome[c] = "new"
    /\ \A b \in Commitment : b < c => outcome[b] # "new"
    /\ run' = [run EXCEPT ![v] = [pc |-> "create_opening", opening |-> o,
                                  public |-> p, commitment |-> c]]
    /\ outcome' = [outcome EXCEPT ![c] = "running"]
    /\ UNCHANGED files

\* Mutant of Create: without O_EXCL an existing file is truncated.
CreateAnyway(v, path, step, onError) ==
    \/ /\ files' = [files EXCEPT ![path] = Torn(run[v].commitment)]
       /\ Proceed(v, step)
       /\ UNCHANGED outcome
    \/ /\ onError
       /\ UNCHANGED files

\* os.open with O_CREAT and O_EXCL: raises when the path exists, and may fail
\* for reasons of its own.
Create(v, path, step, onError) ==
    \/ /\ files[path] = None
       /\ files' = [files EXCEPT ![path] = Torn(run[v].commitment)]
       /\ Proceed(v, step)
       /\ UNCHANGED outcome
    \/ /\ onError
       /\ UNCHANGED files

\* Writing through the descriptor succeeds, or fails (a full disk).
Write(v, path, content, onSuccess, onError) ==
    \/ /\ files' = [files EXCEPT ![path] = content]
       /\ onSuccess
    \/ /\ Proceed(v, onError)
       /\ UNCHANGED <<files, outcome>>

Unlink(path) == files' = [files EXCEPT ![path] = None]

\* _write_new_json of the opening; its errors end the run.
CreateOpening(v) ==
    /\ At(v, "create_opening")
    /\ Create(v, run[v].opening, "write_opening", End(v, "failed"))

WriteOpening(v) ==
    /\ At(v, "write_opening")
    /\ Write(v, run[v].opening, Opening(run[v].commitment),
             Proceed(v, "create_public") /\ UNCHANGED outcome,
             "unlink_opening")

UnlinkOpening(v) ==
    /\ At(v, "unlink_opening")
    /\ Unlink(run[v].opening)
    /\ End(v, "failed")

\* _write_new_json of the envelope; its errors undo the opening.
CreatePublic(v) ==
    /\ At(v, "create_public")
    /\ Create(v, run[v].public, "write_public",
              Proceed(v, "undo_opening") /\ UNCHANGED outcome)

WritePublic(v) ==
    /\ At(v, "write_public")
    /\ Write(v, run[v].public, Envelope(run[v].commitment),
             Proceed(v, "report") /\ UNCHANGED outcome, "unlink_public")

\* Both files are complete; the run reports it.
Report(v) ==
    /\ At(v, "report")
    /\ End(v, "passed")
    /\ UNCHANGED files

\* Mutant of UnlinkPublic: the run ends without taking the opening back.
UnlinkPublicOnly(v) ==
    /\ At(v, "unlink_public")
    /\ Unlink(run[v].public)
    /\ End(v, "failed")

UnlinkPublic(v) ==
    /\ At(v, "unlink_public")
    /\ Unlink(run[v].public)
    /\ Proceed(v, "undo_opening")
    /\ UNCHANGED outcome

UndoOpening(v) ==
    /\ At(v, "undo_opening")
    /\ Unlink(run[v].opening)
    /\ End(v, "failed")

\* The process is killed (an interrupt is not an Exception and undoes nothing).
Kill(v) ==
    /\ ~At(v, "idle")
    /\ End(v, "killed")
    /\ UNCHANGED files

\* An operator removes a file left by a killed run, envelopes before openings.
Clear(p) ==
    /\ files[p] # None
    /\ outcome[files[p].commitment] = "killed"
    /\ files[p].kind = "opening" =>
          \A q \in Path : files[q] # Envelope(files[p].commitment)
    /\ Unlink(p)
    /\ UNCHANGED <<run, outcome>>

Step(v) ==
    \/ CreateOpening(v) \/ WriteOpening(v) \/ UnlinkOpening(v)
    \/ CreatePublic(v) \/ WritePublic(v) \/ UnlinkPublic(v) \/ UndoOpening(v)
    \/ Report(v)

Next ==
    \/ \E v \in Runner :
          \/ \E o, p \in Path, c \in Commitment : Start(v, o, p, c)
          \/ Step(v)
          \/ Kill(v)
    \/ \E p \in Path : Clear(p)

Spec == Init /\ [][Next]_vars
-----------------------------------------------------------------------------
TypeOK ==
    /\ run \in [Runner -> RunState]
    /\ files \in [Path -> Content \cup {None}]
    /\ outcome \in [Commitment ->
                        {"new", "running", "passed", "failed", "killed"}]

Holds(c, content) == \E p \in Path \ Public : files[p] = content

(* A published commitment can be opened: whenever a complete envelope is on
   disk, so is the complete opening of the same commitment, outside the
   repository, whatever failed or was killed.  (The opening cannot be computed
   again: its nonce is random.) *)
PublishedCanBeOpened ==
    \A p \in Path, c \in Commitment :
        files[p] = Envelope(c) => Holds(c, Opening(c))

IsOf(p, c) == files[p] # None /\ files[p].commitment = c

(* A run that reports an error leaves nothing: no opening, no envelope and no
   partial file of its commitment stays on disk. *)
FailureLeavesNothing ==
    \A p \in Path, c \in Commitment :
        outcome[c] = "failed" => ~IsOf(p, c)

(* A run that reports success keeps its two files, whatever other runs do on
   the same paths. *)
SuccessIsKept ==
    \A c \in Commitment :
        outcome[c] = "passed" =>
            /\ Holds(c, Opening(c))
            /\ \E p \in Path : files[p] = Envelope(c)
=============================================================================
