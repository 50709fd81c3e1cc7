-------------------------- MODULE RuleAnchorVerifier --------------------------
(***************************************************************************)
(* scripts/verify_rule_anchor_onchain.py against a moving chain.  A run of *)
(* the script makes one RPC call after another, each answered from the     *)
(* branch that is canonical at that moment: the receipt, the transaction,  *)
(* the block number, the contract's mapping.  It then writes the evidence  *)
(* file.  Runs of several processes interleave with each other and with    *)
(* the chain; a process may be killed between any two calls, and operators *)
(* start runs again whatever the last one answered.                        *)
(***************************************************************************)
EXTENDS AnchorChain

CONSTANTS
    Batch,          \* the batch manifests operators have
    NodeChain,      \* the chain_id of the RPC node
    Verifier,       \* processes running the script
    Output,         \* paths given as --output
    Confirmations,  \* --confirmations
    CalmReads,      \* TRUE: no reorganisation falls between the two reads a
                    \* confirmation count is computed from
    CrashPoints,    \* the steps at which a process may be killed
    None, Absent, Torn  \* no value; no file; a file opened and not yet written

\* A batch manifest, reduced to what the chain can tell apart; valid is the
\* verdict of validate_rule_anchor_batch_payload on it.
BatchRecord == [chain_id: Nat, contract: Address,
                root: Root \cup {Zero}, manifest: Manifest \cup {Zero},
                count: Nat, mask: Nat, valid: BOOLEAN]

ASSUME VerifierAssumption ==
    /\ Batch \subseteq BatchRecord
    /\ \A b \in Batch : b.valid => /\ b.root # Zero /\ b.manifest # Zero
    /\ NodeChain \in Nat
    /\ Confirmations \in Nat \ {0}      \* the script refuses less than 1
    /\ CalmReads \in BOOLEAN

\* What an operator chooses the confirmation count for.
ASSUME DeepEnough == Confirmations > MaxReorgDepth

VARIABLES
    run,        \* each process: its next call and what it holds
    files,      \* the content of each output path
    issued      \* all evidence a run reported as passed

verifierVars == <<run, files, issued>>

vars == <<chainVars, verifierVars>>
-----------------------------------------------------------------------------
Job == [batch: Batch, tx: Tx, output: Output]

Receipt == [block: BlockHash, ok: BOOLEAN]

\* Mutant of Confirmed: a run is never pending.
ConfirmedAtOnce(n) == n \in Nat

\* Mutant of Confirmed: a run that comes late finds too many confirmations.
ConfirmedExactly(n) == n = Confirmations

\* Enough confirmations not to be pending; a persisted evidence file must
\* meet its own required_confirmations too.
Confirmed(n) == n >= Confirmations

Evidence == [batch: Batch, tx: Tx, block: BlockHash,
             confirmations: {n \in Nat : n >= Confirmations}]

\* A missing and an empty file are told apart from evidence.
ASSUME FilesDiffer == Absent \notin Evidence /\ Torn \notin Evidence

\* The call a process makes next, or how its last run ended.
Calls == {"get_transaction_receipt", "get_transaction", "block_number",
          "manifestByRoot", "exists", "open", "write"}
Ends == {"idle", "passed", "pending", "failed"}

RunState == [pc: Calls \cup Ends, job: Job \cup {None},
             receipt: Receipt \cup {None}, confirmations: Nat]

Rest(end) ==
    [pc |-> end, job |-> None, receipt |-> None, confirmations |-> 0]

\* The calldata that anchors batch b: encode_anchor_rule_batch_calldata.
Calldata(b) ==
    [root |-> b.root, manifest |-> b.manifest, count |-> b.count,
     mask |-> b.mask]

EvidenceOf(v) ==
    [batch |-> run[v].job.batch, tx |-> run[v].job.tx,
     block |-> run[v].receipt.block, confirmations |-> run[v].confirmations]

VerifierInit ==
    /\ run = [v \in Verifier |-> Rest("idle")]
    /\ files = [o \in Output |-> Absent]
    /\ issued = {}

At(v, call) == run[v].pc = call

Proceed(v, call) == run' = [run EXCEPT ![v].pc = call]

End(v, end) == run' = [run EXCEPT ![v] = Rest(end)]

\* parser.error: the run stops with nothing written.
FailUnless(v, ok, call) == IF ok THEN Proceed(v, call) ELSE End(v, "failed")
-----------------------------------------------------------------------------
\* Arguments, the batch validation and the chain_id check.
Start(v, j) ==
    /\ run[v].pc \in Ends
    /\ IF j.batch.valid /\ j.batch.chain_id = NodeChain
       THEN run' = [run EXCEPT ![v] =
                       [Rest("get_transaction_receipt") EXCEPT !.job = j]]
       ELSE End(v, "failed")
    /\ UNCHANGED <<chainVars, files, issued>>

\* The receipt of a transaction no canonical block holds is unavailable.
GetReceipt(v) ==
    /\ At(v, "get_transaction_receipt")
    /\ \/ /\ ~Included(run[v].job.tx)
          /\ End(v, "failed")
       \/ \E h \in 1..Height :
             /\ chain[h].tx = run[v].job.tx
             /\ run' = [run EXCEPT
                    ![v].pc = "get_transaction",
                    ![v].receipt = [block |-> chain[h].hash,
                                    ok |-> chain[h].ok]]
    /\ UNCHANGED <<chainVars, files, issued>>

\* Mutant of TransactionMatches: the target of the transaction is ignored.
CalldataMatches(t, b) == TxCall[t] = Calldata(b)

\* The target is the batch's contract and the calldata the batch's.
TransactionMatches(t, b) ==
    /\ TxTo[t] = b.contract
    /\ TxCall[t] = Calldata(b)

\* The node must know the transaction, which must have succeeded and match.
GetTransaction(v) ==
    /\ At(v, "get_transaction")
    /\ LET t == run[v].job.tx
       IN  FailUnless(v, /\ Included(t) \/ t \in pool
                         /\ run[v].receipt.ok
                         /\ TransactionMatches(t, run[v].job.batch),
                      "block_number")
    /\ UNCHANGED <<chainVars, files, issued>>

\* Mutant of ConfirmationsOf: the block of the transaction is counted twice.
ConfirmationsOffByOne(latest, included) ==
    IF latest + 2 >= included THEN latest + 2 - included ELSE 0

\* latest - included + 1; not below 0, where the script's comparison and its
\* answer are the same as at 0.
ConfirmationsOf(latest, included) ==
    IF latest + 1 >= included THEN latest + 1 - included ELSE 0

\* Too few confirmations end the run as pending; otherwise the event of the
\* receipt read before is compared with the batch.
GetBlockNumber(v) ==
    /\ At(v, "block_number")
    /\ LET t == run[v].job.tx
           b == run[v].job.batch
           n == ConfirmationsOf(Height, run[v].receipt.block.number)
       IN  IF ~Confirmed(n) THEN End(v, "pending")
           ELSE IF TxCall[t] # Calldata(b) THEN End(v, "failed")
           ELSE run' = [run EXCEPT ![v].pc = "manifestByRoot",
                                   ![v].confirmations = n]
    /\ UNCHANGED <<chainVars, files, issued>>

\* The mapping is read at the head of the branch of this moment.
GetManifest(v) ==
    /\ At(v, "manifestByRoot")
    /\ LET b == run[v].job.batch
       IN  FailUnless(v, StorageAt(Height)[<<b.contract, b.root>>] = b.manifest,
                      "exists")
    /\ UNCHANGED <<chainVars, files, issued>>

\* Mutant of CheckOutput: the output is overwritten without asking.
SkipOutputCheck(v) ==
    /\ At(v, "exists")
    /\ Proceed(v, "open")
    /\ UNCHANGED <<chainVars, files, issued>>

\* "output already exists; refusing to overwrite".
CheckOutput(v) ==
    /\ At(v, "exists")
    /\ FailUnless(v, files[run[v].job.output] = Absent, "open")
    /\ UNCHANGED <<chainVars, files, issued>>

\* write_text creates or truncates the file ...
OpenOutput(v) ==
    /\ At(v, "open")
    /\ files' = [files EXCEPT ![run[v].job.output] = Torn]
    /\ Proceed(v, "write")
    /\ UNCHANGED <<chainVars, issued>>

\* ... and then fills it; the run reports the evidence as passed.
WriteOutput(v) ==
    /\ At(v, "write")
    /\ files' = [files EXCEPT ![run[v].job.output] = EvidenceOf(v)]
    /\ issued' = issued \cup {EvidenceOf(v)}
    /\ End(v, "passed")
    /\ UNCHANGED chainVars

\* The process is killed; what it read is gone, the files stay.
Crash(v) ==
    /\ run[v].pc \in CrashPoints
    /\ End(v, "idle")
    /\ UNCHANGED <<chainVars, files, issued>>

\* A file that no run is filling any more makes every run for it fail at the
\* exists() check; the operator removes it.
Clear(o) ==
    /\ files[o] = Torn
    /\ \A v \in Verifier : At(v, "write") => run[v].job.output # o
    /\ files' = [files EXCEPT ![o] = Absent]
    /\ UNCHANGED <<chainVars, run, issued>>
-----------------------------------------------------------------------------
Step(v) ==
    \/ GetReceipt(v) \/ GetTransaction(v) \/ GetBlockNumber(v)
    \/ GetManifest(v) \/ CheckOutput(v) \/ OpenOutput(v) \/ WriteOutput(v)

\* A process that has read a receipt and not yet the block number.
BetweenReads(v) == run[v].pc \in {"get_transaction", "block_number"}

ChainStep ==
    /\ \/ Advance
       \/ /\ CalmReads => \A v \in Verifier : ~BetweenReads(v)
          /\ \E h \in 0..Height : Reorganise(h)
    /\ UNCHANGED verifierVars

Init == ChainInit /\ VerifierInit

Next ==
    \/ ChainStep
    \/ \E v \in Verifier :
          \/ \E j \in Job : Start(v, j)
          \/ Step(v)
          \/ Crash(v)
    \/ \E o \in Output : Clear(o)

Spec == Init /\ [][Next]_vars
-----------------------------------------------------------------------------
TypeOK ==
    /\ ChainTypeOK
    /\ run \in [Verifier -> RunState]
    /\ files \in [Output -> Evidence \cup {Absent, Torn}]
    /\ issued \subseteq Evidence

\* The block an evidence names is on the canonical branch, with the
\* transaction the evidence is about.
OnBranch(e) ==
    /\ e.block.number \in 1..Height
    /\ chain[e.block.number].hash = e.block
    /\ chain[e.block.number].tx = e.tx
    /\ chain[e.block.number].ok

(* Evidence is final: the block it names is canonical and out of the reach of
   reorganisations, the named transaction anchored the batch there, and the
   contract still maps the root to the manifest.  (verify_rule_anchor_onchain:
   receipt, block number and mapping are three separate reads.) *)
EvidenceFinal ==
    \A e \in issued :
        /\ e.block.number <= finalized
        /\ OnBranch(e)
        /\ StorageAt(Height)[<<e.batch.contract, e.batch.root>>]
               = e.batch.manifest

(* Evidence names the transaction that anchored the batch: the only successful
   call for that root of that contract, carrying exactly the batch's calldata.
   (The receipt, the transaction and the mapping each cover a part of this;
   a later repeat, a rival manifest for the same root, a call the contract
   refused or the same call in another deployment must not pass.) *)
EvidenceNamesTheAnchor ==
    \A e \in issued :
        /\ AnchoredAt(<<e.batch.contract, e.batch.root>>) = {e.block.number}
        /\ chain[e.block.number].tx = e.tx
        /\ TxCall[e.tx] = Calldata(e.batch)

(* docs/FROZEN_RULE_ANCHORING.md: "Chain reorganization risk is handled by a
   configurable confirmation count."  Evidence whose confirmation count exceeds
   the depth of every reorganisation names a block that stays canonical. *)
ConfirmationCountHandlesReorgs == \A e \in issued : OnBranch(e)

(* Even when reorganisations fall between the reads: evidence whose block is
   found on the canonical branch once it is issued stays there for ever, so
   looking its block hash up again settles it. *)
RecheckedEvidenceIsFinal ==
    [][\A e \in issued : OnBranch(e) => OnBranch(e)']_vars

(* Evidence on disk is never changed, truncated or replaced by another run,
   whatever crashes and retries happen ("refusing to overwrite"). *)
EvidenceKept ==
    [][\A o \in Output : files[o] \in Evidence => files'[o] = files[o]]_vars

(* The chain as far as it is out of reach, with the issued evidence, is a
   write-once ledger that evidence is only issued from. *)
Ledger == INSTANCE AnchorLedger WITH
    ledger <- StorageAt(finalized),
    attested <- {<< <<e.batch.contract, e.batch.root>>, e.batch.manifest >> :
                     e \in issued}

LedgerRefined == Ledger!LedgerSpec
-----------------------------------------------------------------------------
(* Liveness.  Operators run the script again for every job it has not passed,
   and remove the torn file a killed run left in its place; a crash does not
   hit the same step of the same job for ever, and blocks keep coming up to
   the bound on the height. *)
Fairness ==
    /\ WF_vars(\E t \in Tx \cup {NoTx} : Mine(t) /\ UNCHANGED verifierVars)
    /\ \A o \in Output : WF_vars(Clear(o))
    /\ \A v \in Verifier, j \in Job :
          /\ SF_vars(Start(v, j))
          /\ WF_vars(Step(v))
          /\ \A c \in CrashPoints : SF_vars(At(v, c) /\ run[v].job = j /\ Step(v))

FairSpec == Spec /\ Fairness

\* Transaction t anchored batch b for good.
AnchoredForGood(b, t) ==
    /\ b.valid /\ b.chain_id = NodeChain
    /\ TransactionMatches(t, b)
    /\ \E h \in 1..finalized : chain[h].tx = t /\ chain[h].ok

(* A batch anchored for good is eventually evidenced, through pending answers,
   reorganisations before it and crashed runs, the file of one killed inside
   write_text included. *)
AnchoringIsEvidenced ==
    \A b \in Batch, t \in Tx :
        AnchoredForGood(b, t) ~> \E e \in issued : e.batch = b /\ e.tx = t
=============================================================================
