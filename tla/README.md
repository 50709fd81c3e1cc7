# CORE, checked

TLA+ models of CORE (the deterministic contract runtime and frozen-rule
anchoring pipeline of this repository), TLC runs over small instances of them,
and TLAPS proofs for every instance. `PROJECT.json` lists the runs, the source
lines each definition stands for, the hazards and the theorems; this file says
what they mean.

Run a check with `tlc -config <run>.cfg <module>.tla`, a proof module with
`tlapm <module>.tla`.

## 1. The system

CORE is a Python package (`core_runtime/`), about a hundred command-line
scripts (`scripts/`) and two Solidity contracts (`contracts/`). Nearly all of it
is sequential: a process reads JSON documents, validates them, computes, and
writes or prints a document. What is stateful or concurrent is

- the **chain** and the contracts on it, which wallets, rivals and
  reorganisations change while scripts read;
- the **file system**, which several processes and killed processes share;
- **sequences of commands** an operator runs, each relying on documents an
  earlier one wrote and somebody may have changed;
- **loops over lists** inside one process (trees, programs, graphs, traces),
  whose bookkeeping is where an order or a boundary goes wrong;
- **two lists kept by hand** that must agree: the release gate's catalog and its
  loops, a contract registry and its probes, a builder and its validator.

| component | state | operations | what makes it correct |
|---|---|---|---|
| CoreRuleAnchor contract (`contracts/CoreRuleAnchor.sol`) | `manifestByRoot` and the event log | `anchorRuleBatch`, `isAnchored` | a root is written once, log and storage agree |
| on-chain verification (`scripts/verify_rule_anchor_onchain.py`) | what a run has read so far; the evidence file | five RPC reads, then exists / open / write | evidence is about the batch's anchor, is final, is never replaced, and comes eventually |
| rule approval and batches (`core_runtime/core/rule_anchor.py`, `build_rule_anchor_batch.py`, request/finalize scripts) | indexed rules and approvals | read rule set, read approval, build | enough different authorised wallets signed this rule set for this deployment |
| Merkle batches (`rule_anchor.py`) | levels, proofs | pair, next level, verify, validate | root commits to the batch, proofs lead to it |
| private commitments (`create_private_rule_commitment.py`) | two output files | create, write, unlink of each | what is published can be opened, errors leave nothing |
| unsigned transactions (`rule_anchor.py`, `prepare_rule_anchor_transaction.py`, `prepare_core_rule_anchor_deployment.py`, their validators) | values read from a node so far; the document | read nonce, balance, fees; price; validate | a request called ready can be paid |
| version bump (`tooling/bump_version.py`) | a plan over many files | check, apply, roll back | all files changed or none |
| contract evaluation (`contract_evaluator.py`, probes, `contract_executability.py`) | none; registries | evaluate, audit | accepted documents earn what they claim; the audit notices a rule that is gone |
| contract programs (`contract_program.py`, registry) | values, staged transitions, program counter | replay one instruction | all transitions or none, outputs final |
| audit trail (`audit_event.py`, `audit_trail_index.py`) | events, one index | derive, collect, index | independent of arrival, in the order of what happened |
| explainability (`explainability.py`) | execution artefacts, a trail | eleven questions | every cause, no foreign one |
| agents (`validate_agent_*.py`, tools, profile, human gate) | the files judged so far; a sort's queue | judge, sort, report | what passes is sound and was judged |
| release verification (`verify_release.py`, `tooling/release_check.py`) | a status for each check; a child process | run tables, replay, tests; profiles, timeout | passed means it ran and was stable |
| legacy anchoring, expert routing, watchers, sensor evidence, bounded references, tooling | one or a few documents | validate, derive, replay | each document consistent with those it names |

Interactions: `create_rule_approval_request` -> wallet -> `finalize_rule_approval`
-> `build_rule_anchor_batch` -> `prepare_rule_anchor_transaction` -> wallet ->
chain -> `verify_rule_anchor_onchain`. Each arrow is a file or a transaction;
no process holds a lock or keeps state between them. The hard behaviours are
therefore stale reads (three RPC reads of a moving chain), check-then-act on
files, kills between two writes, signatures moved between documents, and the
off-by-ones of confirmations and odd tree levels. `PROJECT.json` has the full
component list with the reasons for what is left out, and the hazards at their
lines.

## 2. Modules

### `AnchorChain`, `RuleAnchorVerifier`, `AnchorLedger` (anchoring and its evidence)

`AnchorChain` is the contract and the canonical branch one RPC node shows.
`Accepts` is the list of `require` statements and `AnchorRuleBatch` the write;
a block carries at most one anchor transaction and the storage after it. `Mine`,
`Reorganise`, `Broadcast` and `Evict` are the environment: a reorganisation cuts
the branch back to any height not yet out of reach (`finalized`), its
transactions return to the pool and may be lost or mined again. Hashes of blocks
carry the number of reorganisations before them, so a block mined again is
another block. One signed transaction runs once on a branch (its nonce); a
retry with a new nonce is another `Tx` with the same call.

`RuleAnchorVerifier` extends it with the script, one action per RPC call and per
file operation, in the order of `main`: `Start` (arguments, batch validation,
chain id), `GetReceipt`, `GetTransaction` (status, target, calldata),
`GetBlockNumber` (confirmations, pending, event), `GetManifest`, `CheckOutput`,
`OpenOutput`, `WriteOutput`. Every `parser.error` ends the run as "failed"; too
few confirmations end it as "pending". `Crash` kills a run before any call named
in `CrashPoints`, which leaves a torn file if the call is the write; `Clear` is the
operator who removes such a file once no run is filling it. `Start` may begin any
job again at any time. The batch validator
is reduced to its verdict (`valid`), which `MerkleBatch` opens up.

`AnchorLedger` is what the two promise together: a write-once ledger from
(contract, root) to manifest, and attestations only of what it says. The mapping
takes the storage at the `finalized` height and the issued evidence.

### `RuleApproval` (who signed what)

Any document may exist, with any fields and the fingerprint that belongs to
them; only signatures cannot be made up, so `signed` holds those wallets made.
A document claims a signer, rule set and place (chain and contract), and
carries a signature and a spelling (the letter case that changes its fingerprint
but not its meaning). `RecoveredSigner` is address recovery on the message the
document's fields give: the signing wallet if the fields are those signed, an
unknown address otherwise. `ReadRuleSet`, `ReadApproval` and `BuildBatch` are the
three loops of `build_rule_anchor_batch`, and every ValueError discards the build.
`create_rule_approval_request.py` and `finalize_rule_approval.py` add no state
of their own: what they write is one of the documents the builder may be given,
and the builder checks all of it again.

### `MerkleBatch` (the tree)

The `while` and `for` loops of `_merkle_root_and_proofs` as steps: `PairUp`,
`PairOdd`, `NextLevel`, `Finish`, after `AddRuleSet` (in any order) and
`HashLeaves` (in sorted order). `Resolve` is the loop of
`verify_rule_anchor_proof` and `ManifestAccepted` the batch validator. SHA-256
with its two domain prefixes is taken as injective: a hash is the term it was
computed from. `Root` is the reference: `Tree` gives the rows of the tree as one recursive
function of the height, each row a function of the one below it, with no loop or index
of the code in it.

### `PrivateCommitment` (two files that must not part)

`_write_new_json` is create (`O_EXCL`), write, and unlink when writing fails;
`main` writes the opening, then the envelope, and unlinks the opening when that
fails. Each of these is an action, for several processes that may be given the
same paths. `Kill` stops a run anywhere (KeyboardInterrupt is not an Exception,
so it undoes nothing either). `Clear` is the operator who removes what a killed
run left, envelope before opening. Unlinking a file the process has just created
is assumed to succeed.

### Proof and MC modules

`RuleAnchorProofs`, `OperatorProofs` (approvals, private commitments and unsigned
transactions), `MerkleBatchProofs`, `BumpVersionProofs`, `ContractProofs` (programs,
safety cases, traces and the audit), `ExplanationProofs` (the trail and the explainer),
`AgentProofs` (the plan sort and the gate) and `ReleaseProofs` extend their models and
hold the theorems; `MC*` modules give TLC its instances. `MCRuleFiles` and `MCEvaluation`
hold several components that share no state: the initial state chooses which one
a behaviour moves, and the others are idle.

### `BumpVersion` (one version in many files)

`apply` with one action per read and write: `Start` (canonical version,
`--confirm-current`), `CheckConsistency`, `CheckGit`, then `Compute`, `Keep` and
`Open`/`Write` file by file in the order of the rules, `OpenNote`/`WriteNote`,
`Check`, and `UndoOpen`/`UndoWrite`/`UndoNote` for `rollback`. Opening truncates, so
a file is `Empty` between the two. Each may fail (`Fault`), and what happens
then is what the code's `except` clauses do: pass over the file, roll back, or
die. `Kill` is a signal anywhere. A content is the versions it names and the
developer's edit it stems from; the changelog may name two. `Inventory` are the
files the consistency check reads and `Reached` those whose version a
replacement rule finds. `Edit`, `Commit` and `Discard` are the developer, who waits
while a command runs. `run[r].before` is no variable of the code: it remembers the
repository at the start of the run for the properties.

### `AnchorRequest`, `AnchorPreparation` (unsigned transactions)

`AnchorRequest` is what `rule_anchor.py` computes: `BatchReserve` and
`DeploymentReserve` with their roundings, `Readiness` in the order of its `elif`s,
`Filled` (the builder) and `Errors` (the two validators, which recompute all of it). The
code holds the reserve twice, so does the model: the validators use `ExpectedBatchReserve`
and `ExpectedDeploymentReserve`, and `ReadyIsPayable` fails if either copy rounds the cost down.
`AnchorPreparation` is the two scripts: `CheckArguments`, one action per question to
the node in the order the code asks (`Reads`), `Build`; `Options` are the command lines
and `Revisions(r)` what a document may be edited to. Meanwhile `SendOther` and
`Mine` are the account's other transactions, `Recompile` changes the frozen build
that a deployment is checked against twice, `Edit` changes the document before
`Validate`. `ahead` is no variable of the code: it remembers what was pending when
the nonce was read.

### `ContractRules`, `CausalTrace`, `SafetyCase`, `ContractEvaluator` (evaluation)

Each semantic validator of `contract_evaluator.py` is an operator that returns its
set of error codes; a document keeps the fields the rules read. `CausalTrace` is the
depth-first search `visit`, one step per node met: the recursion is a stack of visits
(`path`, the nodes being visited), each with the children it has still to visit, beside
the set of visited nodes (`done`). `SafetyCase` has the references between hazards, barriers, tests and evidence and the level they reach.
`ContractEvaluator` puts schema, references, fingerprint and rules together
(`Evaluate`), with the registries as a parameter; a trace whose rules apply is searched
(`Search`) before it is judged (`Judge`). `ContractAudit` holds the probe of
every contract (a document that must be accepted, a mutation of it that must be
rejected with one code) and `audit_contract_executability`, part by part (`AuditParts`);
`fault` is the one thing wrong with the repository the audit runs in, and `KnownFault`
says which of these the audit is there for.

### `ContractProgram` (replay)

A program is written one instruction at a time, evaluated (`ProgramErrors`), and
replayed: `Load`, `AssertInput`, `Derive` (with the registry operations), `Transition`,
`Emit`, `Halt`; `Stopped` is every early end, with what it throws away.

### `AuditTrail`, `Explanation`

`AuditTrail` derives the events of each report as `audit_event.py` does (ticks counted
from 0 within the report; a mismatch without a row sorts as row 0 and is numbered by its
place), `Collect`s reports in any order and builds the index
sorted by (tick, correlation, type, id). `Explanation` asks the explainer's questions
of execution artefacts (graph, log, facts) and of a trail that `AuditTrail` built.

### `PlanOrder`, `AgentArtifacts`, `AgentRecords`, `AgentGate` (agents)

`AgentArtifacts` and `AgentRecords` are the rules of the six scripts, one operator per
kind of document. `PlanOrder` is `_topological_sort` as a step machine: `queue`,
`visited` and the in-degrees; any step of the queue may be next, because only
the number of visited steps is used. `AgentGate` is a script on a file or a directory:
which files it can read, which it tolerates (`Tolerates`), what ends it without a
report (`Crash`), the sort of a plan while it is judged, report and exit code.

### `ReleaseCatalog`, `ReleaseGate`, `ReleaseCheck` (release verification)

`ReleaseCatalog` has the check tables: name and what a healthy command does
(`Accepting`, `Rejecting` with exit code 1, `Reporting`: a failed verdict with exit code 0,
as the validators of plans, traces, bridges, submissions and chain adapters do). A
version is the tuple of its numbers, since the code compares some by number and
some by spelling; `new ++ old` is the table `old` updated by `new`. `ReleaseGate` is `verify()`: tooling, bridges, the loops with their floors
and exclusions, manifests, attestations, replay, tests, verdict. The commands are its
environment: all behave but the one in `sick`. `StartGate` is `main`: an unknown group is
refused first (`Groups`), then `--list-checks` and `--plan` answer without a run. `ReleaseCheck` is the
wrapper: lint, preflight, one gate per group of a profile, and the timeout that kills a
gate at any step.

## 3. Runs, bounds and what they show

| run | asks | bounds, and why they are enough |
|---|---|---|
| `verifier_calm` | `TypeOK`, `LogExplainsStorage`, `EvidenceFinal`, `EvidenceNamesTheAnchor`, `EvidenceKept`, `LedgerRefined` with no reorganisation between the receipt and block-number reads | 4 blocks, depth 2, 3 confirmations, 2 reorganisations: a block can be replaced before it is confirmed; a valid, a rival, an invalid and a foreign batch; four transactions, one refused by the contract and one to a second deployment; one process, killed anywhere |
| `verifier_racing` | `RecheckedEvidenceIsFinal` with reorganisations at any moment | two processes on one output, 2 reorganisations, so evidence for a block that is gone is reachable |
| `verifier_reorg` | finding: `ConfirmationCountHandlesReorgs` is violated | one transaction, one reorganisation |
| `verifier_overwrite` | finding: `EvidenceKept` is violated by two processes | one transaction, no reorganisation |
| `verifier_live` | `AnchoringIsEvidenced` | two transactions for one batch, one reorganisation; kills before the block number is read, before the output is opened and inside `write_text`, whose torn file makes every retry fail until the operator removes it |
| `rule_files` | approvals: `ApprovalTypeOK`, `EntriesApproved`, `OneApprovalPerWallet`; private commitments: `TypeOK`, `PublishedCanBeOpened`, `FailureLeavesNothing`, `SuccessIsKept` | two wallets, a rule set with threshold 2, its amendment with threshold 1, an invalid one, two places, two spellings, three signatures: one signature too few, in the wrong place, of the wrong version, one wallet twice. Two processes, three runs, one public and two private paths: a third run meets what two others left |
| `bump` | `TypeOK`, `Recoverable`, `Restored`, `Advanced` | four files that stand for the eight: canonical, read by the inventory, changelog, not read by it; every mix of two versions; two runs one after the other, three faults (a write and its rollback; all reads of the inventory), one edit, one kill. `Recoverable` is proved for overlapping runs too, the other two for one process, as here |
| `bump_inconsistent` | finding: `InconsistentUntouched` is violated | one run, no fault |
| `bump_readme` | finding: `GreaterAccepted` is violated | one run, no fault, README.md as it is in the repository |
| `release` | `ReleaseTypeOK`, `ListedChecksRun`, `FlakyNeverPasses`, `StrictReplayExecuted`, `ProfilePassMeansAllRan`, `WrapperAnswers` | six spellings of the target, every kind of group, profiles and wrapper arguments; one command at a time that misbehaves (flaky, accepting, rejecting, reporting a failure with exit code 0, missing, without its fixture), at least one of each table and of each part that is no table |
| `release_verdicts` | finding: `NegativeChecksReject` is violated | the same instance |
| `evaluation` | part by part, what follows | |
| - documents | `AcceptedTraceIsCausal`, `AssuranceEarned` | traces of 4 nodes and up to 5 of 15 edges; safety cases of 2 to 4 of 16 tests at 3 levels, and 26 defects; every contract's accepted and mutated document, with one thing wrong with its form |
| - programs | `StagedAllOrNothing`, `OutputsAreFinal` | up to 3 of 13 instructions and an end; 2 limits, 3 capability sets, 3 sealed inputs |
| - audit | `AuditDecides` | every fault of each kind, at every contract and every rule, rules no probe was written for among them |
| - Merkle | `MerkleTypeOK`, `RootIsTree`, `RootCommits` | batches of 1 to 5 rule sets, one in two versions: odd levels at the bottom (3, 5) and at the bottom and above (5: 5, 3, 2, 1); all proofs up to the height of the tree, of its hashes and foreign leaves |
| - trail | `ArrivalDoesNotMatter`, `TrailTellsTheStory` | 13 reports of every kind, up to 3 collected, in any order and repeated |
| - explanations | `ExplanationsHoldUp`, `ExplainedAsDecided` | graphs of 3 nodes with 64 sets of edges (cycles, an unknown node), a log of 3, 2 facts, 12 targets of 5 questions; the router questions on every trail |
| - agents | `SortDecides`, `PassedFilesAreSound` | all dependencies among 3 steps in two listings, 4 steps with at most one each; traces of 3 entries, dated or not, and 20 edits after sealing; one defect at a time of every kind of artifact; directories of 3 files with a bad one in the middle, empty ones, missing targets |
| - requests | `ReadyIsPayable` | a balance that one more transaction makes too small and one it does not; up to 2 other transactions; legacy and EIP-1559 fees; every wrong argument; 31 edits of each request. Another transaction leaves a balance that pays three batches at a price rounded down and not exactly, so a rounding that is wrong shows |

Bounds are `MaxHeight`, `MaxReorgs`, `MaxRuns`, `MaxSignatures`, `MaxApprovals`,
`MaxVersion`, `MaxEdits`, `MaxFaults`, `MaxKills`, `MaxRule`, `MaxBody`, `MaxCollected`
and `MaxSends`; they are nothing in the code, and the proofs hold for every value of
those their modules have. Deadlock is checked where the system goes on (chain and
operators always can) and not in the others, whose functions return and whose runs are
numbered. `VerifierSymmetry` and `Interchangeable` permute values that no
definition tells apart; no run with symmetry checks liveness.

**What the runs say of the code.** Two findings of the verifier, two of the
version bump, one of the release gate:

1. `docs/FROZEN_RULE_ANCHORING.md` says that reorganisation risk is handled by
   the confirmation count. The receipt and the block number are two reads; a
   reorganisation between them makes the script count confirmations of a block
   that is gone (`verifier_reorg`), whatever the count. Where none falls between
   them the statement is right (`CalmReads`, `verifier_calm`, and proved), and so
   is a cheap remedy: evidence whose block hash is looked up again and found on
   the branch is final (`RecheckedEvidenceIsFinal`, proved).
2. "output already exists; refusing to overwrite" is check-then-act: two runs
   given one path replace each other's evidence (`verifier_overwrite`). For one
   process at a time the promise holds, kills included (proved).

3. An inconsistent repository is not blocked (`bump_inconsistent`): mismatches are
   errors and `apply` stops on blocks only, against the table of diagnostics in
   `docs/CORE_TOOLING.md`. The files are rewritten and the report says
   `mutation_performed: false`.
4. No bump of this repository goes through (`bump_readme`): the rule for `README.md`
   looks for a line the file does not have, while the inventory reads its title.
   `Restored` says that at least nothing is left behind.

5. A negative check passes although its validator accepts the fixture it must
   reject (`release_verdicts`), as long as it accepts it twice: the gate compares the
   two runs with each other and never asks for the non-zero exit that
   `_same_result` calls "the expected outcome for a negative check".

What else the models show, none of it a disagreement with a document unless it says so:

- *Anchoring.* A process killed inside `write_text` leaves a file that blocks every retry
  until an operator removes it: without `WF(Clear)` the live run is violated, with it
  `AnchoringIsEvidenced` holds. The batch validator accepts a manifest that lists only some entries of a
  root, and the last entry of an odd level has more than one proof (`RootCommits` says
  what does hold). Approvals are checked when a batch is built and only named by
  fingerprint afterwards.
- *Transactions.* A preparation without a node always says `contract_unverified` and exits
  with 2, so `offline_unpriced` is never seen for an anchor, and for a deployment it is.
  The nonce counts pending transactions and the balance does not. The safety multiplier
  is applied twice, to the gas estimate and to the cost. The builder of an anchor
  accepts a tip above the maximum fee and its validator rejects what it built; a tip
  without a maximum is accepted for an anchor and rejected for a deployment. `to` and the
  root and mask in the call data are not compared with anything. A document that is not
  UTF-8 ends the validator with a traceback.
- *Version bump.* A release note torn by a run that died is kept by the next run, which
  reports success, and a run that could read no file of the inventory when it computed the
  new contents reports success at the old version (`Advanced` excepts both); a bump that overlaps another can report success
  while the repository is at the other's target (files are compared with each other).
- *Evaluation.* Tests may claim hazards that do not list them, though the message of the rule
  says links must be bidirectional; a test's expected state is not compared with the
  hazard's; catastrophic hazards need barriers of distinct domains, not declared
  independence; nodes that the root of a trace does not reach are accepted; `assert
  equals true` passes on 1; values emitted before a block are kept; the audit probes one
  rule of each contract (`AuditDecides` has the others: it passes with any
  of them dropped).
- *Audit trail.* Ticks start at 0 in every report, so a trail of several is no history: a
  batch report sorts before the routings it reports, an evaluation before the validation.
  Items without a name leave gaps, and the report may precede the last items. When one
  replay certified and another diverged only the former is cited. A sole batch report is
  cited for routings it does not list, which makes the trace of an unknown routing
  "complete".
- *Explanations.* `cause_of_event` contains its target and is never missing; `lineage_of_fact`
  goes one level up and leaves the fact out; an event without an id cannot be asked for by
  the `seq:n` the explainer prints for it; a bare number matches sequence numbers and
  logical orders alike; a log that is a list counts as supported and is not read; manifest
  warnings compare only the last fingerprint of each key.
- *Agents.* A step that depends on itself is not circular to the sort; an index out of range
  that depends on a valid step ends the validator with a KeyError; the plan and trace
  validators exit with 0 when they report failed; which unreadable files are tolerated
  differs from script to script; approval flags are rejected only when explicitly false (in a tool invocation also when
  null; 0 or "false" passes there, as the value "other" of the instance does);
  artifacts are judged one by one, so nothing asks that an execution has an approved
  record; evidence hashes are outside the chain of a trace; timestamps compare as text.
- *Release.* `--target` "excludes checks from later versions", yet v11.1 to v11.3 exclude
  their own and v12.0 excludes V12; V12 gates are recorded as passed with no command
  run; exclusions depend on the spelling (`v12.0`, `v12.0.0`); the profile "full" leaves
  out the audit-trail checks, which are in no group; `--plan` and `--list-checks` through the
  wrapper report pass whatever the gate answered; a second run that is "missing" becomes
  pending; five checks of the report are in no catalog.

**Fairness**. In `release`, the wrapper's own steps (weak fairness of `WrapperStep`),
its timeout among them, and none of the gate it waits for. In `verifier_live`
(`FairSpec`): blocks keep coming up to the bound (weak fairness of `Mine`); a
process that has begun a run makes its calls (weak fairness of `Step`: the script
has no loop and every call returns); an operator whose batch has no evidence asks
again (strong fairness of `Start`: the documentation's answer to "pending" is to
run the script again); a torn file is removed in the end (weak fairness of `Clear`; nothing in the
code does it, so it is an assumption about the operator); and kills do not hit the same call of the same job for ever
(strong fairness at `CrashPoints`). No fairness on transactions or reorganisations
is assumed: the property is about batches that are anchored out of reach.

## 4. What is proved

All for every value of the constants, from the named assumptions of the
modules: constants have their types (`ChainAssumption`, `VerifierAssumption`,
`ApprovalAssumption`, `CommitmentAssumption`, `BumpAssumption`), model values differ
(`FilesDiffer`), rule sets have numbers (`EntryAssumption`), and the operator's
confirmation count exceeds the depth of every reorganisation (`DeepEnough`; without it
no count helps).

- **Chain** (`ChainInvariant`, `LogIsTheLedger`). `LogExplainsStorage` is not inductive:
  a reorganisation exposes an older storage. The invariant says it of every height
  (`WriteOnce`, `Accounted`), numbers the blocks, and bounds the height above
  `finalized`.
- **Verifier** (`VerifierInvariant`, `TypeCorrect`). `RunInv` is what a run has
  established before each call; after `block_number` the receipt's block number is
  at most `finalized`. That much holds with reorganisations anywhere.
- **Calm reads** (`CalmInvariant`, `CalmEvidenceIsFinal`, `CalmEvidenceNamesTheAnchor`,
  `CalmLedgerRefined`). If `CalmReads`, the receipt is still on the branch when the
  block number is read, hence out of reach, hence for ever: evidence is final,
  names the only anchor, and every step maps to a step or stutter of `AnchorLedger`.
- **Any reads** (`RecheckingSettles`): evidence on the branch stays on it.
- **One process** (`SingleRunKeepsEvidence`): at most one run is between the check
  and the write.
- **Approvals** (`BatchesApproved`, `WalletsCountOnce`, `ApprovalTypes`). An accepted
  approval's signer signed exactly its fields; different signers map to
  different wallets, so the number of signers the builder counts bounds the number of
  wallets that signed. Signatures are only added, so a batch stays approved.
- **Merkle trees** (`MerkleInvariant`, `LoopBuildsTheTree`: `RootIsTree`, for batches of any
  size). Each level is a row of the tree, the part of the next level built so far is
  the beginning of the next row, and the proof each leaf has so far resolves to the node
  it is below. `MerkleTypes` needs more (`ClimbInv`): the leaves under what is left of the
  level have proofs of one length, those under the next level of one more, so a step
  never extends a proof twice.
- **What a root commits to** (`RootsCommit`: `RootCommits`; `NoForeignEntry`). Two trees with one
  root have the same height, since leaves and inner nodes are hashed apart, and the same
  rows from the root down; a node paired with itself is where the two could still have
  different lengths, and no row has a node twice (`RowsDistinct`), which rules it out. A proof that resolves to
  the root walks down the same rows. `RootCommits` quantifies over the proofs TLC can
  list, `NoForeignEntry` over every proof of any length and any hashes.
- **Commitments** (`CommitmentInvariant` and its four consequences). Ownership: the
  files that carry a run's commitment are exactly those the run has created so
  far, so no other run touches them; `Settled` is what remains once the run ends.
- **Version bump** (`BumpTypes`, `BumpRecoverable`). Every step of a process has one
  shape (`StepTo`): it changes at most one file, to empty or to a content it remembers,
  and only once git has been asked. `EditInv`: the last edit of a file is in the tree,
  or the file is empty and the edit committed; past the git check all are
  committed; what a process remembers stems from the last edit. Assumes that git answers
  (`FALSE \notin GitAnswers`): without it the statement is false.
- **Version bump, all or nothing** (`BumpRestored`, `BumpAdvanced`). `SafeInv` says, phase by
  phase, what the tree is compared with how the run found it: as it was until the first
  file is opened; then each file behind the one at hand has its new content or was
  passed over, those ahead are as they were, and the originals of all that changed are
  kept; in the rollback, what is undone is as it was. A failed run ends only when
  nothing is left to undo, and one that goes through only past the check that every file
  shows the target. Both assume that one process runs at a time (any number of runs
  after each other, with kills, faults and edits between): with two at once
  `Restored` is false, since each rolls back over what the other wrote.
- **Requests** (`ReadyIsPaid`: `ReadyIsPayable` for any balances, prices, reserves, rates and
  edits). The arithmetic first: `RoundedUp` and `RoundedUpCosts` (a cost rounded up, then
  multiplied, covers the exact cost of all batches), so that "ready" by the builder's
  computation is affordable (`ReadyIsAfforded`), and so is what the validators accept, because
  their copy computes the same (`CopiesAgree`). Then the readings:
  each question is asked once and the nonce before the balance (`Ordered`); once the nonce
  is read with nothing pending, the account has sent at least what it counts, and if it
  has sent no more it still owns what was read (`Held`). The order is what carries it:
  with the balance read first, `Held` is not inductive, and the mutant shows it.
- **Programs** (`ProgramKeepsInv`, `StagedIsEarned`, `OutputsStay`), for programs of any
  length, limits and inputs. The invariant says what a replay has earned at its counter:
  only instructions behind it have given values, each output once because
  the evaluator refuses a program that redefines an output; what is staged and emitted is
  what the transitions and emits behind it give; every assertion behind it holds.
  `ProgramTypes` adds what the limits leave (`LimitInv`, for `ProgramTypeOK`): the replay
  never runs past its program, and there is never more than one output above the limit.
- **The audit** (`AuditIsRight`: `AuditDecides`), for any fault, scenarios, ledger events
  and standalone schemas. `AuditInv`: a part of the audit that has
  something to report is still to come or has reported, and each known fault is seen by
  some part; a rule that is gone is seen even where another rule still rejects the
  negative document, for the code expected is missing. For the converse each probe is
  worked out (`ProbesAreRight`): the accepted document of each of the nineteen contracts has
  no error - the two-node trace has no cycle, the safety case resolves all its
  references - and the negative one the error expected of it.
- **Safety cases** (`LevelsAreEarned`: `AssuranceEarned` for cases of any size). A case that is
  accepted has each reference resolved and no identifier twice, so the methods counted for a
  hazard and scenario are those of tests that list the hazard.
- **Traces** (`TracesAreCausal`: `AcceptedTraceIsCausal` for graphs of any size). The classical
  invariant of depth-first search: `path` is a chain of edges, a visited node has only
  visited children, and no visited node leads to itself; the last part, that a cycle
  through visited nodes would have a node visited last whose child is not visited before
  it, is where a search that marks too early fails.
- **Audit trail** (`TrailInvariant`, `ArrivalsDoNotMatter`, `TrailsTellTheStory`), for any reports in any
  order. The events are those the collected reports derive, with a repetition exactly
  when a report came twice; a sort key belongs to one event (`KeysIdentify`: the
  identifier is a hash of all of the event, the fingerprint of its report included), so
  there is one sorted sequence of them (`SortedByIsSorted`) and it is the same for every order of arrival.
  What the ticks tell is then read off the derivation, kind by kind.
- **Explanations** (`ExplanationInvariant`, `ExplanationsAlwaysHoldUp`, `ExplainsWhatWasDecided`), for any
  graph, log, facts, trail and well-formed question. The invariant says that an answer
  is what the explainer computes from the artifacts and from an index that is finished
  or absent. The ancestors of some nodes are the least set closed under the edges into it
  (`AncestorsClimb`: the walk closes after as many rounds as there are edges), so a cause is
  neither left out nor made up.
- **Agents** (`SortKeepsCount`, `SortIsRight`, `GateKeepsInv`, `PassedIsSound`). The sort, for
  any number of steps and any dependencies between different steps: the in-degree of a
  step is the number of its dependencies not yet visited, and the queue is the set of
  unvisited steps with none. From it, a visited step comes after its dependencies, a
  step left over when the queue is empty has a dependency left over, and
  (`LengthTellsAll`, a pigeonhole argument on the length of a sequence without
  repetitions) counting visited steps decides whether all were visited. The gate, for any
  files: the errors it has are those of the files it has judged, the sort it runs is that
  of the plan at hand, and a script that answers 0 has judged every file.
- **Release** (`ReleaseTypes`, `ReplayIsExecuted`, `WhatIsListedRuns`, `ProfilePasses`), for
  every target, wrapper argument and misbehaving command. `RanSoFar` says, stage by stage, which
  tables the gate has executed; at the verdict that covers the catalog group by group
  (`CatalogIsOfTheSteps`), floors and exclusions of the current line included. `ReplayInv`
  follows the status of the two certifications to the verdict. `SuiteInv` and `ProfileInv`
  follow the wrapper: what it has collected was answered, and what it reports is decided by
  all of it. `FlakyIsNoticed` (`FlakyNeverPasses`): a command that answers differently the second
  time is recorded as failed where its table runs, and no later table writes over the
  name, because no name is in two tables but two that the native checks of v10 share
  with the table of v10.2, and these run the same command, with the same outcome. `ReleaseSafety` is the
  specification without its fairness.

Assumptions added for these: documents that pass their schema have sequences, instants and
levels where the schema puts them (`DocumentAssumption`), and so do the files at a desk
(`DeskAssumption`); a target is a sequence of numbers and some host runs the wrapper
(`RequestAssumption`, `ArgumentAssumption`); a pytest that misbehaves ends as one of `Captures`,
the replay certification is run without looking for its fixture first, and the audit
checks, which are no commands, do not misbehave (`SicknessAssumption`); a halt has one of the
three statuses of the schema and an item limit is a number (`ProgramAssumption`); there
are scenarios to test, finitely many (`ScenarioAssumption`); reports differ in their
fingerprints and list their items in a sequence (`ReportAssumption`), and a graph has
finitely many edges (`ArtifactAssumption`); amounts are natural numbers and null is neither a
number nor a truth value (`AccountAssumption`, `UnsetAssumption`). TLC evaluates all of them.

Where an argument needs induction (the sort, the search, rows of a tree, rounds of a walk,
lengths of sequences) it is done in the form the provers can use: a set of
counterexamples, taken as a set of numbers, has a least element (`WFMin` over
`NatLessThanWellFounded`).

**Only model-checked**: liveness, `AnchoringIsEvidenced` and `WrapperAnswers`, which the
provers do not reach. Every other property a passing run checks is a theorem:
`EvidenceFinal`, `EvidenceNamesTheAnchor` and `LedgerRefined` under `CalmReads`,
`EvidenceKept`, `Restored` and `Advanced` for one process, `Recoverable` where git
answers - in each case the condition without which a run of TLC, or the model, shows the
statement false.

## 5. Not modelled

Schemas, JSON canonicalisation, hashing and address formats are taken by what they
decide. RPC failures end a run with an exception and write nothing; they are the
"failed" and "refused" ends here. `PROJECT.json` gives the reason for every part that is
left out:

- **Programs v2, DSK v3, number normalisation**: arithmetic on decimals over one document.
- **Document validators, sensor evidence, watchers, bounded references**: independent field
  checks over one document; no state, order or second actor.
- **Expert routing scripts**: their reports are modelled as inputs of the audit trail and
  explainer, the selection itself is not.
- **Legacy anchoring** (`CoreAnchor.sol` and scripts): superseded by the rule anchor.
- **Tooling that reads the tree and prints**, command-line parsing, packaging, frozen
  manifests (recorded hashes) and examples.

What could come next, in this order: the selection of experts and its replay; the owner
and registry of `CoreAnchor`; the composition approval -> batch -> request -> chain ->
evidence; the writers of the tooling. To prove: that composition, from the theorems of
its parts.
