----------------------------- MODULE RuleApproval -----------------------------
(***************************************************************************)
(* From signatures to a batch manifest: external wallets sign approval     *)
(* messages while scripts/build_rule_anchor_batch.py reads frozen rule     *)
(* sets and approval documents one after another and builds the manifest   *)
(* that is anchored.  Documents are files that anybody can write, with any *)
(* content and a matching fingerprint; only signatures cannot be made up.  *)
(* What create_rule_approval_request.py and finalize_rule_approval.py      *)
(* write is among those files, so they add nothing the builder may rely    *)
(* on.                                                                     *)
(***************************************************************************)
EXTENDS Naturals, FiniteSets

CONSTANTS
    Rule,           \* frozen rule sets, each known by its fingerprint: an
                    \* amendment is another rule set
    Valid,          \* those that pass validate_frozen_rule_set_payload
    Authorized,     \* governance.authorized_signers of each
    Threshold,      \* governance.approval_threshold of each
    Wallet,         \* addresses whose keys somebody holds
    Nobody,         \* the address recovered from a signature of another text
    Place,          \* pairs of a chain_id and a verifying_contract
    Spelling,       \* ways to write the same address or signature in a
                    \* document; each gives it another fingerprint
    NoBatch,           \* no batch yet
    MaxSignatures,  \* bound: signatures made in one behaviour
    MaxApprovals    \* bound: approvals in one batch

ASSUME ApprovalAssumption ==
    /\ Valid \subseteq Rule
    /\ Authorized \in [Rule -> SUBSET Wallet]
    /\ Threshold \in [Rule -> Nat \ {0}]
    /\ IsFiniteSet(Wallet)
    /\ Nobody \notin Wallet
    /\ MaxSignatures \in Nat /\ MaxApprovals \in Nat

VARIABLES
    signed,     \* the signatures wallets have made so far
    rules,      \* indexed_rules of the build that is running
    approvals,  \* the approvals it has read and accepted so far
    batch       \* the last batch manifest built

approvalVars == <<signed, rules, approvals, batch>>
-----------------------------------------------------------------------------
\* A signature is of one approval message: a rule set for one place.
Signature == [wallet: Wallet, rule: Rule, place: Place]

\* An approval document declares who signed what; its fingerprint covers all
\* of it, the spelling included.
Approval == [rule: Rule, place: Place, signer: Wallet \cup {Nobody},
             signature: Signature, spelling: Spelling]

\* A batch manifest: each rule set of it with the approvals listed for it.
IsBatch(b) ==
    /\ b.place \in Place
    /\ DOMAIN b.entries \subseteq Rule
    /\ \A r \in DOMAIN b.entries : b.entries[r] \subseteq Approval

\* Mutant of RecoveredSigner: the message does not name chain and contract.
RecoveredAnywhere(d) ==
    IF d.signature.rule = d.rule THEN d.signature.wallet ELSE Nobody

\* recover_eip191_signer on approval_message(rule, chain, contract).
RecoveredSigner(d) ==
    IF d.signature.rule = d.rule /\ d.signature.place = d.place
    THEN d.signature.wallet ELSE Nobody

\* validate_rule_approval_payload: the recovered address is the signer's.
ApprovalValid(d) == RecoveredSigner(d) = d.signer

ApprovalsOf(r) == {d \in approvals : d.rule = r}

Signers(D) == {d.signer : d \in D}

\* Mutant of OneEachSigner: one signer may approve in several documents.
AnyNumberEach(D) == D \subseteq Approval

\* "multiple approvals from the same signer are not allowed".
OneEachSigner(D) == \A d, e \in D : d.signer = e.signer => d = e

\* The checks on one rule set of the batch.
RuleApproved(r) ==
    /\ Signers(ApprovalsOf(r)) \subseteq Authorized[r]
    /\ OneEachSigner(ApprovalsOf(r))
    /\ Cardinality(Signers(ApprovalsOf(r))) >= Threshold[r]

\* Mutant of Acceptable: the rule set need not be part of the batch.
AcceptableForAny(d) == ApprovalValid(d) /\ d \notin approvals

\* An approval is valid, new, and of a rule set of this batch.
Acceptable(d) ==
    /\ ApprovalValid(d)
    /\ d \notin approvals
    /\ d.rule \in rules

\* All approvals bind to one chain and contract: chain_contract_pairs has one
\* element.
OnePlace(p) == {d.place : d \in approvals} = {p}
-----------------------------------------------------------------------------
Idle == rules = {} /\ approvals = {}

Discard == rules' = {} /\ approvals' = {}

ApprovalInit ==
    /\ signed = {}
    /\ Idle
    /\ batch = NoBatch

\* The owner of a wallet signs an approval message outside CORE.
Sign(s) ==
    /\ Cardinality(signed) < MaxSignatures
    /\ s \in Signature
    /\ signed' = signed \cup {s}
    /\ UNCHANGED <<rules, approvals, batch>>

\* The next rule set is read: an invalid or repeated one raises.
ReadRuleSet(r) ==
    /\ approvals = {}
    /\ IF r \in Valid \ rules
       THEN rules' = rules \cup {r} /\ UNCHANGED approvals
       ELSE Discard
    /\ UNCHANGED <<signed, batch>>

\* The next approval is read: one that is not acceptable raises.
ReadApproval(d) ==
    /\ rules # {}
    /\ Cardinality(approvals) < MaxApprovals
    /\ d.signature \in signed
    /\ IF Acceptable(d)
       THEN approvals' = approvals \cup {d} /\ UNCHANGED rules
       ELSE Discard
    /\ UNCHANGED <<signed, batch>>

\* Every rule set has its approvals and all bind to one place, or the build
\* fails with nothing written.
BuildBatch ==
    /\ rules # {}
    /\ IF (\A r \in rules : RuleApproved(r)) /\ \E p \in Place : OnePlace(p)
       THEN \E p \in Place :
               /\ OnePlace(p)
               /\ batch' = [place   |-> p,
                            entries |-> [r \in rules |-> ApprovalsOf(r)]]
       ELSE UNCHANGED batch
    /\ Discard
    /\ UNCHANGED signed

ApprovalNext ==
    \/ \E s \in Signature : Sign(s)
    \/ \E r \in Rule : ReadRuleSet(r)
    \/ \E d \in Approval : ReadApproval(d)
    \/ BuildBatch

ApprovalSpec == ApprovalInit /\ [][ApprovalNext]_approvalVars
-----------------------------------------------------------------------------
ApprovalTypeOK ==
    /\ signed \subseteq Signature
    /\ rules \subseteq Valid
    /\ approvals \subseteq {d \in Approval : d.rule \in rules}
    /\ batch = NoBatch \/ IsBatch(batch)

\* The wallets that signed rule set r for place p.
SignedBy(r, p) ==
    {w \in Wallet : [wallet |-> w, rule |-> r, place |-> p] \in signed}

(* Every rule set of a batch was signed, for exactly the chain and contract of
   the batch, by at least as many of its authorised wallets as its threshold
   asks for.  (docs/FROZEN_RULE_ANCHORING.md: no signature for one rule, chain
   or contract is reused for another; build_rule_anchor_batch checks documents,
   this is about what was signed.) *)
EntriesApproved ==
    batch # NoBatch =>
        \A r \in DOMAIN batch.entries :
            Cardinality(SignedBy(r, batch.place) \cap Authorized[r])
                >= Threshold[r]

(* The approvals listed under one rule set of a batch are of different wallets,
   each of which signed it: respelling an address or a signature does not make
   a second approval. *)
OneApprovalPerWallet ==
    batch # NoBatch =>
        \A r \in DOMAIN batch.entries :
            \A d, e \in batch.entries[r] :
                /\ d.signature \in signed
                /\ d.signature.wallet = e.signature.wallet => d = e
=============================================================================
