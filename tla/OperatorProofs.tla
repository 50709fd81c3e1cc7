--------------------------- MODULE OperatorProofs ----------------------------
(***************************************************************************)
(* Theorems about what the operators' scripts write down before anything   *)
(* is on a chain: batch manifests, private commitments and unsigned        *)
(* transactions.  The three share no state.                                *)
(*                                                                         *)
(* Approvals: a manifest lists only what was signed, for any wallets, rule *)
(* sets, deployments and documents (ApprovalInvariant).                    *)
(*                                                                         *)
(* Private commitments: the files, for any number of processes, paths and  *)
(* runs, from what each active run has written (CommitmentInvariant).      *)
(*                                                                         *)
(* Unsigned transactions: a cost that is rounded up covers the exact one,  *)
(* so a request that is "ready" by the computation of its builder or       *)
(* validator is affordable (ReadyIsAfforded), and one its validator        *)
(* accepts is in order (AcceptedIsInOrder).  The nonce is read before the  *)
(* balance (ReadInv), so when the nonce is still the next one nothing was  *)
(* paid between the two readings or since (ReadyIsPaid).                   *)
(***************************************************************************)
EXTENDS RuleApproval, PrivateCommitment, AnchorPreparation, FiniteSetTheorems,
        SequenceTheorems, TLAPS

-----------------------------------------------------------------------------
(* Approvals.                                                              *)

\* What the builder knows of the approvals it has read.
ApprovalsReadInv ==
    /\ IsFiniteSet(approvals)
    /\ \A d \in approvals : ApprovalValid(d) /\ d.signature \in signed

ApprovalInv ==
    /\ ApprovalTypeOK
    /\ ApprovalsReadInv
    /\ EntriesApproved
    /\ OneApprovalPerWallet

-----------------------------------------------------------------------------
\* An authorised signer of a valid approval has signed its rule set for its
\* place.
LEMMA SignerSigned ==
    ASSUME NEW d \in Approval, ApprovalValid(d), d.signature \in signed,
           d.signer \in Wallet
    PROVE  /\ d.signer \in SignedBy(d.rule, d.place)
           /\ d.signature.wallet = d.signer
<1>1. /\ d.signature.rule = d.rule /\ d.signature.place = d.place
      /\ d.signature.wallet = d.signer
  BY ApprovalAssumption DEF ApprovalValid, RecoveredSigner
<1>2. d.signature
        = [wallet |-> d.signer, rule |-> d.rule, place |-> d.place]
  BY <1>1 DEF Approval, Signature
<1> QED
  BY <1>1, <1>2 DEF SignedBy

\* The checks of the builder make an entry approved.
LEMMA EntryApproved ==
    ASSUME ApprovalTypeOK, ApprovalsReadInv, NEW r \in rules, RuleApproved(r),
           NEW p \in Place, OnePlace(p)
    PROVE  /\ Cardinality(SignedBy(r, p) \cap Authorized[r]) >= Threshold[r]
           /\ \A d, e \in ApprovalsOf(r) :
                 /\ d.signature \in signed
                 /\ d.signature.wallet = e.signature.wallet => d = e
<1> DEFINE W == SignedBy(r, p) \cap Authorized[r]
<1>0. r \in Rule /\ Authorized[r] \subseteq Wallet /\ Threshold[r] \in Nat
  BY ApprovalAssumption DEF ApprovalTypeOK
<1>1. ASSUME NEW d \in ApprovalsOf(r)
      PROVE  /\ d.signer \in W
             /\ d.signature.wallet = d.signer
             /\ d.signature \in signed
  <2>1. /\ d \in Approval /\ d \in approvals /\ d.rule = r
        /\ ApprovalValid(d) /\ d.signature \in signed
    BY DEF ApprovalsOf, ApprovalTypeOK, ApprovalsReadInv
  <2>2. d.signer \in Authorized[r]
    BY DEF RuleApproved, Signers
  <2>3. d.place = p
    BY <2>1 DEF OnePlace
  <2> QED
    BY <1>0, <2>1, <2>2, <2>3, SignerSigned
<1>2. Signers(ApprovalsOf(r)) \subseteq W
  BY <1>1 DEF Signers
<1>3. IsFiniteSet(W)
  <2>1. W \subseteq Wallet
    BY <1>0
  <2> QED
    BY <2>1, FS_Subset, ApprovalAssumption
<1>4. Cardinality(W) >= Threshold[r]
  <2>1. /\ IsFiniteSet(Signers(ApprovalsOf(r)))
        /\ Cardinality(Signers(ApprovalsOf(r))) <= Cardinality(W)
    BY <1>2, <1>3, FS_Subset
  <2>2. /\ Cardinality(W) \in Nat
        /\ Cardinality(Signers(ApprovalsOf(r))) \in Nat
    BY <1>3, <2>1, FS_CardinalityType
  <2>3. Cardinality(Signers(ApprovalsOf(r))) >= Threshold[r]
    BY DEF RuleApproved
  <2> QED
    BY <1>0, <2>1, <2>2, <2>3
<1>5. ASSUME NEW d \in ApprovalsOf(r), NEW e \in ApprovalsOf(r),
             d.signature.wallet = e.signature.wallet
      PROVE  d = e
  BY <1>1, <1>5 DEF RuleApproved, OneEachSigner
<1> QED
  BY <1>1, <1>4, <1>5

\* A batch stays approved when more is signed.
LEMMA BatchFrame ==
    ASSUME ApprovalInv, signed \subseteq signed', UNCHANGED batch
    PROVE  EntriesApproved' /\ OneApprovalPerWallet'
<1>1. OneApprovalPerWallet'
  BY DEF ApprovalInv, OneApprovalPerWallet
<1>2. ASSUME batch # NoBatch, NEW r \in DOMAIN batch.entries
      PROVE  Cardinality(SignedBy(r, batch.place)' \cap Authorized[r])
                 >= Threshold[r]
  <2> DEFINE W == SignedBy(r, batch.place) \cap Authorized[r]
             V == SignedBy(r, batch.place)' \cap Authorized[r]
  <2>1. r \in Rule /\ Threshold[r] \in Nat
    BY <1>2, ApprovalAssumption DEF ApprovalInv, ApprovalTypeOK, IsBatch
  <2>2. W \subseteq V /\ V \subseteq Wallet
    BY DEF SignedBy
  <2>3. IsFiniteSet(V)
    BY <2>2, FS_Subset, ApprovalAssumption
  <2>4. /\ IsFiniteSet(W) /\ Cardinality(W) <= Cardinality(V)
        /\ Cardinality(W) \in Nat /\ Cardinality(V) \in Nat
    BY <2>2, <2>3, FS_Subset, FS_CardinalityType
  <2>5. Cardinality(W) >= Threshold[r]
    BY <1>2 DEF ApprovalInv, EntriesApproved
  <2> QED
    BY <2>1, <2>4, <2>5
<1> QED
  BY <1>1, <1>2 DEF EntriesApproved

LEMMA ApprovalInvStep ==
    ASSUME ApprovalInv, [ApprovalNext]_approvalVars
    PROVE  ApprovalInv'
<1>0. ApprovalTypeOK /\ ApprovalsReadInv /\ EntriesApproved /\ OneApprovalPerWallet
  BY DEF ApprovalInv
<1>1. CASE UNCHANGED approvalVars
  <2>1. EntriesApproved' /\ OneApprovalPerWallet'
    BY <1>1, BatchFrame DEF approvalVars
  <2> QED
    BY <1>0, <1>1, <2>1
       DEF ApprovalInv, ApprovalTypeOK, ApprovalsReadInv, approvalVars, IsBatch, ApprovalValid,
           RecoveredSigner
<1>2. ASSUME NEW s \in Signature, Sign(s) PROVE ApprovalInv'
  <2>1. EntriesApproved' /\ OneApprovalPerWallet'
    BY <1>2, BatchFrame DEF Sign
  <2>2. ApprovalTypeOK'
    BY <1>0, <1>2 DEF Sign, ApprovalTypeOK, IsBatch
  <2>3. ApprovalsReadInv'
    BY <1>0, <1>2 DEF Sign, ApprovalsReadInv, ApprovalValid, RecoveredSigner
  <2> QED
    BY <2>1, <2>2, <2>3 DEF ApprovalInv
<1>3. IsFiniteSet({})
  BY FS_EmptySet
<1>4. ASSUME NEW r \in Rule, ReadRuleSet(r) PROVE ApprovalInv'
  <2>1. EntriesApproved' /\ OneApprovalPerWallet'
    BY <1>4, BatchFrame DEF ReadRuleSet
  <2>2. ApprovalTypeOK'
    BY <1>0, <1>4 DEF ReadRuleSet, Discard, ApprovalTypeOK, IsBatch
  <2>3. ApprovalsReadInv'
    BY <1>0, <1>3, <1>4 DEF ReadRuleSet, Discard, ApprovalsReadInv
  <2> QED
    BY <2>1, <2>2, <2>3 DEF ApprovalInv
<1>5. ASSUME NEW d \in Approval, ReadApproval(d) PROVE ApprovalInv'
  <2>1. EntriesApproved' /\ OneApprovalPerWallet'
    BY <1>5, BatchFrame DEF ReadApproval
  <2>2. ApprovalTypeOK'
    BY <1>0, <1>5 DEF ReadApproval, Acceptable, Discard, ApprovalTypeOK, IsBatch
  <2>3. ApprovalsReadInv'
    <3>1. CASE Discard
      BY <1>3, <3>1 DEF Discard, ApprovalsReadInv
    <3>2. CASE approvals' = approvals \cup {d} /\ Acceptable(d)
      <4>1. IsFiniteSet(approvals')
        BY <1>0, <3>2, FS_AddElement DEF ApprovalsReadInv
      <4> QED
        BY <1>0, <1>5, <3>2, <4>1
           DEF ReadApproval, ApprovalsReadInv, Acceptable, ApprovalValid, RecoveredSigner
    <3> QED
      BY <1>5, <3>1, <3>2 DEF ReadApproval
  <2> QED
    BY <2>1, <2>2, <2>3 DEF ApprovalInv
<1>6. ASSUME BuildBatch PROVE ApprovalInv'
  <2>1. ApprovalsReadInv'
    BY <1>3, <1>6 DEF BuildBatch, Discard, ApprovalsReadInv
  <2>2. CASE UNCHANGED batch
    <3>1. EntriesApproved' /\ OneApprovalPerWallet'
      BY <1>6, <2>2, BatchFrame DEF BuildBatch
    <3>2. ApprovalTypeOK'
      BY <1>0, <1>6, <2>2 DEF BuildBatch, Discard, ApprovalTypeOK, IsBatch
    <3> QED
      BY <2>1, <3>1, <3>2 DEF ApprovalInv
  <2>3. ASSUME \A r \in rules : RuleApproved(r),
               NEW p \in Place, OnePlace(p),
               batch' = [place   |-> p,
                         entries |-> [r \in rules |-> ApprovalsOf(r)]]
        PROVE  ApprovalInv'
    <3>1. /\ DOMAIN batch'.entries = rules
          /\ batch'.place = p
          /\ \A r \in rules : batch'.entries[r] = ApprovalsOf(r)
      BY <2>3
    <3>2. signed' = signed
      BY <1>6 DEF BuildBatch
    <3>3. EntriesApproved' /\ OneApprovalPerWallet'
      <4>1. ASSUME NEW r \in rules
            PROVE  /\ Cardinality(SignedBy(r, p) \cap Authorized[r])
                          >= Threshold[r]
                   /\ \A d, e \in ApprovalsOf(r) :
                         /\ d.signature \in signed
                         /\ d.signature.wallet = e.signature.wallet => d = e
        BY <1>0, <2>3, EntryApproved
      <4>2. \A r : SignedBy(r, batch.place)' = SignedBy(r, p)
        BY <3>1, <3>2 DEF SignedBy
      <4>3. EntriesApproved'
        BY <3>1, <4>1, <4>2 DEF EntriesApproved
      <4>4. OneApprovalPerWallet'
        <5> SUFFICES ASSUME NEW r \in DOMAIN batch'.entries,
                            NEW d \in batch'.entries[r],
                            NEW e \in batch'.entries[r]
                     PROVE  /\ d.signature \in signed'
                            /\ d.signature.wallet = e.signature.wallet => d = e
          BY DEF OneApprovalPerWallet
        <5>1. r \in rules /\ d \in ApprovalsOf(r) /\ e \in ApprovalsOf(r)
          BY <3>1
        <5> QED
          BY <3>2, <4>1, <5>1
      <4> QED
        BY <4>3, <4>4
    <3>4. IsBatch(batch)'
      <4>1. rules \subseteq Rule
        BY <1>0, ApprovalAssumption DEF ApprovalTypeOK
      <4>2. \A r \in rules : ApprovalsOf(r) \subseteq Approval
        BY <1>0 DEF ApprovalTypeOK, ApprovalsOf
      <4> QED
        BY <2>3, <3>1, <4>1, <4>2 DEF IsBatch
    <3>5. ApprovalTypeOK'
      BY <1>0, <1>6, <3>2, <3>4 DEF BuildBatch, Discard, ApprovalTypeOK
    <3> QED
      BY <2>1, <3>3, <3>5 DEF ApprovalInv
  <2> QED
    BY <1>6, <2>2, <2>3 DEF BuildBatch
<1> QED
  BY <1>1, <1>2, <1>4, <1>5, <1>6 DEF ApprovalNext

\* The invariant of the builder.
THEOREM ApprovalInvariant == ApprovalSpec => []ApprovalInv
<1>1. ApprovalInit => ApprovalInv
  <2> SUFFICES ASSUME ApprovalInit PROVE ApprovalInv
    OBVIOUS
  <2>1. signed = {} /\ rules = {} /\ approvals = {} /\ batch = NoBatch
    BY DEF ApprovalInit, Idle
  <2>2. IsFiniteSet({})
    BY FS_EmptySet
  <2> QED
    BY <2>1, <2>2 DEF ApprovalInv, ApprovalTypeOK, ApprovalsReadInv, EntriesApproved,
                      OneApprovalPerWallet
<1>2. ApprovalInv /\ [ApprovalNext]_approvalVars => ApprovalInv'
  BY ApprovalInvStep
<1> QED
  BY <1>1, <1>2, PTL DEF ApprovalSpec

\* Type correctness: the builder holds valid rule sets and approvals of them.
THEOREM ApprovalTypes == ApprovalSpec => []ApprovalTypeOK
<1>1. ApprovalInv => ApprovalTypeOK
  BY DEF ApprovalInv
<1> QED
  BY <1>1, ApprovalInvariant, PTL

\* No batch without the signatures its rule sets ask for, whatever documents
\* the builder is given.
THEOREM BatchesApproved == ApprovalSpec => []EntriesApproved
<1>1. ApprovalInv => EntriesApproved
  BY DEF ApprovalInv
<1> QED
  BY <1>1, ApprovalInvariant, PTL

\* No wallet counts twice for one rule set of a batch.
THEOREM WalletsCountOnce == ApprovalSpec => []OneApprovalPerWallet
<1>1. ApprovalInv => OneApprovalPerWallet
  BY DEF ApprovalInv
<1> QED
  BY <1>1, ApprovalInvariant, PTL

-----------------------------------------------------------------------------
(* Private commitments.                                                    *)

Active(v) == ~At(v, "idle")

\* Each active run has a commitment of its own, and its outcome is open.
OwnCommitment ==
    \A v \in Runner :
        Active(v) =>
            /\ outcome[run[v].commitment] = "running"
            /\ \A w \in Runner :
                  Active(w) /\ run[w].commitment = run[v].commitment => w = v

\* The files an active run has created, and how far each is written.
Wrote(v) ==
    LET c == run[v].commitment
        o == run[v].opening
        q == run[v].public
    IN  /\ run[v].pc \in {"write_opening", "unlink_opening"} =>
              files[o] = Torn(c)
        /\ run[v].pc \in {"create_public", "write_public", "unlink_public",
                          "undo_opening", "report"} => files[o] = Opening(c)
        /\ run[v].pc \in {"write_public", "unlink_public"} =>
              files[q] = Torn(c)
        /\ run[v].pc = "report" => files[q] = Envelope(c)
        /\ \A p \in Path :
              IsOf(p, c) =>
                  \/ p = o /\ run[v].pc # "create_opening"
                  \/ p = q /\ run[v].pc \in {"write_public", "unlink_public",
                                             "report"}

\* What is on disk of one commitment, given how its run ended.
Settled(c) ==
    /\ outcome[c] \in {"new", "failed"} => \A p \in Path : ~IsOf(p, c)
    /\ \A p \in Path : files[p] = Envelope(c) => Holds(c, Opening(c))
    /\ outcome[c] = "passed" =>
          Holds(c, Opening(c)) /\ \E p \in Path : files[p] = Envelope(c)

CommitmentInv ==
    /\ TypeOK
    /\ OwnCommitment
    /\ \A v \in Runner : Active(v) => Wrote(v)
    /\ \A c \in Commitment : Settled(c)

\* A step leaves every commitment but c alone.
OnlyFor(c) ==
    \A d \in Commitment \ {c} :
        /\ outcome'[d] = outcome[d]
        /\ \A q \in Path :
              /\ IsOf(q, d)' <=> IsOf(q, d)
              /\ IsOf(q, d) => files'[q] = files[q]
\* A step changes at most one file, which was free or of c, and is so after it.
Touches(c) ==
    \/ UNCHANGED files
    \/ \E p \in Path, x \in Content \cup {None} :
          /\ files[p] = None \/ files[p].commitment = c
          /\ x = None \/ x.commitment = c
          /\ files' = [files EXCEPT ![p] = x]
-----------------------------------------------------------------------------
LEMMA Kinds ==
    ASSUME NEW c \in Commitment
    PROVE  /\ Torn(c) \in Content /\ Opening(c) \in Content
           /\ Envelope(c) \in Content
           /\ Torn(c).commitment = c /\ Opening(c).commitment = c
           /\ Envelope(c).commitment = c
           /\ Torn(c).kind = "torn" /\ Opening(c).kind = "opening"
           /\ Envelope(c).kind = "envelope"
           /\ Torn(c) # None /\ Opening(c) # None /\ Envelope(c) # None
  BY CommitmentAssumption DEF Content, Torn, Opening, Envelope

LEMMA Touched ==
    ASSUME TypeOK, NEW c \in Commitment, Touches(c),
           \A d \in Commitment \ {c} : outcome'[d] = outcome[d]
    PROVE  /\ files' \in [Path -> Content \cup {None}]
           /\ OnlyFor(c)
<1>1. CASE UNCHANGED files
  BY <1>1 DEF TypeOK, OnlyFor, IsOf
<1>2. ASSUME NEW p \in Path, NEW x \in Content \cup {None},
             files[p] = None \/ files[p].commitment = c,
             x = None \/ x.commitment = c,
             files' = [files EXCEPT ![p] = x]
      PROVE  files' \in [Path -> Content \cup {None}] /\ OnlyFor(c)
  <2>1. /\ files' \in [Path -> Content \cup {None}]
        /\ files'[p] = x
        /\ \A q \in Path \ {p} : files'[q] = files[q]
    BY <1>2 DEF TypeOK
  <2>2. ASSUME NEW d \in Commitment \ {c}, NEW q \in Path
        PROVE  /\ IsOf(q, d)' <=> IsOf(q, d)
               /\ IsOf(q, d) => files'[q] = files[q]
    <3>1. CASE q = p
      BY <1>2, <2>1, <3>1 DEF IsOf
    <3>2. CASE q # p
      BY <2>1, <3>2 DEF IsOf
    <3> QED
      BY <3>1, <3>2
  <2> QED
    BY <2>1, <2>2 DEF OnlyFor
<1> QED
  BY <1>1, <1>2 DEF Touches

LEMMA OthersSettled ==
    ASSUME TypeOK, NEW c \in Commitment, OnlyFor(c),
           NEW d \in Commitment \ {c}, Settled(d)
    PROVE  Settled(d)'
<1>1. ASSUME NEW q \in Path, NEW k \in Content, k.commitment = d
      PROVE  files'[q] = k <=> files[q] = k
  BY <1>1, CommitmentAssumption DEF OnlyFor, IsOf
<1>2. \A q \in Path : /\ files'[q] = Opening(d) <=> files[q] = Opening(d)
                      /\ files'[q] = Envelope(d) <=> files[q] = Envelope(d)
  BY <1>1, Kinds
<1>3. \A q \in Path : IsOf(q, d)' <=> IsOf(q, d)
  BY DEF OnlyFor
<1>4. outcome'[d] = outcome[d]
  BY DEF OnlyFor
<1>5. Holds(d, Opening(d))' <=> Holds(d, Opening(d))
  BY <1>2, CommitmentAssumption DEF Holds
<1> QED
  BY <1>2, <1>3, <1>4, <1>5 DEF Settled

LEMMA OthersWrote ==
    ASSUME TypeOK, NEW c \in Commitment, OnlyFor(c),
           NEW w \in Runner, Active(w), Wrote(w),
           run'[w] = run[w], run[w].commitment # c
    PROVE  Wrote(w)'
<1> DEFINE d == run[w].commitment
<1>1. d \in Commitment /\ run[w].opening \in Path /\ run[w].public \in Path
  BY CommitmentAssumption DEF TypeOK, RunState, Active, At, Rest
<1>2. ASSUME NEW q \in Path, NEW k \in Content, k.commitment = d
      PROVE  files'[q] = k <=> files[q] = k
  BY <1>1, <1>2, CommitmentAssumption DEF OnlyFor, IsOf
<1>3. \A q \in Path : /\ files'[q] = Torn(d) <=> files[q] = Torn(d)
                      /\ files'[q] = Opening(d) <=> files[q] = Opening(d)
                      /\ files'[q] = Envelope(d) <=> files[q] = Envelope(d)
  BY <1>1, <1>2, Kinds
<1>4. \A q \in Path : IsOf(q, d)' <=> IsOf(q, d)
  BY <1>1 DEF OnlyFor
<1> QED
  BY <1>1, <1>3, <1>4 DEF Wrote

-----------------------------------------------------------------------------
\* A step of the run v for commitment c keeps the invariant if it does so for
\* v and c.
LEMMA ForOne ==
    ASSUME CommitmentInv, TypeOK', NEW c \in Commitment, OnlyFor(c), NEW v,
           \A w \in Runner :
              \/ run'[w] = run[w] /\ (Active(w) => run[w].commitment # c)
              \/ /\ w = v
                 /\ Active(v)' => /\ run'[v].commitment = c
                                  /\ outcome'[c] = "running"
                                  /\ Wrote(v)',
           Settled(c)'
    PROVE  CommitmentInv'
<1>1. \A d \in Commitment : Settled(d)'
  BY OthersSettled DEF CommitmentInv
<1> DEFINE Other(w) ==
        run'[w] = run[w] /\ (Active(w) => run[w].commitment # c)
<1>2. ASSUME NEW w \in Runner, Active(w)'
      PROVE  Wrote(w)'
  <2>1. CASE ~Other(w)
    BY <1>2, <2>1
  <2>2. CASE Other(w)
    <3>1. run'[w] = run[w] /\ Active(w) /\ run[w].commitment # c
      BY <1>2, <2>2 DEF Active, At
    <3> QED
      BY <3>1, OthersWrote DEF CommitmentInv
  <2> QED
    BY <2>1, <2>2
<1>3. OwnCommitment'
  <2>1. \A w \in Runner :
           Other(w) /\ Active(w)' =>
              /\ Active(w)
              /\ run'[w].commitment = run[w].commitment
              /\ run'[w].commitment \in Commitment \ {c}
    BY CommitmentAssumption
    DEF CommitmentInv, TypeOK, RunState, Active, At, Rest
  <2>2. \A w \in Runner :
           Other(w) /\ Active(w)' => outcome'[run'[w].commitment] = "running"
    BY <2>1 DEF OnlyFor, CommitmentInv, OwnCommitment
  <2>3. \A w, u \in Runner :
           Active(w)' /\ Active(u)' /\ run'[u].commitment = run'[w].commitment
              => u = w
    BY <2>1 DEF CommitmentInv, OwnCommitment
  <2> QED
    BY <2>1, <2>2, <2>3 DEF OwnCommitment, Active, At
<1> QED
  BY <1>1, <1>2, <1>3 DEF CommitmentInv

\* What is known of an active run.
LEMMA ActiveRun ==
    ASSUME CommitmentInv, NEW v \in Runner, Active(v)
    PROVE  /\ run[v].commitment \in Commitment
           /\ run[v].opening \in Path \ Public
           /\ run[v].public \in Path
           /\ run[v].pc \in Steps
           /\ Wrote(v)
           /\ outcome[run[v].commitment] = "running"
           /\ \A w \in Runner \ {v} :
                 Active(w) => run[w].commitment # run[v].commitment
  BY DEF CommitmentInv, TypeOK, RunState, OwnCommitment, Active, At, Rest

LEMMA StartKeeps ==
    ASSUME CommitmentInv, NEW v \in Runner, NEW o \in Path, NEW p \in Path,
           NEW c \in Commitment, Start(v, o, p, c)
    PROVE  CommitmentInv'
<1>1. TypeOK'
  BY DEF Start, CommitmentInv, TypeOK, RunState, Steps
<1>2. OnlyFor(c)
  BY DEF Start, OnlyFor, IsOf, CommitmentInv, TypeOK
<1>3. \A q \in Path : ~IsOf(q, c)'
  BY DEF Start, IsOf, CommitmentInv, Settled
<1>4. \A w \in Runner \ {v} :
         run'[w] = run[w] /\ (Active(w) => run[w].commitment # c)
  BY DEF Start, CommitmentInv, TypeOK, OwnCommitment
<1>5. /\ run'[v].commitment = c /\ run'[v].pc = "create_opening"
      /\ outcome'[c] = "running"
  BY DEF Start, CommitmentInv, TypeOK
<1>6. Wrote(v)'
  BY <1>3, <1>5 DEF Wrote
<1>7. \A q \in Path : files'[q] # Envelope(c)
  BY <1>3, Kinds DEF IsOf
<1>8. Settled(c)'
  BY <1>3, <1>5, <1>7 DEF Settled
<1> QED
  BY <1>1, <1>2, <1>4, <1>5, <1>6, <1>8, ForOne

\* A step of run v that goes on.
LEMMA Continues ==
    ASSUME CommitmentInv, NEW v \in Runner, Active(v),
           NEW c \in Commitment, c = run[v].commitment,
           NEW step \in Steps,
           Proceed(v, step), UNCHANGED outcome,
           Touches(c),
           Wrote(v)', Settled(c)'
    PROVE  CommitmentInv'
<1>1. outcome[c] = "running"
  BY ActiveRun
<1>2. OnlyFor(c) /\ files' \in [Path -> Content \cup {None}]
  BY Touched DEF CommitmentInv
<1>3. TypeOK'
  BY <1>2, ActiveRun
  DEF CommitmentInv, TypeOK, Proceed, RunState, Rest, Active, At
<1>4. run'[v].commitment = c /\ \A w \in Runner \ {v} : run'[w] = run[w]
  BY DEF CommitmentInv, TypeOK, Proceed, RunState, Rest
<1> QED
  BY <1>1, <1>2, <1>3, <1>4, ActiveRun, ForOne

\* A step of run v that ends it.
LEMMA Ends ==
    ASSUME CommitmentInv, NEW v \in Runner, Active(v),
           NEW c \in Commitment, c = run[v].commitment,
           NEW how \in {"passed", "failed", "killed"}, End(v, how),
           Touches(c),
           Settled(c)'
    PROVE  CommitmentInv'
<1>1. \A d \in Commitment \ {c} : outcome'[d] = outcome[d]
  BY DEF CommitmentInv, TypeOK, End
<1>2. OnlyFor(c) /\ files' \in [Path -> Content \cup {None}]
  BY <1>1, Touched DEF CommitmentInv
<1>3. TypeOK'
  BY <1>2 DEF CommitmentInv, TypeOK, End, RunState
<1>4. ~Active(v)' /\ \A w \in Runner \ {v} : run'[w] = run[w]
  BY DEF CommitmentInv, TypeOK, End, Rest, Active, At
<1> QED
  BY <1>2, <1>3, <1>4, ActiveRun, ForOne

\* The run v, with the rigid values c, o and q of its variables.
RunIs(v, step, c, o, q) ==
    /\ run[v].pc = step
    /\ run[v].commitment = c
    /\ run[v].opening = o
    /\ run[v].public = q

LEMMA Moved ==
    ASSUME CommitmentInv, NEW v \in Runner, Active(v), NEW step \in Steps,
           Proceed(v, step), NEW c, NEW o, NEW q, NEW pc,
           RunIs(v, pc, c, o, q)
    PROVE  RunIs(v, step, c, o, q)'
  BY DEF CommitmentInv, TypeOK, Proceed, RunState, Rest, RunIs, Active, At

LEMMA Ended ==
    ASSUME CommitmentInv, NEW v \in Runner, NEW c \in Commitment,
           c = run[v].commitment, NEW how, End(v, how)
    PROVE  outcome'[c] = how
  BY DEF CommitmentInv, TypeOK, End

LEMMA NothingLeft ==
    ASSUME NEW c \in Commitment, \A p \in Path : ~IsOf(p, c)',
           outcome'[c] # "passed"
    PROVE  Settled(c)'
  BY Kinds DEF Settled, IsOf

LEMMA Unpublished ==
    ASSUME NEW c \in Commitment, outcome'[c] \in {"running", "killed"},
           \A p \in Path : files'[p] # Envelope(c)
    PROVE  Settled(c)'
  BY DEF Settled

LEMMA CreateOpeningKeeps ==
    ASSUME CommitmentInv, NEW v \in Runner, NEW c \in Commitment,
           NEW o \in Path, NEW q \in Path, RunIs(v, "create_opening", c, o, q),
           CreateOpening(v)
    PROVE  CommitmentInv'
<1>1. Active(v) /\ run[v].commitment = c /\ run[v].opening = o
  BY DEF RunIs, Active, At
<1>2. \A p \in Path : ~IsOf(p, c)
  BY <1>1, ActiveRun DEF Wrote, RunIs
<1>3. CASE /\ files[o] = None
           /\ files' = [files EXCEPT ![o] = Torn(c)]
           /\ Proceed(v, "write_opening")
           /\ UNCHANGED outcome
  <2>1. Touches(c)
    BY <1>3, Kinds DEF Touches
  <2>2. /\ files'[o] = Torn(c)
        /\ \A p \in Path \ {o} : files'[p] = files[p] /\ ~IsOf(p, c)'
    BY <1>2, <1>3 DEF CommitmentInv, TypeOK, IsOf
  <2>3. RunIs(v, "write_opening", c, o, q)'
    BY <1>1, <1>3, Moved DEF Steps
  <2>4. Wrote(v)'
    BY <2>2, <2>3 DEF Wrote, RunIs
  <2>5. \A p \in Path : files'[p] # Envelope(c)
    BY <2>2, Kinds DEF IsOf
  <2>6. Settled(c)'
    BY <1>1, <1>3, <2>5, ActiveRun, Unpublished
  <2> QED
    BY <1>1, <1>3, <2>1, <2>4, <2>6, Continues DEF Steps
<1>4. CASE End(v, "failed") /\ UNCHANGED files
  <2>1. Settled(c)'
    BY <1>1, <1>2, <1>4, Ended, NothingLeft DEF IsOf
  <2> QED
    BY <1>1, <1>4, <2>1, Ends DEF Touches
<1> QED
  BY <1>1, <1>3, <1>4 DEF CreateOpening, Create

LEMMA WriteOpeningKeeps ==
    ASSUME CommitmentInv, NEW v \in Runner, NEW c \in Commitment,
           NEW o \in Path, NEW q \in Path, RunIs(v, "write_opening", c, o, q),
           WriteOpening(v)
    PROVE  CommitmentInv'
<1>1. Active(v) /\ run[v].commitment = c /\ run[v].opening = o
  BY DEF RunIs, Active, At
<1>2. files[o] = Torn(c) /\ \A p \in Path \ {o} : ~IsOf(p, c)
  BY <1>1, ActiveRun DEF Wrote, RunIs
<1>3. CASE /\ files' = [files EXCEPT ![o] = Opening(c)]
           /\ Proceed(v, "create_public")
           /\ UNCHANGED outcome
  <2>1. Touches(c)
    BY <1>2, <1>3, Kinds DEF Touches
  <2>2. /\ files'[o] = Opening(c)
        /\ \A p \in Path \ {o} : files'[p] = files[p] /\ ~IsOf(p, c)'
    BY <1>2, <1>3 DEF CommitmentInv, TypeOK, IsOf
  <2>3. RunIs(v, "create_public", c, o, q)'
    BY <1>1, <1>3, Moved DEF Steps
  <2>4. Wrote(v)'
    BY <2>2, <2>3 DEF Wrote, RunIs
  <2>5. \A p \in Path : files'[p] # Envelope(c)
    BY <2>2, Kinds DEF IsOf
  <2>6. Settled(c)'
    BY <1>1, <1>3, <2>5, ActiveRun, Unpublished
  <2> QED
    BY <1>1, <1>3, <2>1, <2>4, <2>6, Continues DEF Steps
<1>4. CASE Proceed(v, "unlink_opening") /\ UNCHANGED <<files, outcome>>
  <2>1. RunIs(v, "unlink_opening", c, o, q)'
    BY <1>1, <1>4, Moved DEF Steps
  <2>2. Wrote(v)'
    BY <1>2, <1>4, <2>1 DEF Wrote, RunIs, IsOf
  <2>3. \A p \in Path : files'[p] # Envelope(c)
    BY <1>2, <1>4, Kinds DEF IsOf
  <2>4. Settled(c)'
    BY <1>1, <1>4, <2>3, ActiveRun, Unpublished
  <2> QED
    BY <1>1, <1>4, <2>2, <2>4, Continues DEF Steps, Touches
<1> QED
  BY <1>1, <1>3, <1>4 DEF WriteOpening, Write

\* A run that removes the one file it still has, and ends.
LEMMA RemovesLast ==
    ASSUME CommitmentInv, NEW v \in Runner, NEW c \in Commitment,
           NEW o \in Path, NEW q \in Path, NEW step \in Steps,
           step \in {"unlink_opening", "undo_opening"},
           RunIs(v, step, c, o, q), Unlink(o), End(v, "failed")
    PROVE  CommitmentInv'
<1>1. Active(v) /\ run[v].commitment = c /\ run[v].opening = o
  BY DEF RunIs, Active, At
<1>2. /\ files[o] \in {Torn(c), Opening(c)}
      /\ \A p \in Path \ {o} : ~IsOf(p, c)
  BY <1>1, ActiveRun DEF Wrote, RunIs
<1>3. Touches(c)
  BY <1>2, Kinds DEF Touches, Unlink
<1>4. \A p \in Path : ~IsOf(p, c)'
  BY <1>2 DEF IsOf, CommitmentInv, TypeOK, Unlink
<1>5. Settled(c)'
  BY <1>1, <1>4, Ended, NothingLeft
<1> QED
  BY <1>1, <1>3, <1>5, Ends

LEMMA CreatePublicKeeps ==
    ASSUME CommitmentInv, NEW v \in Runner, NEW c \in Commitment,
           NEW o \in Path, NEW q \in Path, RunIs(v, "create_public", c, o, q),
           CreatePublic(v)
    PROVE  CommitmentInv'
<1>1. /\ Active(v) /\ run[v].commitment = c
      /\ run[v].opening = o /\ run[v].public = q
  BY DEF RunIs, Active, At
<1>2. files[o] = Opening(c) /\ \A p \in Path \ {o} : ~IsOf(p, c)
  BY <1>1, ActiveRun DEF Wrote, RunIs
<1>3. CASE /\ files[q] = None
           /\ files' = [files EXCEPT ![q] = Torn(c)]
           /\ Proceed(v, "write_public")
           /\ UNCHANGED outcome
  <2>1. Touches(c)
    BY <1>3, Kinds DEF Touches
  <2>2. /\ o # q
        /\ files'[q] = Torn(c) /\ files'[o] = Opening(c)
        /\ \A p \in Path \ {o, q} : files'[p] = files[p] /\ ~IsOf(p, c)'
    BY <1>2, <1>3, Kinds DEF CommitmentInv, TypeOK, IsOf
  <2>3. RunIs(v, "write_public", c, o, q)'
    BY <1>1, <1>3, Moved DEF Steps
  <2>4. Wrote(v)'
    BY <2>2, <2>3 DEF Wrote, RunIs
  <2>5. \A p \in Path : files'[p] # Envelope(c)
    BY <2>2, Kinds DEF IsOf
  <2>6. Settled(c)'
    BY <1>1, <1>3, <2>5, ActiveRun, Unpublished
  <2> QED
    BY <1>1, <1>3, <2>1, <2>4, <2>6, Continues DEF Steps
<1>4. CASE Proceed(v, "undo_opening") /\ UNCHANGED <<files, outcome>>
  <2>1. RunIs(v, "undo_opening", c, o, q)'
    BY <1>1, <1>4, Moved DEF Steps
  <2>2. Wrote(v)'
    BY <1>2, <1>4, <2>1 DEF Wrote, RunIs, IsOf
  <2>3. \A p \in Path : files'[p] # Envelope(c)
    BY <1>2, <1>4, Kinds DEF IsOf
  <2>4. Settled(c)'
    BY <1>1, <1>4, <2>3, ActiveRun, Unpublished
  <2> QED
    BY <1>1, <1>4, <2>2, <2>4, Continues DEF Steps, Touches
<1> QED
  BY <1>1, <1>3, <1>4 DEF CreatePublic, Create

LEMMA WritePublicKeeps ==
    ASSUME CommitmentInv, NEW v \in Runner, NEW c \in Commitment,
           NEW o \in Path \ Public, NEW q \in Path,
           RunIs(v, "write_public", c, o, q), WritePublic(v)
    PROVE  CommitmentInv'
<1>1. /\ Active(v) /\ run[v].commitment = c
      /\ run[v].opening = o /\ run[v].public = q
  BY DEF RunIs, Active, At
<1>2. /\ files[o] = Opening(c) /\ files[q] = Torn(c)
      /\ \A p \in Path \ {o, q} : ~IsOf(p, c)
  BY <1>1, ActiveRun DEF Wrote, RunIs
<1>3. o # q
  BY <1>2, Kinds
<1>4. CASE /\ files' = [files EXCEPT ![q] = Envelope(c)]
           /\ Proceed(v, "report")
           /\ UNCHANGED outcome
  <2>1. Touches(c)
    BY <1>2, <1>4, Kinds DEF Touches
  <2>2. /\ files'[q] = Envelope(c) /\ files'[o] = Opening(c)
        /\ \A p \in Path \ {o, q} : files'[p] = files[p] /\ ~IsOf(p, c)'
    BY <1>2, <1>3, <1>4 DEF CommitmentInv, TypeOK, IsOf
  <2>3. RunIs(v, "report", c, o, q)'
    BY <1>1, <1>4, Moved DEF Steps
  <2>4. Wrote(v)'
    BY <2>2, <2>3 DEF Wrote, RunIs
  <2>5. Settled(c)'
    BY <1>1, <1>4, <2>2, ActiveRun DEF Settled, Holds
  <2> QED
    BY <1>1, <1>4, <2>1, <2>4, <2>5, Continues DEF Steps
<1>5. CASE Proceed(v, "unlink_public") /\ UNCHANGED <<files, outcome>>
  <2>1. RunIs(v, "unlink_public", c, o, q)'
    BY <1>1, <1>5, Moved DEF Steps
  <2>2. Wrote(v)'
    BY <1>2, <1>5, <2>1 DEF Wrote, RunIs, IsOf
  <2>3. \A p \in Path : files'[p] # Envelope(c)
    BY <1>2, <1>5, Kinds DEF IsOf
  <2>4. Settled(c)'
    BY <1>1, <1>5, <2>3, ActiveRun, Unpublished
  <2> QED
    BY <1>1, <1>5, <2>2, <2>4, Continues DEF Steps, Touches
<1> QED
  BY <1>1, <1>4, <1>5 DEF WritePublic, Write

LEMMA UnlinkPublicKeeps ==
    ASSUME CommitmentInv, NEW v \in Runner, NEW c \in Commitment,
           NEW o \in Path, NEW q \in Path, RunIs(v, "unlink_public", c, o, q),
           UnlinkPublic(v)
    PROVE  CommitmentInv'
<1>1. /\ Active(v) /\ run[v].commitment = c
      /\ run[v].opening = o /\ run[v].public = q
  BY DEF RunIs, Active, At
<1>2. /\ files[o] = Opening(c) /\ files[q] = Torn(c)
      /\ \A p \in Path \ {o, q} : ~IsOf(p, c)
  BY <1>1, ActiveRun DEF Wrote, RunIs
<1>3. /\ files' = [files EXCEPT ![q] = None]
      /\ Proceed(v, "undo_opening") /\ UNCHANGED outcome
  BY <1>1 DEF UnlinkPublic, Unlink
<1>4. Touches(c)
  BY <1>2, <1>3, Kinds DEF Touches
<1>5. /\ files'[o] = Opening(c)
      /\ \A p \in Path \ {o} : ~IsOf(p, c)'
  BY <1>2, <1>3, Kinds DEF CommitmentInv, TypeOK, IsOf
<1>6. RunIs(v, "undo_opening", c, o, q)'
  BY <1>1, <1>3, Moved DEF Steps
<1>7. Wrote(v)'
  BY <1>5, <1>6 DEF Wrote, RunIs
<1>8. \A p \in Path : files'[p] # Envelope(c)
  BY <1>5, Kinds DEF IsOf
<1>9. Settled(c)'
  BY <1>1, <1>3, <1>8, ActiveRun, Unpublished
<1> QED
  BY <1>1, <1>3, <1>4, <1>7, <1>9, Continues DEF Steps

LEMMA ReportKeeps ==
    ASSUME CommitmentInv, NEW v \in Runner, NEW c \in Commitment,
           NEW o \in Path \ Public, NEW q \in Path,
           RunIs(v, "report", c, o, q), Report(v)
    PROVE  CommitmentInv'
<1>1. Active(v) /\ run[v].commitment = c
  BY DEF RunIs, Active, At
<1>2. files[o] = Opening(c) /\ files[q] = Envelope(c)
  BY <1>1, ActiveRun DEF Wrote, RunIs
<1>3. End(v, "passed") /\ UNCHANGED files
  BY DEF Report
<1>4. outcome'[c] = "passed"
  BY <1>1, <1>3, Ended
<1>5. Settled(c)'
  BY <1>2, <1>3, <1>4 DEF Settled, Holds
<1> QED
  BY <1>1, <1>3, <1>5, Ends DEF Touches

LEMMA KillKeeps ==
    ASSUME CommitmentInv, NEW v \in Runner, NEW c \in Commitment,
           c = run[v].commitment, Kill(v)
    PROVE  CommitmentInv'
<1>1. Active(v) /\ End(v, "killed") /\ UNCHANGED files
  BY DEF Kill, Active
<1>2. outcome'[c] = "killed"
  BY <1>1, Ended
<1>3. Settled(c)
  BY DEF CommitmentInv
<1>4. Settled(c)'
  BY <1>1, <1>2, <1>3 DEF Settled, Holds
<1> QED
  BY <1>1, <1>4, Ends DEF Touches

LEMMA ClearKeeps ==
    ASSUME CommitmentInv, NEW p \in Path, NEW c \in Commitment,
           IsOf(p, c), Clear(p)
    PROVE  CommitmentInv'
<1>1. /\ outcome[c] = "killed"
      /\ files' = [files EXCEPT ![p] = None]
      /\ UNCHANGED <<run, outcome>>
      /\ files[p].kind = "opening" => \A q \in Path : files[q] # Envelope(c)
  BY DEF Clear, IsOf, Unlink
<1>2. files' \in [Path -> Content \cup {None}] /\ OnlyFor(c)
  BY <1>1, Touched DEF CommitmentInv, Touches, IsOf
<1>3. TypeOK'
  BY <1>1, <1>2 DEF CommitmentInv, TypeOK
<1>4. files'[p] = None /\ \A r \in Path \ {p} : files'[r] = files[r]
  BY <1>1 DEF CommitmentInv, TypeOK
<1>5. ASSUME NEW r \in Path, files'[r] = Envelope(c)
      PROVE  Holds(c, Opening(c))'
  <2>1. r # p /\ files[r] = Envelope(c)
    BY <1>4, <1>5, Kinds
  <2>2. PICK s \in Path \ Public : files[s] = Opening(c)
    BY <2>1 DEF CommitmentInv, Settled, Holds
  <2>3. s # p
    BY <1>1, <2>1, <2>2, Kinds
  <2> QED
    BY <1>4, <2>2, <2>3 DEF Holds
<1>6. Settled(c)'
  BY <1>1, <1>5 DEF Settled
<1>7. \A w \in Runner : Active(w) => run[w].commitment # c
  BY <1>1, ActiveRun
<1> QED
  BY <1>1, <1>2, <1>3, <1>6, <1>7, ForOne
-----------------------------------------------------------------------------
LEMMA StepKeeps ==
    ASSUME CommitmentInv, NEW v \in Runner, Step(v) \/ Kill(v)
    PROVE  CommitmentInv'
<1>1. Active(v)
  BY DEF Step, Kill, CreateOpening, WriteOpening, UnlinkOpening, CreatePublic,
         WritePublic, UnlinkPublic, UndoOpening, Report, Active, At
<1>2. PICK c \in Commitment : c = run[v].commitment
  BY <1>1, ActiveRun
<1>3. PICK o \in Path \ Public : o = run[v].opening
  BY <1>1, ActiveRun
<1>4. PICK q \in Path : q = run[v].public
  BY <1>1, ActiveRun
<1>5. \A step : At(v, step) => RunIs(v, step, c, o, q)
  BY <1>2, <1>3, <1>4 DEF At, RunIs
<1>6. CASE CreateOpening(v)
  BY <1>5, <1>6, CreateOpeningKeeps DEF CreateOpening
<1>7. CASE WriteOpening(v)
  BY <1>5, <1>7, WriteOpeningKeeps DEF WriteOpening
<1>8. CASE UnlinkOpening(v)
  BY <1>3, <1>5, <1>8, RemovesLast DEF UnlinkOpening, Steps
<1>9. CASE CreatePublic(v)
  BY <1>5, <1>9, CreatePublicKeeps DEF CreatePublic
<1>10. CASE WritePublic(v)
  BY <1>5, <1>10, WritePublicKeeps DEF WritePublic
<1>11. CASE UnlinkPublic(v)
  BY <1>5, <1>11, UnlinkPublicKeeps DEF UnlinkPublic
<1>12. CASE UndoOpening(v)
  BY <1>3, <1>5, <1>12, RemovesLast DEF UndoOpening, Steps
<1>13. CASE Report(v)
  BY <1>5, <1>13, ReportKeeps DEF Report
<1>14. CASE Kill(v)
  BY <1>2, <1>14, KillKeeps
<1> QED
  BY <1>6, <1>7, <1>8, <1>9, <1>10, <1>11, <1>12, <1>13, <1>14 DEF Step

(* What each run has on disk at each of its steps, for any number of runs that
   share paths and are killed anywhere (_write_new_json and main). *)
THEOREM CommitmentInvariant == Spec => []CommitmentInv
<1>1. Init => CommitmentInv
  BY Kinds DEF Init, CommitmentInv, TypeOK, RunState, OwnCommitment, Active, At,
            Rest, Settled, IsOf, Holds
<1>2. CommitmentInv /\ [Next]_vars => CommitmentInv'
  <2> SUFFICES ASSUME CommitmentInv, [Next]_vars
               PROVE  CommitmentInv'
    OBVIOUS
  <2>1. CASE \E v \in Runner, o, p \in Path, c \in Commitment :
                Start(v, o, p, c)
    BY <2>1, StartKeeps
  <2>2. CASE \E v \in Runner : Step(v) \/ Kill(v)
    BY <2>2, StepKeeps
  <2>3. ASSUME NEW p \in Path, Clear(p)
        PROVE  CommitmentInv'
    <3>1. PICK c \in Commitment : IsOf(p, c)
      BY <2>3 DEF Clear, IsOf, CommitmentInv, TypeOK, Content
    <3> QED
      BY <2>3, <3>1, ClearKeeps
  <2>4. CASE UNCHANGED vars
    BY <2>4 DEF vars, CommitmentInv, TypeOK, OwnCommitment, Active, At, Wrote,
                IsOf, Settled, Holds
  <2> QED
    BY <2>1, <2>2, <2>3, <2>4 DEF Next
<1> QED
  BY <1>1, <1>2, PTL DEF Spec

(* Types, including that no opening is ever aimed inside the repository (the
   --opening-output check). *)
THEOREM CommitmentTypes == Spec => []TypeOK
<1>1. CommitmentInv => TypeOK
  BY DEF CommitmentInv
<1> QED
  BY <1>1, CommitmentInvariant, PTL

(* A complete envelope on disk always has its complete opening beside it. *)
THEOREM PublishedOpens == Spec => []PublishedCanBeOpened
<1>1. CommitmentInv => PublishedCanBeOpened
  BY DEF CommitmentInv, Settled, PublishedCanBeOpened
<1> QED
  BY <1>1, CommitmentInvariant, PTL

(* A run that reports an error has taken back everything it wrote. *)
THEOREM FailuresClean == Spec => []FailureLeavesNothing
<1>1. CommitmentInv => FailureLeavesNothing
  BY DEF CommitmentInv, Settled, FailureLeavesNothing
<1> QED
  BY <1>1, CommitmentInvariant, PTL

(* Both files of a successful run stay, whatever other runs do. *)
THEOREM SuccessesKept == Spec => []SuccessIsKept
<1>1. CommitmentInv => SuccessIsKept
  BY DEF CommitmentInv, Settled, SuccessIsKept
<1> QED
  BY <1>1, CommitmentInvariant, PTL

-----------------------------------------------------------------------------
(* Rounding up.                                                            *)

LEMMA RoundedUp ==
  ASSUME NEW n \in Nat, NEW d \in Nat \ {0}
  PROVE  Ceiling(n, d) \in Nat /\ d * Ceiling(n, d) >= n
<1> DEFINE m == n + d - 1
<1>1. m \in Nat
  OBVIOUS
<1>2. m = (d * (m \div d)) + (m % d) /\ (m % d) \in 0 .. d - 1 /\ m \div d \in Nat
  <2> HIDE DEF m
  <2> QED
    BY <1>1
<1>3. d * (m \div d) \in Nat
  BY <1>2
<1> QED
  BY <1>2, <1>3 DEF Ceiling

\* Rounding the cost of a batch up before multiplying it by the number of
\* batches covers the exact cost of all of them.
LEMMA RoundedUpCosts ==
  ASSUME NEW cost \in Nat, NEW batches \in Nat, NEW observed \in Nat,
         observed >= Ceiling(cost, FullRate) * batches
  PROVE  observed * FullRate >= batches * cost
<1> DEFINE rounded == Ceiling(cost, FullRate)
<1>1. rounded \in Nat /\ FullRate * rounded >= cost
  BY RoundedUp DEF FullRate
<1> HIDE DEF rounded
<1>2. observed >= rounded * batches
  BY DEF rounded
<1>3. /\ observed * FullRate >= (rounded * batches) * FullRate
      /\ rounded * batches \in Nat
  BY <1>1, <1>2 DEF FullRate
<1>4. batches * (FullRate * rounded) >= batches * cost
  BY <1>1 DEF FullRate
<1>5. (rounded * batches) * FullRate = batches * (FullRate * rounded)
  BY <1>1 DEF FullRate
<1> QED
  BY <1>3, <1>4, <1>5 DEF FullRate
-----------------------------------------------------------------------------
(* What the schema, the reserve and the readiness of a request say.        *)

LEMMA SchemaTypes ==
  ASSUME NEW r, SchemaErrors(r) = {}
  PROVE  /\ {r.gas, r.max, r.priority, r.price, r.observed}
              \subseteq Nat \cup {Unset}
         /\ r.reserve \in Nat
         /\ r.kind = "anchor" => r.count \in Nat \ {0} /\ r.multiplier \in Nat
BY DEF SchemaErrors, Numbers

LEMMA ReadyMeans ==
  ASSUME NEW r, NEW sufficient, Readiness(r, sufficient) = "ready"
  PROVE  /\ sufficient # Unset /\ sufficient # FALSE
         /\ r.kind = "anchor" => r.code = TRUE
BY UnsetAssumption DEF Readiness

\* A balance that is sufficient was observed, and is what is required.
LEMMA SufficientMeans ==
  ASSUME NEW required, NEW observed,
         Compared(required, observed).sufficient # Unset,
         Compared(required, observed).sufficient # FALSE
  PROVE  required # Unset /\ observed # Unset /\ observed >= required
<1>1. Compared(required, observed).sufficient
        = IF Unset \in {required, observed} THEN Unset ELSE observed >= required
  BY Zenon DEF Compared
<1>2. Unset \notin {required, observed}
  BY <1>1, Zenon
<1>3. Compared(required, observed).sufficient = (observed >= required)
  BY <1>1, <1>2, Zenon
<1>4. ASSUME ~ (observed >= required)
      PROVE  FALSE
  <2>1. (observed >= required) = FALSE
    BY <1>4
  <2> QED
    BY <1>3, <2>1, Zenon
<1>5. observed >= required
  BY <1>4, Zenon
<1> QED
  BY <1>2, <1>5, Zenon

\* The two copies of the computation come to the same, whatever the request.
LEMMA CopiesAgree ==
  ASSUME NEW r
  PROVE  ExpectedReserve(r) = Reserve(r)
BY DEF ExpectedReserve, ExpectedBatchReserve, ExpectedDeploymentReserve,
       Reserve, BatchReserve, DeploymentReserve

\* A request that is ready by the computation of its builder and validator is
\* priced, and its observed balance pays all it may cost.
LEMMA ReadyIsAfforded ==
  ASSUME NEW r, SchemaErrors(r) = {},
         Readiness(r, Reserve(r).balance.sufficient) = "ready"
  PROVE  Priced(r) /\ Affords(r.observed, r)
<1> DEFINE fee == FeePerGas(r)
<1>1. /\ Reserve(r).balance.sufficient # Unset
      /\ Reserve(r).balance.sufficient # FALSE
  BY ReadyMeans
<1>2. Priced(r)
  <2>1. ASSUME ~ Priced(r)
        PROVE  Reserve(r).balance.sufficient = Unset
    BY <2>1 DEF Reserve, BatchReserve, DeploymentReserve, NoReserve, Compared
  <2> QED
    BY <1>1, <2>1
<1>3. r.gas \in Nat /\ fee \in Nat /\ r.reserve \in Nat
  BY <1>2, SchemaTypes DEF Priced, FeePerGas
<1>4. CASE r.kind = "anchor"
  <2> DEFINE all == r.gas * fee * r.multiplier
             cost == Ceiling(all, FullRate)
  <2>1. Reserve(r).balance = Compared(cost * r.reserve, r.observed)
    BY <1>2, <1>4 DEF Reserve, BatchReserve
  <2>2. /\ r.observed # Unset
        /\ r.observed >= cost * r.reserve
    BY <1>1, <2>1, SufficientMeans
  <2>3. r.observed \in Nat /\ r.multiplier \in Nat
    BY <1>4, <2>2, SchemaTypes
  <2>4. all \in Nat
    BY <1>3, <2>3
  <2>5. r.observed * FullRate >= r.reserve * all
    <3> HIDE DEF all
    <3> QED
      BY <1>3, <2>2, <2>3, <2>4, RoundedUpCosts
  <2>6. r.reserve * all = r.reserve * r.gas * fee * r.multiplier
    <3> HIDE DEF fee
    <3> QED
      BY <1>3, <2>3
  <2> QED
    BY <1>2, <1>4, <2>5, <2>6 DEF Affords
<1>5. CASE r.kind # "anchor"
  <2>1. Reserve(r).balance = Compared(r.gas * fee + r.reserve, r.observed)
    BY <1>2, <1>5 DEF Reserve, DeploymentReserve
  <2>2. r.observed >= r.gas * fee + r.reserve
    BY <1>1, <2>1, SufficientMeans
  <2> QED
    BY <1>2, <1>5, <2>2 DEF Affords
<1> QED
  BY <1>4, <1>5

\* The share of a rule set covers the cost of its batch.
LEMMA SharesCover ==
  ASSUME NEW r, SchemaErrors(r) = {}, r.kind = "anchor", Priced(r)
  PROVE  r.count * Reserve(r).perRule >= Reserve(r).cost
<1> DEFINE all == r.gas * FeePerGas(r) * r.multiplier
           cost == Ceiling(all, FullRate)
<1>1. /\ r.gas \in Nat /\ FeePerGas(r) \in Nat /\ r.multiplier \in Nat
      /\ r.count \in Nat \ {0}
  BY SchemaTypes DEF Priced, FeePerGas
<1>2. all \in Nat
  BY <1>1
<1>3. cost \in Nat
  BY <1>2, RoundedUp DEF FullRate
<1>4. Reserve(r).cost = cost /\ Reserve(r).perRule = Ceiling(cost, r.count)
  BY DEF Reserve, BatchReserve
<1> HIDE DEF cost
<1> QED
  BY <1>1, <1>3, <1>4, RoundedUp

\* What ReadyIsPayable says of an accepted request.
InOrder(r, build) ==
  /\ {r.max, r.price} # {Unset}
  /\ Unset \in {r.max, r.price}
  /\ {r.max, r.priority} \subseteq Nat => r.priority <= r.max
  /\ Affords(r.observed, r)
  /\ IF r.kind = "anchor"
     THEN /\ r.code = TRUE
          /\ r.data.manifest = r.manifest
          /\ r.data.count * r.reserved.perRule >= r.reserved.cost
     ELSE r.data.manifest = build /\ r.manifest = build

LEMMA NoError ==
  ASSUME NEW bad, NEW code, Coded(bad, code) = {}
  PROVE  ~ bad
BY DEF Coded

LEMMA AcceptedIsInOrder ==
  ASSUME NEW r, NEW build, Errors(r, build) = {}, r.readiness = "ready"
  PROVE  InOrder(r, build)
<1>1. /\ SchemaErrors(r) = {} /\ FeeErrors(r) = {} /\ ReserveErrors(r) = {}
      /\ ReadinessErrors(r) = {}
      /\ r.kind = "anchor" => CallErrors(r) = {}
      /\ r.kind # "anchor" => BuildErrors(r, build) = {}
  BY DEF Errors, TransactionErrors, DeploymentErrors
<1>2. Readiness(r, Reserve(r).balance.sufficient) = "ready"
  BY <1>1, CopiesAgree DEF ReadinessErrors, Coded
<1>3. Priced(r) /\ Affords(r.observed, r)
  BY <1>1, <1>2, ReadyIsAfforded
<1>4. /\ ~ (r.max # Unset /\ r.price # Unset)
      /\ ~ (r.max # Unset /\ r.priority # Unset /\ r.priority > r.max)
  BY <1>1 DEF FeeErrors, Coded
<1>5. {r.max, r.priority} \subseteq Nat => r.priority <= r.max
  BY <1>4, UnsetAssumption
<1>6. {r.max, r.price} # {Unset} /\ Unset \in {r.max, r.price}
  BY <1>3, <1>4 DEF Priced, FeePerGas
<1>7. ASSUME r.kind = "anchor"
      PROVE  /\ r.code = TRUE
             /\ r.data.manifest = r.manifest
             /\ r.data.count * r.reserved.perRule >= r.reserved.cost
  <2>1. r.code = TRUE
    BY <1>2, <1>7, ReadyMeans
  <2>2. r.data.manifest = r.manifest /\ r.data.count = r.count
    BY <1>1, <1>7 DEF CallErrors, Coded
  <2>3. r.reserved = Reserve(r)
    BY <1>1, CopiesAgree DEF ReserveErrors, Coded
  <2> QED
    BY <1>1, <1>3, <1>7, <2>1, <2>2, <2>3, SharesCover
<1>8. ASSUME r.kind # "anchor"
      PROVE  r.data.manifest = build /\ r.manifest = build
  BY <1>1, <1>8 DEF BuildErrors, Coded
<1> QED
  BY <1>3, <1>5, <1>6, <1>7, <1>8 DEF InOrder
-----------------------------------------------------------------------------
(* The readings.                                                           *)

Questions ==
  {"connect", "code", "estimate", "block", "nonce", "balance", "fee"}

Of(todo) == {todo[k] : k \in DOMAIN todo}

\* Each question is asked once, and that of the nonce before that of the
\* balance.
Ordered(todo) ==
  /\ todo \in Seq(Questions)
  /\ \A i, j \in DOMAIN todo : i < j => todo[i] # todo[j]
  /\ \A i, j \in DOMAIN todo :
       todo[i] = "nonce" /\ todo[j] = "balance" => i < j
  /\ "nonce" \in Of(todo) => "balance" \in Of(todo)

LEMMA ReadsAreOrdered ==
  ASSUME NEW kind
  PROVE  /\ Ordered(Reads(kind)) /\ Reads(kind) # <<>>
         /\ "nonce" \in Of(Reads(kind))
<1> DEFINE first == <<"connect">>
           code == IF kind = "anchor" THEN <<"code">> ELSE <<>>
           last == <<"estimate", "block", "nonce", "balance", "fee">>
           start == first \o code
           l == Len(start)
<1>1. first \in Seq(Questions) /\ last \in Seq(Questions)
  BY DEF Questions
<1>2. code \in Seq(Questions) /\ \A k \in 1 .. Len(code) : code[k] = "code"
                             /\ Len(code) \in {0, 1}
  BY DEF Questions
<1>3. Len(first) = 1 /\ first[1] = "connect" /\ Len(last) = 5
  OBVIOUS
<1>4. /\ last[1] = "estimate" /\ last[2] = "block" /\ last[3] = "nonce"
      /\ last[4] = "balance" /\ last[5] = "fee"
  OBVIOUS
<1> HIDE DEF first, code, last
<1>5. /\ start \in Seq(Questions) /\ l \in {1, 2}
      /\ \A k \in 1 .. l : start[k] = IF k = 1 THEN "connect" ELSE "code"
  BY <1>1, <1>2, <1>3, ConcatProperties
<1>6. Reads(kind) = start \o last
  BY DEF Reads, first, code, last
<1> HIDE DEF start, l
<1>7. /\ Reads(kind) \in Seq(Questions) /\ DOMAIN Reads(kind) = 1 .. l + 5
      /\ \A k \in 1 .. l : Reads(kind)[k] = start[k]
      /\ \A k \in l + 1 .. l + 5 : Reads(kind)[k] = last[k - l]
  <2>1. /\ start \o last \in Seq(Questions) /\ Len(start \o last) = l + 5
        /\ \A k \in 1 .. l + 5 : (start \o last)[k] =
                                IF k <= l THEN start[k] ELSE last[k - l]
    <3>1. start \in Seq(Questions) /\ Len(start) = l
      BY <1>5 DEF l
    <3>2. last \in Seq(Questions) /\ Len(last) = 5
      BY <1>1, <1>3
    <3>3. /\ start \o last \in Seq(Questions)
          /\ Len(start \o last) = Len(start) + Len(last)
          /\ \A k \in 1 .. Len(start) + Len(last) :
               (start \o last)[k] = IF k <= Len(start) THEN start[k]
                                     ELSE last[k - Len(start)]
      BY <3>1, <3>2, ConcatProperties
    <3> QED
      BY <3>1, <3>2, <3>3
  <2>2. DOMAIN (start \o last) = 1 .. l + 5
    BY <2>1
  <2>3. Reads(kind) \in Seq(Questions) /\ DOMAIN Reads(kind) = 1 .. l + 5
    BY <1>6, <2>1, <2>2
  <2>4. \A k \in 1 .. l : k \in 1 .. l + 5 /\ k <= l
    BY <1>5
  <2>5. \A k \in l + 1 .. l + 5 : k \in 1 .. l + 5 /\ ~ (k <= l)
    BY <1>5
  <2> QED
    BY <1>6, <2>1, <2>3, <2>4, <2>5
<1>8. \A k \in 1 .. l : Reads(kind)[k] = IF k = 1 THEN "connect" ELSE "code"
  BY <1>5, <1>7
<1>9. /\ Reads(kind)[l + 1] = "estimate" /\ Reads(kind)[l + 2] = "block"
      /\ Reads(kind)[l + 3] = "nonce" /\ Reads(kind)[l + 4] = "balance"
      /\ Reads(kind)[l + 5] = "fee"
  BY <1>4, <1>5, <1>7
<1>10. \A k \in DOMAIN Reads(kind) :
         k \in 1 .. l \/ k \in {l + 1, l + 2, l + 3, l + 4, l + 5}
  BY <1>5, <1>7
<1>11. \A i, j \in DOMAIN Reads(kind) :
         i < j => Reads(kind)[i] # Reads(kind)[j]
  BY <1>5, <1>7, <1>8, <1>9, <1>10
<1>12. \A i, j \in DOMAIN Reads(kind) :
         Reads(kind)[i] = "nonce" /\ Reads(kind)[j] = "balance" => i < j
  BY <1>5, <1>7, <1>8, <1>9, <1>10
<1>13. {"nonce", "balance"} \subseteq Of(Reads(kind))
  BY <1>5, <1>7, <1>9 DEF Of
<1> QED
  BY <1>5, <1>7, <1>11, <1>12, <1>13 DEF Ordered

LEMMA TailIsOrdered ==
  ASSUME NEW todo, Ordered(todo), todo # <<>>
  PROVE  /\ Ordered(Tail(todo))
         /\ Of(todo) = {Head(todo)} \cup Of(Tail(todo))
         /\ Head(todo) \notin Of(Tail(todo))
         /\ Head(todo) = "balance" => "nonce" \notin Of(todo)
         /\ Len(todo) = 1 <=> Tail(todo) = <<>>
<1> DEFINE rest == Tail(todo)
<1>1. /\ rest \in Seq(Questions) /\ Len(rest) = Len(todo) - 1
      /\ DOMAIN rest = 1 .. Len(rest) /\ DOMAIN todo = 1 .. Len(todo)
      /\ Len(todo) \in Nat \ {0}
      /\ \A i \in DOMAIN rest : rest[i] = todo[i + 1]
      /\ Head(todo) = todo[1]
  BY HeadTailProperties DEF Ordered
<1> HIDE DEF rest
<1>2. Of(todo) = {Head(todo)} \cup Of(rest)
  <2>1. \A k \in DOMAIN todo : k = 1 \/ (k - 1 \in DOMAIN rest /\ rest[k - 1] = todo[k])
    BY <1>1
  <2> QED
    BY <1>1, <2>1 DEF Of
<1>3. Head(todo) \notin Of(rest)
  BY <1>1 DEF Of, Ordered
<1>4. Head(todo) = "balance" => "nonce" \notin Of(todo)
  BY <1>1 DEF Of, Ordered
<1>5. Ordered(rest)
  <2>1. \A i, j \in DOMAIN rest : i < j => rest[i] # rest[j]
    BY <1>1 DEF Ordered
  <2>2. \A i, j \in DOMAIN rest : rest[i] = "nonce" /\ rest[j] = "balance" => i < j
    BY <1>1 DEF Ordered
  <2>3. "nonce" \in Of(rest) => "balance" \in Of(rest)
    BY <1>2, <1>3, <1>4 DEF Ordered
  <2> QED
    BY <1>1, <2>1, <2>2, <2>3 DEF Ordered
<1>6. Len(todo) = 1 <=> rest = <<>>
  BY <1>1
<1> QED
  BY <1>2, <1>3, <1>4, <1>5, <1>6 DEF rest
-----------------------------------------------------------------------------
(* The inductive invariant.                                                *)

ValueFields == {"nonce", "gas", "max", "priority", "price", "observed", "code",
                "base", "build"}

\* Once the nonce is read, and if nothing was pending then, the account has
\* sent at least what the nonce counts; if it has sent no more, it still owns
\* what was read.
Held ==
  "nonce" \notin Of(job.todo) =>
    /\ job.values.nonce \in Nat
    /\ ahead = 0 => account.mined >= job.values.nonce
    /\ "balance" \notin Of(job.todo) /\ ahead = 0
         /\ account.mined = job.values.nonce =>
         job.values.observed = account.balance

ReadInv ==
  /\ account \in [balance : Int, mined : Nat, pending : Seq(Nat)]
  /\ DOMAIN job = {"state", "options", "todo", "values"}
  /\ job.state \in {"reading", "building", "built"} =>
       /\ DOMAIN job.values = ValueFields
       /\ Ordered(job.todo)
       /\ job.state = "reading" <=> job.todo # <<>>
       /\ job.options.rpc => Held
       /\ ~ job.options.rpc => job.todo = <<>> /\ job.values.nonce = Unset

DocumentInv ==
  /\ job.state \in {"arguments", "reading", "building", "refused"} =>
       request = NoRequest
  /\ request = NoRequest => verdict = "unjudged"
  /\ verdict = "accepted" => Errors(request, frozen) = {}
  /\ job.state = "built" =>
       /\ request = Filled(Drafted(job.options, job.values))
       /\ SchemaErrors(request) = {}

PreparationInv == ReadInv /\ DocumentInv

LEMMA PreparationStarts ==
  PreparationInit(Options, Balances) => PreparationInv
<1> SUFFICES ASSUME PreparationInit(Options, Balances)
             PROVE  PreparationInv
  OBVIOUS
<1>1. account \in [balance : Int, mined : Nat, pending : Seq(Nat)]
  <2>1. <<>> \in Seq(Nat) /\ Balances \subseteq Int
    BY AccountAssumption
  <2>2. PICK b \in Balances : account = [balance |-> b, mined |-> 0, pending |-> <<>>]
    BY DEF PreparationInit
  <2> QED
    BY <2>1, <2>2
<1>2. job.state = "arguments" /\ DOMAIN job = {"state", "options", "todo", "values"}
  BY DEF PreparationInit
<1> QED
  BY <1>1, <1>2 DEF PreparationInit, PreparationInv, ReadInv, DocumentInv

\* What is answered to a question.
Answers(q, v) ==
  /\ DOMAIN v = ValueFields
  /\ IF q = "nonce"
     THEN v.nonce = account.mined + Len(account.pending)
            /\ ahead' = Len(account.pending)
     ELSE v.nonce = job.values.nonce /\ UNCHANGED ahead
  /\ v.observed = IF q = "balance" THEN account.balance
                  ELSE job.values.observed

LEMMA AnswerKeeps ==
  ASSUME ReadInv, NEW q, Asks(q), NEW v, Answered(v), Answers(q, v)
  PROVE  ReadInv'
<1>1. /\ job.state = "reading" /\ job.todo # <<>> /\ Head(job.todo) = q
      /\ job.options.rpc /\ Held /\ Ordered(job.todo)
      /\ account \in [balance : Int, mined : Nat, pending : Seq(Nat)]
  BY DEF Asks, ReadInv
<1>2. /\ job'.todo = Tail(job.todo) /\ job'.values = v
      /\ job'.options = job.options /\ DOMAIN job' = DOMAIN job
      /\ job'.state = IF Len(job.todo) = 1 THEN "building" ELSE "reading"
      /\ account' = account
  BY <1>1 DEF Answered, ReadInv
<1>3. /\ Ordered(job'.todo) /\ Of(job.todo) = {q} \cup Of(job'.todo)
      /\ q \notin Of(job'.todo) /\ (q = "balance" => "nonce" \notin Of(job.todo))
      /\ Len(job.todo) = 1 <=> job'.todo = <<>>
  BY <1>1, <1>2, TailIsOrdered
<1>4. Held'
  <2>1. CASE q = "nonce"
    <3>1. "balance" \in Of(job'.todo)
      BY <1>1, <1>3, <2>1 DEF Ordered
    <3>2. v.nonce \in Nat /\ (ahead' = 0 => account.mined = v.nonce)
      BY <1>1, <2>1 DEF Answers
    <3> QED
      BY <1>1, <1>2, <3>1, <3>2 DEF Held
  <2>2. CASE q = "balance"
    BY <1>1, <1>2, <1>3, <2>2 DEF Held, Answers
  <2>3. CASE q \notin {"nonce", "balance"}
    BY <1>1, <1>2, <1>3, <2>3 DEF Held, Answers
  <2> QED
    BY <2>1, <2>2, <2>3
<1> QED
  BY <1>1, <1>2, <1>3, <1>4 DEF ReadInv, Answers

LEMMA DeclineKeeps ==
  ASSUME ReadInv, Decline
  PROVE  ReadInv' /\ job'.state = "refused"
<1>1. /\ job'.state = "refused" /\ account' = account
      /\ DOMAIN job' = {"state", "options", "todo", "values"}
  BY DEF Decline, ReadInv
<1> QED
  BY <1>1 DEF ReadInv

LEMMA CheckKeepsRead ==
  ASSUME ReadInv, CheckArguments, ~ ArgumentErrors(job.options)
  PROVE  ReadInv' /\ job'.state \in {"reading", "building"}
<1> DEFINE rpc == job.options.rpc
<1>1. /\ job'.values = Given(job.options)
      /\ job'.todo = IF rpc THEN Reads(job.options.kind) ELSE <<>>
      /\ job'.state = IF rpc THEN "reading" ELSE "building"
      /\ job'.options = job.options /\ account' = account
      /\ DOMAIN job' = {"state", "options", "todo", "values"}
  BY DEF CheckArguments, ReadInv
<1>2. DOMAIN Given(job.options) = ValueFields /\ Given(job.options).nonce = Unset
  BY DEF Given, ValueFields
<1>3. Ordered(<<>>)
  BY DEF Ordered, Of
<1>4. CASE rpc
  BY <1>1, <1>2, <1>4, ReadsAreOrdered DEF ReadInv, Held
<1>5. CASE ~ rpc
  BY <1>1, <1>2, <1>3, <1>5 DEF ReadInv
<1> QED
  BY <1>4, <1>5

LEMMA ReadingKeepsRead ==
  ASSUME ReadInv,
         \/ Connect \/ ReadCode \/ EstimateGas \/ ReadBlock \/ ReadNonce
         \/ ReadBalance \/ ReadFee
  PROVE  ReadInv' /\ job.state = "reading" /\ job'.state \in {"reading", "building"}
<1> DEFINE fields == DOMAIN job.values = ValueFields
<1>1. \E q \in Questions : Asks(q) /\ \E v : Answered(v) /\ Answers(q, v)
  <2>1. \A q : Asks(q) => fields /\ job.state = "reading"
    BY DEF Asks, ReadInv
  <2>2. CASE Connect
    BY <2>1, <2>2 DEF Connect, Answers, Questions
  <2>3. CASE ReadCode
    <3> DEFINE v == [job.values EXCEPT !.code = TRUE]
    <3>1. Asks("code") /\ Answered(v) /\ Answers("code", v)
      BY <2>1, <2>3 DEF ReadCode, Answers, ValueFields
    <3> QED
      BY <3>1 DEF Questions
  <2>4. CASE EstimateGas
    <3>1. PICK e \in Estimates :
            Answered([job.values EXCEPT
                        !.gas = Ceiling(e * job.options.multiplier, FullRate)])
      BY <2>4 DEF EstimateGas
    <3> DEFINE v == [job.values EXCEPT
                       !.gas = Ceiling(e * job.options.multiplier, FullRate)]
    <3>2. Asks("estimate") /\ Answered(v) /\ Answers("estimate", v)
      BY <2>1, <2>4, <3>1 DEF EstimateGas, Answers, ValueFields
    <3> QED
      BY <3>2 DEF Questions
  <2>5. CASE ReadBlock
    <3>1. PICK b \in BaseFees : Answered([job.values EXCEPT !.base = b])
      BY <2>5 DEF ReadBlock
    <3> DEFINE v == [job.values EXCEPT !.base = b]
    <3>2. Asks("block") /\ Answered(v) /\ Answers("block", v)
      BY <2>1, <2>5, <3>1 DEF ReadBlock, Answers, ValueFields
    <3> QED
      BY <3>2 DEF Questions
  <2>6. CASE ReadNonce
    <3> DEFINE v == [job.values EXCEPT
                       !.nonce = account.mined + Len(account.pending)]
    <3>1. Asks("nonce") /\ Answered(v) /\ Answers("nonce", v)
      BY <2>1, <2>6 DEF ReadNonce, Answers, ValueFields
    <3> QED
      BY <3>1 DEF Questions
  <2>7. CASE ReadBalance
    <3> DEFINE v == [job.values EXCEPT !.observed = account.balance]
    <3>1. Asks("balance") /\ Answered(v) /\ Answers("balance", v)
      BY <2>1, <2>7 DEF ReadBalance, Answers, ValueFields
    <3> QED
      BY <3>1 DEF Questions
  <2>8. CASE ReadFee
    <3>1. PICK t \in Tips :
            Answered(IF job.values.base = Unset
                     THEN [job.values EXCEPT !.price = t]
                     ELSE [job.values EXCEPT !.priority = t,
                                             !.max = 2 * job.values.base + t])
      BY <2>8 DEF ReadFee
    <3> DEFINE v == IF job.values.base = Unset
                    THEN [job.values EXCEPT !.price = t]
                    ELSE [job.values EXCEPT !.priority = t,
                                            !.max = 2 * job.values.base + t]
    <3>2. Asks("fee") /\ Answered(v) /\ Answers("fee", v)
      BY <2>1, <2>8, <3>1 DEF ReadFee, Answers, ValueFields
    <3> QED
      BY <3>2 DEF Questions
  <2> QED
    BY <2>2, <2>3, <2>4, <2>5, <2>6, <2>7, <2>8
<1>2. PICK q \in Questions : Asks(q) /\ \E v : Answered(v) /\ Answers(q, v)
  BY <1>1
<1>3. ReadInv'
  BY <1>2, AnswerKeeps
<1>4. job.state = "reading" /\ job'.state \in {"reading", "building"}
  BY <1>2 DEF Asks, Answered, ReadInv
<1> QED
  BY <1>3, <1>4

\* What the builder fills in is what its validator computes again.
LEMMA FilledIsComputed ==
  ASSUME NEW o, NEW v
  PROVE  LET d == Drafted(o, v)
             r == Filled(d)
         IN  /\ Reserve(r) = Reserve(d)
             /\ r.readiness = Readiness(r, Reserve(r).balance.sufficient)
             /\ r.nonce = v.nonce /\ r.observed = v.observed
<1> DEFINE d == Drafted(o, v)
           r == Filled(d)
<1>1. /\ r.kind = d.kind /\ r.gas = d.gas /\ r.max = d.max /\ r.price = d.price
      /\ r.multiplier = d.multiplier /\ r.reserve = d.reserve
      /\ r.count = d.count /\ r.observed = d.observed /\ r.code = d.code
      /\ r.nonce = d.nonce
      /\ r.readiness = Readiness(d, Reserve(d).balance.sufficient)
  BY DEF Filled, Drafted
<1>2. d.nonce = v.nonce /\ d.observed = v.observed
  BY DEF Drafted
<1> HIDE DEF d, r
<1>3. FeePerGas(r) = FeePerGas(d) /\ (Priced(r) <=> Priced(d))
  BY <1>1 DEF FeePerGas, Priced
<1>4. Reserve(r) = Reserve(d)
  BY <1>1, <1>3, Zenon DEF Reserve, BatchReserve, DeploymentReserve
<1>5. \A s : Readiness(r, s) = Readiness(d, s)
  BY <1>1, <1>3, Zenon DEF Readiness
<1> QED
  BY <1>1, <1>2, <1>4, <1>5 DEF d, r

LEMMA BuildKeeps ==
  ASSUME PreparationInv, Build
  PROVE  PreparationInv'
<1> DEFINE r == Filled(Drafted(job.options, job.values))
<1>1. CASE BuildErrorsOf(job.options, r) \/ job.options.taken
  <2>1. Decline
    BY <1>1 DEF Build
  <2>2. ReadInv' /\ job'.state = "refused"
    BY <2>1, DeclineKeeps DEF PreparationInv
  <2> QED
    BY <2>1, <2>2 DEF Decline, PreparationInv, DocumentInv, Build
<1>2. CASE ~ (BuildErrorsOf(job.options, r) \/ job.options.taken)
  <2>1. /\ request' = r /\ job' = [job EXCEPT !.state = "built"]
        /\ UNCHANGED <<account, frozen, verdict, ahead>>
        /\ job.state = "building"
    BY <1>2 DEF Build
  <2>2. /\ job'.state = "built" /\ job'.options = job.options
        /\ job'.values = job.values /\ job'.todo = job.todo
        /\ DOMAIN job' = DOMAIN job
    BY <2>1 DEF PreparationInv, ReadInv
  <2>3. ReadInv'
    BY <2>1, <2>2 DEF PreparationInv, ReadInv, Held
  <2>4. SchemaErrors(r) = {}
    <3> HIDE DEF r
    <3> QED
      BY <1>2 DEF BuildErrorsOf, DeploymentErrors
  <2>5. verdict = "unjudged"
    BY <2>1 DEF PreparationInv, DocumentInv
  <2>6. DocumentInv'
    <3>1. request' = Filled(Drafted(job'.options, job'.values))
      BY <2>1, <2>2
    <3> HIDE DEF r
    <3> QED
      BY <2>1, <2>2, <2>4, <2>5, <3>1 DEF DocumentInv
  <2> QED
    BY <2>3, <2>6 DEF PreparationInv
<1> QED
  BY <1>1, <1>2

LEMMA EnvironmentKeeps ==
  ASSUME PreparationInv, SendOther \/ Mine \/ Recompile
  PROVE  PreparationInv'
<1>1. account \in [balance : Int, mined : Nat, pending : Seq(Nat)]
  BY DEF PreparationInv, ReadInv
<1>2. CASE SendOther
  <2>1. PICK c \in Costs : account' = [account EXCEPT !.pending = Append(@, c)]
    BY <1>2 DEF SendOther
  <2>2. c \in Nat
    BY AccountAssumption
  <2>3. /\ account' \in [balance : Int, mined : Nat, pending : Seq(Nat)]
        /\ account'.mined = account.mined /\ account'.balance = account.balance
    <3>1. Append(account.pending, c) \in Seq(Nat)
      BY <1>1, <2>2, AppendProperties
    <3>2. account' = [account EXCEPT !.pending = Append(account.pending, c)]
      BY <2>1
    <3> QED
      BY <1>1, <3>1, <3>2
  <2>4. ReadInv'
    BY <1>2, <2>3 DEF SendOther, PreparationInv, ReadInv, Held
  <2> QED
    BY <1>2, <2>4 DEF SendOther, PreparationInv, DocumentInv
<1>3. CASE Mine
  <2>1. /\ Head(account.pending) \in Nat /\ Tail(account.pending) \in Seq(Nat)
    BY <1>1, <1>3, HeadTailProperties DEF Mine
  <2>2. /\ account' \in [balance : Int, mined : Nat, pending : Seq(Nat)]
        /\ account'.mined = account.mined + 1
    BY <1>1, <1>3, <2>1 DEF Mine
  <2>3. ReadInv'
    BY <1>1, <1>3, <2>2 DEF Mine, PreparationInv, ReadInv, Held
  <2> QED
    BY <1>3, <2>3 DEF Mine, PreparationInv, DocumentInv
<1>4. CASE Recompile
  BY <1>4 DEF Recompile, PreparationInv, ReadInv, DocumentInv, Held
<1> QED
  BY <1>2, <1>3, <1>4

LEMMA EditKeeps ==
  ASSUME PreparationInv, Edit
  PROVE  PreparationInv'
<1>1. /\ job'.state = "edited" /\ DOMAIN job' = DOMAIN job
      /\ verdict' = "unjudged"
  BY DEF Edit, PreparationInv, ReadInv
<1>2. account' \in [balance : Int, mined : Nat, pending : Seq(Nat)]
  <2>1. <<>> \in Seq(Nat)
    OBVIOUS
  <2> QED
    BY <2>1 DEF Edit
<1> QED
  BY <1>1, <1>2 DEF PreparationInv, ReadInv, DocumentInv

LEMMA ValidateKeeps ==
  ASSUME PreparationInv, Validate
  PROVE  PreparationInv'
<1>1. ReadInv'
  BY DEF Validate, PreparationInv, ReadInv, Held
<1>2. verdict' = "accepted" => Errors(request, frozen) = {}
  BY DEF Validate
<1> QED
  BY <1>1, <1>2 DEF Validate, PreparationInv, DocumentInv

LEMMA PreparationKeeps ==
  ASSUME PreparationInv, [PreparationNext]_preparationVars
  PROVE  PreparationInv'
<1>1. CASE UNCHANGED preparationVars
  BY <1>1 DEF preparationVars, PreparationInv, ReadInv, DocumentInv, Held
<1>2. CASE CheckArguments
  <2>1. CASE ArgumentErrors(job.options)
    <3>1. Decline
      BY <1>2, <2>1 DEF CheckArguments
    <3> QED
      BY <1>2, <3>1, DeclineKeeps
         DEF Decline, CheckArguments, PreparationInv, DocumentInv
  <2>2. CASE ~ ArgumentErrors(job.options)
    <3>1. UNCHANGED <<request, verdict, frozen>> /\ job.state = "arguments"
      BY <1>2, <2>2 DEF CheckArguments
    <3> QED
      BY <1>2, <2>2, <3>1, CheckKeepsRead DEF PreparationInv, DocumentInv
  <2> QED
    BY <2>1, <2>2
<1>3. CASE NoAnswer
  <2>1. Decline /\ job.state = "reading"
    BY <1>3 DEF NoAnswer
  <2> QED
    BY <2>1, DeclineKeeps DEF Decline, PreparationInv, DocumentInv
<1>4. CASE \/ Connect \/ ReadCode \/ EstimateGas \/ ReadBlock \/ ReadNonce
           \/ ReadBalance \/ ReadFee
  <2>1. UNCHANGED <<request, verdict, frozen>>
    BY <1>4 DEF Connect, ReadCode, EstimateGas, ReadBlock, ReadNonce,
                ReadBalance, ReadFee, Answered
  <2> QED
    BY <1>4, <2>1, ReadingKeepsRead DEF PreparationInv, DocumentInv
<1> QED
  BY <1>1, <1>2, <1>3, <1>4, BuildKeeps, EnvironmentKeeps, EditKeeps,
     ValidateKeeps DEF PreparationNext

-----------------------------------------------------------------------------
(* What the invariant says.                                                *)

LEMMA BuiltIsPayable ==
  ASSUME PreparationInv, job.state = "built", request.readiness = "ready",
         ahead = 0, NextToSend(request)
  PROVE  Affords(account.balance, request)
<1>1. /\ request = Filled(Drafted(job.options, job.values))
      /\ SchemaErrors(request) = {} /\ job.todo = <<>>
  BY DEF PreparationInv, DocumentInv, ReadInv
<1>2. /\ Readiness(request, Reserve(request).balance.sufficient) = "ready"
      /\ request.nonce = job.values.nonce
      /\ request.observed = job.values.observed
  BY <1>1, FilledIsComputed
<1>3. Affords(request.observed, request)
  BY <1>1, <1>2, ReadyIsAfforded
<1>4. account.mined = job.values.nonce /\ account.mined \in Nat
  BY <1>2 DEF NextToSend, PreparationInv, ReadInv
<1>5. job.options.rpc
  BY <1>4, UnsetAssumption DEF PreparationInv, ReadInv
<1>6. Of(job.todo) = {}
  BY <1>1 DEF Of
<1>7. job.values.observed = account.balance
  BY <1>4, <1>5, <1>6 DEF PreparationInv, ReadInv, Held
<1> QED
  BY <1>2, <1>3, <1>7

\* A request of any size and price that is called ready can be paid: by the
\* balance it was compared with, once its validator accepted it, and by the
\* balance of the moment its nonce comes up, whatever the account sent while
\* the node was asked.  (build_unsigned_rule_anchor_request, _connected_values
\* and the two validators.)
THEOREM ReadyIsPaid == PreparationSpec => []ReadyIsPayable
<1>1. PreparationInv => ReadyIsPayable
  <2> SUFFICES ASSUME PreparationInv, request.readiness = "ready"
               PROVE  /\ verdict = "accepted" => InOrder(request, frozen)
                      /\ job.state = "built" /\ ahead = 0 /\ NextToSend(request)
                           => Affords(account.balance, request)
    BY DEF ReadyIsPayable, InOrder
  <2>1. verdict = "accepted" => InOrder(request, frozen)
    BY AcceptedIsInOrder DEF PreparationInv, DocumentInv
  <2> QED
    BY <2>1, BuiltIsPayable
<1>2. PreparationInit(Options, Balances) => PreparationInv
  BY PreparationStarts
<1>3. PreparationInv /\ [PreparationNext]_preparationVars => PreparationInv'
  BY PreparationKeeps
<1> QED
  BY <1>1, <1>2, <1>3, PTL DEF PreparationSpec
=============================================================================
