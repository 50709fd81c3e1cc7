----------------------------- MODULE MCRuleFiles -----------------------------
(***************************************************************************)
(* Small instances of the two ways a rule is vouched for.  Approvals: a    *)
(* rule set that two of two wallets must approve, its amendment that one   *)
(* must approve, one that is invalid, and two deployments to approve them  *)
(* for.  Private commitments: one path inside the repository and two       *)
(* outside that two processes share.  They share no state: a behaviour     *)
(* moves one of them.                                                      *)
(***************************************************************************)
EXTENDS RuleApproval, PrivateCommitment, TLC

CONSTANTS original, amended, broken, w1, w2, v1, v2, inside, outside, elsewhere

VARIABLE moving

MCAuthorized ==
    (original :> {w1, w2}) @@ (amended :> {w1}) @@ (broken :> {w1})

MCThreshold == (original :> 2) @@ (amended :> 1) @@ (broken :> 1)

Interchangeable ==
    Permutations(Place) \cup Permutations(Runner) \cup Permutations(Path \ Public)

EitherInit ==
    /\ moving \in {"approval", "commitment"}
    /\ ApprovalInit
    /\ Init

EitherNext ==
    /\ UNCHANGED moving
    /\ \/ moving = "approval" /\ ApprovalNext /\ UNCHANGED vars
       \/ moving = "commitment" /\ Next /\ UNCHANGED approvalVars

EitherSpec == EitherInit /\ [][EitherNext]_<<moving, approvalVars, vars>>
=============================================================================
