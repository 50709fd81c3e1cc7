---------------------------- MODULE AnchorRequest ----------------------------
(***************************************************************************)
(* Unsigned transactions (core_runtime/core/rule_anchor.py): a request to  *)
(* anchor a batch or to deploy the contract, priced and compared with an   *)
(* observed balance by its builder, and recomputed by its validator.       *)
(* Both kinds are a record: "reserve" is the number of batches a request   *)
(* to anchor must be able to pay, the amount a deployment must leave over. *)
(***************************************************************************)
EXTENDS Integers, FiniteSets

CONSTANT Unset      \* null: a value nobody gave, observed or could compute

ASSUME UnsetAssumption == Unset \notin Int /\ Unset \notin BOOLEAN

FullRate == 10000   \* safety_multiplier_bps of a price as it is

\* Round up: (n + d - 1) // d.
Ceiling(n, d) == (n + d - 1) \div d

\* fee_per_gas: the EIP-1559 maximum, or the legacy price.
FeePerGas(r) == IF r.max # Unset THEN r.max ELSE r.price

Priced(r) == r.gas # Unset /\ FeePerGas(r) # Unset

Larger(m, n) == IF m < n THEN n ELSE m

\* What the fields "required" and "observed" say of the balance.
Compared(required, observed) ==
  [required |-> required,
   sufficient |-> IF Unset \in {required, observed} THEN Unset
                  ELSE observed >= required,
   shortfall |-> IF Unset \in {required, observed} THEN Unset
                 ELSE Larger(0, required - observed)]

NoReserve == [cost |-> Unset, perRule |-> Unset,
              balance |-> Compared(Unset, Unset)]

\* The gas reserve a builder writes into a request to anchor: the most a batch
\* may cost, of it the share of a rule set, and the balance for its batches.
BatchReserve(r) ==
  LET cost == Ceiling(r.gas * FeePerGas(r) * r.multiplier, FullRate)
  IN  IF Priced(r)
      THEN [cost |-> cost, perRule |-> Ceiling(cost, r.count),
            balance |-> Compared(cost * r.reserve, r.observed)]
      ELSE NoReserve

\* The gas reserve of a deployment.
DeploymentReserve(r) ==
  LET cost == r.gas * FeePerGas(r)
  IN  IF Priced(r)
      THEN [cost |-> cost, perRule |-> Unset,
            balance |-> Compared(cost + r.reserve, r.observed)]
      ELSE NoReserve

Reserve(r) == IF r.kind = "anchor" THEN BatchReserve(r) ELSE DeploymentReserve(r)

\* Each validator computes the reserve again in code of its own, a copy of the
\* builder's that may come to differ from it.
ExpectedBatchReserve(r) ==
  LET expected == Ceiling(r.gas * FeePerGas(r) * r.multiplier, FullRate)
  IN  IF ~ Priced(r) THEN NoReserve
      ELSE [cost |-> expected, perRule |-> Ceiling(expected, r.count),
            balance |-> Compared(expected * r.reserve, r.observed)]

ExpectedDeploymentReserve(r) ==
  LET expected == r.gas * FeePerGas(r)
  IN  IF ~ Priced(r) THEN NoReserve
      ELSE [cost |-> expected, perRule |-> Unset,
            balance |-> Compared(expected + r.reserve, r.observed)]

ExpectedReserve(r) ==
  IF r.kind = "anchor" THEN ExpectedBatchReserve(r)
                       ELSE ExpectedDeploymentReserve(r)

\* How far a request is from being sent.  A deployment has no code to verify.
Readiness(r, sufficient) ==
  CASE sufficient = FALSE -> "insufficient_balance"
    [] sufficient # FALSE /\ r.kind = "anchor" /\ r.code # TRUE ->
         "contract_unverified"
    [] sufficient = TRUE /\ (r.kind = "anchor" => r.code = TRUE) -> "ready"
    [] OTHER -> IF Priced(r) THEN "balance_unobserved" ELSE "offline_unpriced"

\* The builder fills in what follows from its arguments.
Filled(r) ==
  [r EXCEPT !.reserved = Reserve(r),
            !.readiness = Readiness(r, Reserve(r).balance.sufficient)]
-----------------------------------------------------------------------------
Numbers(r) == {r.gas, r.max, r.priority, r.price, r.observed, r.nonce,
               r.reserved.cost, r.reserved.perRule,
               r.reserved.balance.required, r.reserved.balance.shortfall}

\* unsigned_rule_anchor_transaction.v1.json, unsigned_rule_anchor_deployment.v1.
SchemaErrors(r) ==
  LET ok == /\ Numbers(r) \ {Unset} \subseteq Nat
            /\ IF r.kind = "anchor"
               THEN /\ r.count \in Nat \ {0} /\ r.reserve \in Nat \ {0}
                    /\ r.multiplier \in Nat /\ r.multiplier >= FullRate
               ELSE /\ r.reserve \in Nat /\ r.gas # 0
                    /\ r.readiness # "contract_unverified"
            /\ ~r.secrets
  IN  IF ok THEN {} ELSE {"schema_validation_error"}

\* _wallet_secret_errors: a key that names a secret, at any depth.
SecretErrors(r) == IF r.secrets THEN {"wallet_secret_forbidden"} ELSE {}

Coded(bad, code) == IF bad THEN {code} ELSE {}

FeeErrors(r) ==
  Coded(r.max # Unset /\ r.price # Unset, "mutually_exclusive_fee_modes")
  \cup Coded(r.max # Unset /\ r.priority # Unset /\ r.priority > r.max,
             "priority_fee_exceeds_max_fee")
  \cup Coded(r.kind = "deployment" /\ r.priority # Unset /\ r.max = Unset,
             "priority_fee_without_max_fee")

\* The call data of anchorRuleBatch; its root and mask are not looked at.
CallErrors(r) ==
  Coded(r.data.selector # "anchorRuleBatch", "calldata_selector_mismatch")
  \cup Coded(r.data.manifest # r.manifest, "calldata_manifest_mismatch")
  \cup Coded(r.data.count # r.count, "calldata_rule_count_mismatch")

\* load_verified_rule_anchor_build: the artifacts of the contract, unless one
\* of them differs from its digest in the build file.
Verified(build) == build # "broken"

BuildErrors(r, build) ==
  IF ~Verified(build) THEN {"frozen_contract_build_unverified"}
  ELSE Coded(r.manifest # build, "contract_build_fingerprint_mismatch")
       \cup Coded(r.runtime # build, "runtime_bytecode_fingerprint_mismatch")
       \cup Coded(r.data.manifest # build, "deployment_bytecode_mismatch")

ReserveErrors(r) ==
  Coded(r.reserved # ExpectedReserve(r), "gas_reserve_mismatch")

ReadinessErrors(r) ==
  Coded(r.readiness # Readiness(r, ExpectedReserve(r).balance.sufficient),
        "readiness_mismatch")

SealErrors(r) == Coded(~r.sealed, "fingerprint_mismatch")

\* validate_unsigned_rule_anchor_request_payload.
TransactionErrors(r) ==
  SchemaErrors(r) \cup SecretErrors(r) \cup FeeErrors(r) \cup CallErrors(r)
  \cup ReserveErrors(r) \cup ReadinessErrors(r) \cup SealErrors(r)

\* validate_unsigned_rule_anchor_deployment_payload.
DeploymentErrors(r, build) ==
  SchemaErrors(r) \cup SecretErrors(r)
  \cup Coded(~r.lower, "noncanonical_deployer_address")
  \cup BuildErrors(r, build) \cup FeeErrors(r)
  \cup ReserveErrors(r) \cup ReadinessErrors(r)
  \cup Coded(~r.warned, "required_safety_warning_missing")
  \cup SealErrors(r)

Errors(r, build) ==
  IF r.kind = "anchor" THEN TransactionErrors(r) ELSE DeploymentErrors(r, build)
=============================================================================
