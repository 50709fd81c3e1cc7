---------------------------- MODULE AnchorLedger ----------------------------
(***************************************************************************)
(* What frozen-rule anchoring promises: a public, write-once ledger from   *)
(* keys (a deployed contract and a Merkle root) to manifest fingerprints,  *)
(* and evidence that is only ever issued for what the ledger says.         *)
(*                                                                         *)
(* contracts/CoreRuleAnchor.sol and scripts/verify_rule_anchor_onchain.py  *)
(* are meant to implement it; RuleAnchorVerifier shows when they do.       *)
(***************************************************************************)
CONSTANTS
    Key,        \* what can be anchored: a contract and a Merkle root
    Manifest,   \* manifest fingerprints
    Zero        \* the value of a slot nobody wrote

VARIABLES
    ledger,     \* the manifest recorded for each key, or Zero
    attested    \* the key and manifest pairs evidence was issued for

ledgerVars == <<ledger, attested>>
-----------------------------------------------------------------------------
LedgerInit ==
    /\ ledger = [k \in Key |-> Zero]
    /\ attested = {}

\* A key is recorded once: the first writer wins.
Record(k, m) ==
    /\ ledger[k] = Zero
    /\ ledger' = [ledger EXCEPT ![k] = m]
    /\ UNCHANGED attested

\* Evidence can be issued for what the ledger already says.
Attest(k, m) ==
    /\ ledger[k] = m
    /\ attested' = attested \cup {<<k, m>>}
    /\ UNCHANGED ledger

LedgerNext == \E k \in Key, m \in Manifest : Record(k, m) \/ Attest(k, m)

LedgerSpec == LedgerInit /\ [][LedgerNext]_ledgerVars
=============================================================================
