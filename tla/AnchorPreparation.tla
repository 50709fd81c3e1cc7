-------------------------- MODULE AnchorPreparation --------------------------
(***************************************************************************)
(* Preparing an unsigned transaction (scripts/prepare_rule_anchor_transac- *)
(* tion.py, prepare_core_rule_anchor_deployment.py) while the account that *)
(* is to send it goes on sending, editing the prepared request, and        *)
(* validating it (scripts/validate_unsigned_rule_anchor_*.py).             *)
(***************************************************************************)
EXTENDS AnchorRequest, Sequences, SequencesExt

CONSTANTS
    Options,        \* the command lines of the two scripts
    Revisions(_),   \* what a document may be edited to
    Balances,       \* what the account may own at first
    Costs,          \* what another transaction of the account may cost
    MaxSends,       \* bound: other transactions of the account
    Estimates,      \* answers of estimate_gas
    BaseFees,       \* the base fee of the latest block, or Unset before EIP-1559
    Tips            \* answers of max_priority_fee, and of gas_price

ASSUME AccountAssumption == Balances \subseteq Nat /\ Costs \subseteq Nat

VARIABLES
    account,    \* [balance, mined, pending]: pending are the costs of the
                \* transactions that were sent and are not mined
    frozen,     \* the contract's build: a version, or "broken" digests
    job,        \* [state, options, todo, values] of the preparation
    request,    \* the prepared document, edited or not
    verdict,    \* what its validator answered
    ahead       \* history: transactions pending when the nonce was read

preparationVars == <<account, frozen, job, request, verdict, ahead>>

NoRequest == [kind |-> "nothing"]

Given(o) ==
  [nonce |-> Unset, gas |-> o.gas, max |-> o.max, priority |-> o.priority,
   price |-> o.price, observed |-> Unset, code |-> Unset, base |-> Unset,
   build |-> frozen]

\* Mutant of Reads: the balance is read before the nonce.
BalanceFirst(kind) ==
  <<"connect">> \o (IF kind = "anchor" THEN <<"code">> ELSE <<>>)
  \o <<"estimate", "block", "balance", "nonce", "fee">>

\* The values a node is asked for, in the order the scripts ask; a contract
\* that is to be deployed has no code yet.
Reads(kind) ==
  <<"connect">> \o (IF kind = "anchor" THEN <<"code">> ELSE <<>>)
  \o <<"estimate", "block", "nonce", "balance", "fee">>

PreparationInit(options, balances) ==
  /\ account \in [balance : balances, mined : {0}, pending : {<<>>}]
  /\ frozen = "version 1"
  /\ job \in [state : {"arguments"}, options : options, todo : {<<>>},
              values : {<<>>}]
  /\ request = NoRequest
  /\ verdict = "unjudged"
  /\ ahead = 0
-----------------------------------------------------------------------------
Decline ==
  /\ job' = [job EXCEPT !.state = "refused"]
  /\ UNCHANGED <<account, frozen, request, verdict, ahead>>

\* parser.error before anything is read: the batch of an anchor, what a
\* deployment must not be asked to do, and manual prices beside a node's.
ArgumentErrors(o) ==
  \/ o.max # Unset /\ o.price # Unset
  \/ o.kind = "anchor" /\ ~o.batch
  \/ /\ o.kind = "deployment"
     /\ \/ ~o.address
        \/ o.multiplier < FullRate
        \/ o.reserve < 0
        \/ o.gas # Unset /\ o.gas <= 0
        \/ \E v \in {o.max, o.priority, o.price} \ {Unset} : v < 0
        \/ o.priority # Unset /\ (o.max # Unset => o.priority > o.max)
        \/ o.priority # Unset /\ o.max = Unset
        \/ ~Verified(frozen)
  \/ o.rpc /\ {o.gas, o.max, o.priority, o.price} # {Unset}

CheckArguments ==
  /\ job.state = "arguments"
  /\ IF ArgumentErrors(job.options) THEN Decline
     ELSE /\ job' = [job EXCEPT
               !.state = IF job.options.rpc THEN "reading" ELSE "building",
               !.todo = IF job.options.rpc THEN Reads(job.options.kind) ELSE <<>>,
               !.values = Given(job.options)]
          /\ UNCHANGED <<account, frozen, request, verdict, ahead>>

Asks(read) == job.state = "reading" /\ job.todo # <<>> /\ Head(job.todo) = read

Answered(values) ==
  /\ job' = [job EXCEPT !.values = values, !.todo = Tail(@),
                        !.state = IF Len(job.todo) = 1 THEN "building" ELSE @]
  /\ UNCHANGED <<account, frozen, request, verdict>>

\* Any question may stay unanswered or have a wrong answer: another chain, no
\* code at the address, an estimate of what is anchored already, no tip.
NoAnswer == job.state = "reading" /\ Decline

Connect == Asks("connect") /\ Answered(job.values) /\ UNCHANGED ahead

ReadCode ==
  /\ Asks("code")
  /\ Answered([job.values EXCEPT !.code = TRUE])
  /\ UNCHANGED ahead

\* The estimate is raised by the safety multiplier, as the reserve is again.
EstimateGas ==
  /\ Asks("estimate")
  /\ \E e \in Estimates :
       Answered([job.values EXCEPT
                   !.gas = Ceiling(e * job.options.multiplier, FullRate)])
  /\ UNCHANGED ahead

ReadBlock ==
  /\ Asks("block")
  /\ \E b \in BaseFees : Answered([job.values EXCEPT !.base = b])
  /\ UNCHANGED ahead

\* The nonce counts what is pending; the balance is that of the latest block.
ReadNonce ==
  /\ Asks("nonce")
  /\ Answered([job.values EXCEPT !.nonce = account.mined + Len(account.pending)])
  /\ ahead' = Len(account.pending)

ReadBalance ==
  /\ Asks("balance")
  /\ Answered([job.values EXCEPT !.observed = account.balance])
  /\ UNCHANGED ahead

\* The legacy price, or a tip on top of twice the base fee.
ReadFee ==
  /\ Asks("fee")
  /\ \E t \in Tips :
       Answered(IF job.values.base = Unset
                THEN [job.values EXCEPT !.price = t]
                ELSE [job.values EXCEPT !.priority = t,
                                        !.max = 2 * job.values.base + t])
  /\ UNCHANGED ahead

Drafted(o, v) ==
  LET named == IF o.kind = "anchor" THEN "batch" ELSE v.build
  IN
  [kind |-> o.kind, manifest |-> named, runtime |-> v.build, count |-> o.count,
   data |-> [selector |-> "anchorRuleBatch", root |-> "root",
             manifest |-> named, count |-> o.count],
   to |-> "contract", lower |-> TRUE, nonce |-> v.nonce, gas |-> v.gas,
   max |-> v.max, priority |-> v.priority, price |-> v.price,
   reserve |-> o.reserve, multiplier |-> o.multiplier, observed |-> v.observed,
   code |-> v.code, reserved |-> Unset, readiness |-> "?", secrets |-> FALSE,
   warned |-> TRUE, sealed |-> TRUE]

\* What the builder rejects; a deployment is given to its validator.
BuildErrorsOf(o, r) ==
  IF o.kind = "anchor"
  THEN \/ ~o.address \/ o.reserve < 1 \/ o.multiplier < FullRate
       \/ r.price # Unset /\ r.max # Unset
       \/ SchemaErrors(r) # {}
  ELSE DeploymentErrors(r, frozen) # {}

\* The request is built and written where there is nothing yet.
Build ==
  /\ job.state = "building"
  /\ LET r == Filled(Drafted(job.options, job.values))
     IN  IF BuildErrorsOf(job.options, r) \/ job.options.taken THEN Decline
         ELSE /\ request' = r
              /\ job' = [job EXCEPT !.state = "built"]
              /\ UNCHANGED <<account, frozen, verdict, ahead>>
-----------------------------------------------------------------------------
\* The account sends something else, of a wallet or another request.
SendOther ==
  /\ job.state \in {"reading", "building", "built"}
  /\ job.options.rpc
  /\ account.mined + Len(account.pending) < MaxSends
  /\ \E c \in Costs :
       /\ FoldLeft(LAMBDA m, n : m + n, c, account.pending) <= account.balance
       /\ account' = [account EXCEPT !.pending = Append(@, c)]
  /\ UNCHANGED <<frozen, job, request, verdict, ahead>>

\* The oldest transaction is mined and paid.
Mine ==
  /\ account.pending # <<>>
  /\ account' = [balance |-> account.balance - Head(account.pending),
                 mined |-> account.mined + 1, pending |-> Tail(account.pending)]
  /\ UNCHANGED <<frozen, job, request, verdict, ahead>>

\* The contract is compiled again, or an artifact of it is edited.
Recompile ==
  /\ job.options.kind = "deployment"
  /\ frozen = "version 1" /\ verdict = "unjudged"
  /\ frozen' \in {"version 2", "broken"}
  /\ UNCHANGED <<account, job, request, verdict, ahead>>

\* The document is edited; what the account does no longer matters to it.
Edit ==
  /\ job.state = "built" /\ verdict = "unjudged"
  /\ request' \in Revisions(request) \ {request}
  /\ job' = [job EXCEPT !.state = "edited", !.values = <<>>,
                        !.options = [kind |-> request.kind]]
  /\ account' = [balance |-> 0, mined |-> 0, pending |-> <<>>]
  /\ ahead' = 0
  /\ UNCHANGED <<frozen, verdict>>

\* The validator is given the document, or a path it cannot read it from; what
\* is not text ends it.
Validate ==
  /\ request # NoRequest /\ verdict = "unjudged"
  /\ \/ verdict' = IF Errors(request, frozen) = {} THEN "accepted" ELSE "rejected"
     \/ verdict' \in {"rejected", "crashed"}
  /\ UNCHANGED <<account, frozen, job, request, ahead>>

PreparationNext ==
  \/ CheckArguments \/ NoAnswer
  \/ Connect \/ ReadCode \/ EstimateGas \/ ReadBlock \/ ReadNonce
  \/ ReadBalance \/ ReadFee
  \/ Build
  \/ SendOther \/ Mine \/ Recompile
  \/ Edit \/ Validate

PreparationSpec ==
  PreparationInit(Options, Balances) /\ [][PreparationNext]_preparationVars
-----------------------------------------------------------------------------
\* What a request may cost, exactly: its batches at the raised price, or its
\* deployment with what must be left.  Compared without a division.
Affords(balance, r) ==
  IF r.kind = "anchor"
  THEN balance * FullRate >= r.reserve * r.gas * FeePerGas(r) * r.multiplier
  ELSE balance >= r.gas * FeePerGas(r) + r.reserve

\* The account has sent what came before the request, and nothing since.
NextToSend(r) == account.mined = r.nonce /\ account.pending = <<>>

(* "ready" is earned, whoever wrote it.  A request that the validator accepts
   has one kind of fee, that its tip does not exceed, was compared with a
   balance that pays its reserve in full although every price is rounded, and
   calls for the batch it names on verified code, or deploys the contract as it
   is frozen.  And a request prepared from a node, if nothing of the account was
   pending when its nonce was read, is affordable whenever its nonce is the next
   one: nothing sent in the course of the readings can make it promise money
   that is spent. *)
ReadyIsPayable ==
  request # NoRequest /\ request.readiness = "ready" =>
    /\ verdict = "accepted" =>
         /\ {request.max, request.price} # {Unset}
         /\ Unset \in {request.max, request.price}
         /\ {request.max, request.priority} \subseteq Nat =>
              request.priority <= request.max
         /\ Affords(request.observed, request)
         /\ IF request.kind = "anchor"
            THEN /\ request.code = TRUE
                 /\ request.data.manifest = request.manifest
                 /\ request.data.count * request.reserved.perRule
                       >= request.reserved.cost
            ELSE /\ request.data.manifest = frozen
                 /\ request.manifest = frozen
    /\ job.state = "built" /\ ahead = 0 /\ NextToSend(request) =>
         Affords(account.balance, request)
=============================================================================
