--------------------------------- MODULE Sweep ---------------------------------
(***************************************************************************)
(* ts/src/sweep.ts: move the feeder's whole balance, on every chain, to    *)
(* one destination.  A run reads every balance, has the node preflight     *)
(* every transfer, submits them all, waits, and reports; then it may be    *)
(* run again.                                                              *)
(*                                                                         *)
(* What makes it hard: a transfer that a run gave up on can still land     *)
(* while the next run holds a plan made before it did, any request may go  *)
(* unanswered, and the feeder spends from the same account.                *)
(*                                                                         *)
(* A transfer buys Fee of gas before it runs, is refunded what it did not  *)
(* use, and burns the whole Fee when it fails.  One that cannot buy its    *)
(* gas is not mined.  Left out: deposits to the account, reorganisations,  *)
(* keys, printing, and hosts without systemd, where the operator vouches   *)
(* that no feeder runs.  Amounts are counted in the smallest unit.         *)
(***************************************************************************)
EXTENDS Integers, FiniteSets

CONSTANTS
    Chain,
    Fee,            \* GAS_LIMIT times the gas price
    Funds,          \* the balances the account may start with
    Nothing,        \* no amount to move
    RunBound        \* bound on the number of runs

ASSUME FeeAssumption == Fee \in Nat \ {0}
ASSUME FundsAssumption == Funds \subseteq Nat
ASSUME NothingAssumption == Nothing \notin Nat
ASSUME RunAssumption == RunBound \in Nat

VARIABLES
    from,           \* per chain: the feeder account's balance
    to,             \* per chain: what the destination received
    pending,        \* transfers that can still be mined
    landed,         \* transfers mined as successes
    burned,         \* transfers mined as failures
    feeder,         \* is the feeder service running?
    runs,           \* how many runs have begun
    dry,            \* TRUE: this run was not given --send
    at,             \* per chain: where the run is
    amount,         \* per chain: what the run plans to move
    report,         \* how the last run ended
    trouble         \* what has gone wrong: "node", no answer; "feeder", it ran

chainVars == <<from, to, pending, landed, burned>>
runVars == <<runs, dry, at, amount, report>>
vars == <<chainVars, feeder, runVars, trouble>>

Step == {"idle", "read", "check", "send", "submit", "wait", "skip", "moved", "failed"}
Transfer == [chain : Chain, run : Nat, amount : Nat]

--------------------------------------------------------------------------------
(* Plans. *)

\* Mutant: twice the gas is kept back, to be on the safe side.
PlanWithMargin(balance) == IF balance <= 2 * Fee THEN Nothing ELSE balance - 2 * Fee

\* Mutant: a balance that just covers the gas is not taken for dust.
PlanAtFee(balance) == IF balance < Fee THEN Nothing ELSE balance - Fee

\* What to move of a balance: all but the gas the transfer may buy.
Plan(balance) == IF balance <= Fee THEN Nothing ELSE balance - Fee

\* readBalance: the exact decimal; an account the chain does not know holds none.
Balance(c) == from[c]

\* systemctl is-active: a unit that waits for its restart is not active.
FeederIsActive == feeder

\* The node's preflight of a transfer: gas, then an amount coin accepts.
Preflights(c) == from[c] >= Fee /\ amount[c] > 0 /\ from[c] - Fee >= amount[c]

All(S) == \A c \in Chain : at[c] \in S
Answered == UNCHANGED trouble
Unanswered == trouble' = trouble \cup {"node"}
Running == ~ All({"idle"})
Mine(c) == [chain |-> c, run |-> runs, amount |-> amount[c]]

Go(c, step) == at' = [at EXCEPT ![c] = step]
Exit(how) == at' = [c \in Chain |-> "idle"] /\ report' = how

--------------------------------------------------------------------------------
(* A run. *)

\* main, up to the first balance: refused while the service is active.
Begin(withoutSend) ==
    /\ ~ Running
    /\ ~ FeederIsActive
    /\ runs < RunBound
    /\ runs' = runs + 1
    /\ dry' = withoutSend
    /\ at' = [c \in Chain |-> "read"]
    /\ amount' = [c \in Chain |-> Nothing]
    /\ report' = "none"
    /\ UNCHANGED <<chainVars, feeder, trouble>>

\* Mutant: a balance that could not be read counts as none.
ReadOrZero(c) ==
    /\ at[c] = "read"
    /\ \E balance \in {Balance(c), 0} :
          /\ amount' = [amount EXCEPT ![c] = Plan(balance)]
          /\ Go(c, IF Plan(balance) = Nothing THEN "skip" ELSE "check")
          /\ IF balance = Balance(c) THEN Answered ELSE Unanswered
    /\ UNCHANGED <<chainVars, feeder, runs, dry, report>>

\* readBalance and plan.  A balance that cannot be read ends the run (Die).
Read(c) ==
    /\ at[c] = "read"
    /\ amount' = [amount EXCEPT ![c] = Plan(Balance(c))]
    /\ Go(c, IF Plan(Balance(c)) = Nothing THEN "skip" ELSE "check")
    /\ UNCHANGED <<chainVars, feeder, runs, dry, report, trouble>>

\* Build, sign and preflight one transfer, once every balance is read.
Check(c) ==
    /\ at[c] = "check"
    /\ \A d \in Chain : at[d] # "read"
    /\ \/ /\ Preflights(c)
          /\ Go(c, "send")
          /\ UNCHANGED report
       \/ /\ ~ Preflights(c)
          /\ Exit("failed")
    /\ UNCHANGED <<chainVars, feeder, runs, dry, amount, trouble>>

\* sendBuilt preflights again; the other chains go on when one fails.
Send(c) ==
    /\ at[c] = "send"
    /\ ~ dry
    /\ \A d \in Chain : at[d] # "check"
    /\ \/ Preflights(c) /\ Go(c, "submit") /\ Answered
       \/ ~ Preflights(c) /\ Go(c, "failed") /\ Answered
       \/ Go(c, "failed") /\ Unanswered
    /\ UNCHANGED <<chainVars, feeder, runs, dry, amount, report>>

\* A submit that fails may have reached the node.
Submit(c) ==
    /\ at[c] = "submit"
    /\ \/ pending' = pending \cup {Mine(c)} /\ Go(c, "wait") /\ Answered
       \/ /\ pending' \in {pending, pending \cup {Mine(c)}}
          /\ Go(c, "failed") /\ Unanswered
    /\ UNCHANGED <<from, to, landed, burned, feeder, runs, dry, amount, report>>

\* Mutant: a transfer that was not mined while the run waited counts as moved.
WaitIsEnough(c) ==
    /\ at[c] = "wait"
    /\ \/ Mine(c) \in landed /\ Go(c, "moved") /\ Answered
       \/ Go(c, "moved") /\ Unanswered
       \/ Mine(c) \in burned /\ Go(c, "failed") /\ Answered
    /\ UNCHANGED <<chainVars, feeder, runs, dry, amount, report>>

\* pollMined: mined, or given up on after ten minutes.
Wait(c) ==
    /\ at[c] = "wait"
    /\ \/ Mine(c) \in landed /\ Go(c, "moved") /\ Answered
       \/ Mine(c) \in burned /\ Go(c, "failed") /\ Answered
       \/ Go(c, "failed") /\ Unanswered
    /\ UNCHANGED <<chainVars, feeder, runs, dry, amount, report>>

\* The verdict, after the balances are read back.
End ==
    /\ Running
    /\ \/ All({"skip"}) /\ Exit("nothing")
       \/ dry /\ All({"skip", "send"}) /\ ~ All({"skip"}) /\ Exit("dry")
       \/ /\ All({"skip", "moved", "failed"}) /\ ~ All({"skip"})
          /\ Exit(IF \E c \in Chain : at[c] = "failed" THEN "failed" ELSE "complete")
    /\ UNCHANGED <<chainVars, feeder, runs, dry, amount, trouble>>

\* A request outside the parallel part that is not answered, or an interrupt.
Die ==
    /\ Running
    /\ Exit("failed")
    /\ Unanswered
    /\ UNCHANGED <<chainVars, feeder, runs, dry, amount>>

--------------------------------------------------------------------------------
(* The chains, and the feeder beside them. *)

Land(t) ==
    /\ t \in pending
    /\ from[t.chain] >= Fee
    /\ pending' = pending \ {t}
    /\ \/ /\ from[t.chain] - Fee >= t.amount
          /\ \E gas \in 1..Fee : from' = [from EXCEPT ![t.chain] = @ - t.amount - gas]
          /\ to' = [to EXCEPT ![t.chain] = @ + t.amount]
          /\ landed' = landed \cup {t}
          /\ UNCHANGED burned
       \/ /\ from[t.chain] - Fee < t.amount
          /\ from' = [from EXCEPT ![t.chain] = @ - Fee]
          /\ burned' = burned \cup {t}
          /\ UNCHANGED <<to, landed>>
    /\ UNCHANGED <<feeder, runVars, trouble>>

\* The time to live of a pending transfer runs out.
Expire(t) ==
    /\ t \in pending
    /\ pending' = pending \ {t}
    /\ Unanswered
    /\ UNCHANGED <<from, to, landed, burned, feeder, runVars>>

\* systemd's automatic restart, which is-active does not count as active, or
\* the operator.
FeederSwitches ==
    /\ feeder' = ~ feeder
    /\ trouble' = trouble \cup {"feeder"}
    /\ UNCHANGED <<chainVars, runVars>>

FeederSpends(c) ==
    /\ feeder
    /\ from[c] > 0
    /\ from' = [from EXCEPT ![c] = @ - 1]
    /\ UNCHANGED <<to, pending, landed, burned, feeder, runVars, trouble>>

--------------------------------------------------------------------------------
Init ==
    /\ from \in [Chain -> Funds]
    /\ to = [c \in Chain |-> 0]
    /\ pending = {} /\ landed = {} /\ burned = {}
    /\ feeder = FALSE
    /\ runs = 0 /\ dry = TRUE
    /\ at = [c \in Chain |-> "idle"]
    /\ amount = [c \in Chain |-> Nothing]
    /\ report = "none"
    /\ trouble = {}

RunStep ==
    \/ \E b \in BOOLEAN : Begin(b)
    \/ \E c \in Chain : Read(c) \/ Check(c) \/ Send(c) \/ Submit(c) \/ Wait(c)
    \/ End \/ Die

Next ==
    \/ RunStep
    \/ \E t \in pending : Land(t) \/ Expire(t)
    \/ FeederSwitches
    \/ \E c \in Chain : FeederSpends(c)

Spec == Init /\ [][Next]_vars

--------------------------------------------------------------------------------
(* Properties. *)

\* Amounts are never negative, and a run is somewhere main can be.
TypeOK ==
    /\ from \in [Chain -> Nat] /\ to \in [Chain -> Nat]
    /\ pending \subseteq Transfer /\ landed \subseteq Transfer /\ burned \subseteq Transfer
    /\ feeder \in BOOLEAN /\ runs \in Nat /\ dry \in BOOLEAN
    /\ at \in [Chain -> Step]
    /\ amount \in [Chain -> Nat \cup {Nothing}]
    /\ report \in {"none", "nothing", "dry", "failed", "complete"}
    /\ trouble \subseteq {"node", "feeder"}

\* "SWEEP COMPLETE" and "nothing to move" are true of every chain: no more than
\* the gas of a transfer is left, whatever earlier runs left in flight, whatever
\* the node did not answer and whatever the feeder spent meanwhile
\* (sweep.ts:96, 140).
CompleteMeansSwept ==
    report \in {"complete", "nothing"} => \A c \in Chain : from[c] <= Fee

\* A re-run may submit a second transfer of a chain while the first is in
\* flight, but only one of them can ever be mined: what the first leaves behind
\* cannot buy the gas of the second, so none burns gas (sweep.ts:51-55, 139).
NoTransferBurnsGas == "feeder" \notin trouble => burned = {}

\* When every request is answered and no feeder runs, no balance, dust and the
\* exact gas included, makes a run end in failure (sweep.ts:53, 118).
CalmRunsSucceed == trouble = {} => report # "failed"

\* A chain's whole balance arrives in one transfer or not at all: what overlapping
\* re-runs submit beside it never pays the destination twice (sweep.ts:50-55, 129-139).
DestinationIsPaidOnce ==
    \A c \in Chain :
        LET mined == {t \in landed : t.chain = c} IN
        \/ mined = {} /\ to[c] = 0
        \/ \E t \in mined : mined = {t} /\ to[c] = t.amount

(* The inductive invariant behind both. *)

Planned == {"check", "send", "submit", "wait"}

\* A transfer of a from c takes all but the gas, or cannot buy its gas any more.
Untouched(c, a) == from[c] = a + Fee \/ from[c] < Fee

\* What is in flight or planned was made from a balance that has not grown since.
PlansCover ==
    /\ \A t \in pending : from[t.chain] <= t.amount + Fee
    /\ \A c \in Chain : at[c] \in Planned => amount[c] \in Nat /\ from[c] <= amount[c] + Fee

\* A chain that was moved, or was not worth moving, holds no more than the gas.
SweptOK ==
    /\ \A t \in landed : from[t.chain] <= Fee
    /\ \A c \in Chain : at[c] \in {"skip", "moved"} => from[c] <= Fee
    /\ CompleteMeansSwept

\* Without the feeder, no second transfer of a chain can do more than expire.
PlansExact == "feeder" \notin trouble =>
    /\ ~ feeder /\ burned = {}
    /\ \A t \in pending : Untouched(t.chain, t.amount)
    /\ \A c \in Chain : at[c] \in Planned => Untouched(c, amount[c])

SweepOK == TypeOK /\ PlansCover /\ SweptOK /\ PlansExact

\* While all goes well, what is in flight is this run's and is waited for, and what
\* is planned and not yet sent still passes the node's preflight.
CalmOK == trouble = {} =>
    /\ CalmRunsSucceed
    /\ pending \cap landed = {}
    /\ \A t \in pending : at[t.chain] = "wait" /\ t = Mine(t.chain)
    /\ \A c \in Chain :
          /\ at[c] # "failed"
          /\ at[c] = "wait" => Mine(c) \in pending \cup landed
          /\ at[c] \in {"check", "send", "submit"} => amount[c] > 0 /\ from[c] = amount[c] + Fee

\* A transfer of a chain leaves less than the gas of another one behind, and what
\* the destination received there is its amount.
PaidOK ==
    /\ \A t \in landed : from[t.chain] < Fee /\ to[t.chain] = t.amount
    /\ \A t, u \in landed : t.chain = u.chain => t = u
    /\ \A c \in Chain : (\A t \in landed : t.chain # c) => to[c] = 0
=============================================================================
