------------------------------ MODULE SweepProofs ------------------------------
(***************************************************************************)
(* Theorems about Sweep for every set of chains, every gas fee, every      *)
(* starting balance and every number of runs.                              *)
(***************************************************************************)
EXTENDS Sweep, TLAPS

LEMMA InitOK == Init => SweepOK
<1> SUFFICES ASSUME Init PROVE SweepOK
  OBVIOUS
<1>1. from \in [Chain -> Nat]
  BY FundsAssumption DEF Init
<1>2. TypeOK
  BY <1>1 DEF Init, TypeOK, Step
<1>3. PlansCover /\ SweptOK /\ PlansExact
  BY DEF Init, PlansCover, SweptOK, CompleteMeansSwept, PlansExact, Planned
<1> QED
  BY <1>2, <1>3 DEF SweepOK

--------------------------------------------------------------------------------
(* What every step does to the balances. *)

\* A mined transfer that succeeds leaves less than the gas of another behind.
LEMMA LandSpends ==
    ASSUME SweepOK, NEW t \in pending, Land(t)
    PROVE  /\ from' \in [Chain -> Nat]
           /\ \A c \in Chain : from'[c] <= from[c]
           /\ \A c \in Chain : c # t.chain => from'[c] = from[c]
           /\ t \in landed' => from'[t.chain] < Fee
           /\ landed' \in {landed, landed \cup {t}}
           /\ to' \in [Chain -> Nat]
<1>1. t.chain \in Chain /\ t.amount \in Nat /\ from[t.chain] \in Nat /\ to[t.chain] \in Nat
  BY DEF SweepOK, TypeOK, Transfer
<1>2. from[t.chain] <= t.amount + Fee /\ from[t.chain] >= Fee
  BY DEF SweepOK, PlansCover, Land
<1>3. CASE from[t.chain] - Fee >= t.amount
  <2>1. PICK gas \in 1..Fee : from' = [from EXCEPT ![t.chain] = @ - t.amount - gas]
    BY <1>1, <1>3, FeeAssumption DEF Land
  <2>2. from[t.chain] - t.amount - gas \in Nat /\ from[t.chain] - t.amount - gas < Fee
    BY <1>1, <1>2, <1>3, FeeAssumption
  <2>3. to' = [to EXCEPT ![t.chain] = @ + t.amount] /\ landed' = landed \cup {t}
    BY <1>1, <1>3, FeeAssumption DEF Land
  <2> QED
    BY <1>1, <2>1, <2>2, <2>3, FeeAssumption DEF SweepOK, TypeOK
<1>4. CASE from[t.chain] - Fee < t.amount
  <2>1. from' = [from EXCEPT ![t.chain] = @ - Fee] /\ to' = to /\ landed' = landed
    BY <1>1, <1>4, FeeAssumption DEF Land
  <2>2. t \in landed => from[t.chain] - Fee < Fee
    BY <1>1, FeeAssumption DEF SweepOK, SweptOK
  <2> QED
    BY <1>1, <1>2, <2>1, <2>2, FeeAssumption DEF SweepOK, TypeOK
<1> QED
  BY <1>1, <1>3, <1>4, FeeAssumption

\* A transfer of which the balance is all but the gas does not burn.
LEMMA ExactLands ==
    ASSUME SweepOK, "feeder" \notin trouble, NEW t \in pending, Land(t)
    PROVE  /\ burned' = {}
           /\ \A c \in Chain, a \in Nat : Untouched(c, a) => Untouched(c, a)'
<1>1. t.chain \in Chain /\ t.amount \in Nat /\ from[t.chain] \in Nat /\ from[t.chain] >= Fee
  BY DEF SweepOK, TypeOK, Transfer, Land
<1>2. from[t.chain] = t.amount + Fee
  BY <1>1, FeeAssumption DEF SweepOK, PlansExact, Untouched
<1>3. burned' = {} /\ t \in landed'
  BY <1>1, <1>2, FeeAssumption, SMTT(30) DEF Land, SweepOK, PlansExact
<1>4. \A c \in Chain : from'[c] = from[c] \/ from'[c] < Fee
  BY <1>3, LandSpends
<1> QED
  BY <1>3, <1>4 DEF Untouched

--------------------------------------------------------------------------------
(* The invariant, step by step. *)

LEMMA TypeNext == SweepOK /\ [Next]_vars => TypeOK'
<1> SUFFICES ASSUME SweepOK, [Next]_vars PROVE TypeOK'
  OBVIOUS
<1> USE DEF SweepOK, TypeOK, Answered, Unanswered
<1>1. CASE \E b \in BOOLEAN : Begin(b)
  BY <1>1 DEF Begin, chainVars, Step
<1>2. ASSUME NEW c \in Chain, Read(c) PROVE TypeOK'
  BY <1>2, FeeAssumption DEF Read, Balance, Go, Plan, chainVars, Step
<1>3. ASSUME NEW c \in Chain, Check(c) PROVE TypeOK'
  BY <1>3 DEF Check, Go, Exit, chainVars, Step
<1>4. ASSUME NEW c \in Chain, Send(c) PROVE TypeOK'
  BY <1>4 DEF Send, Go, chainVars, Step
<1>5. ASSUME NEW c \in Chain, Submit(c) PROVE TypeOK'
  <2> Mine(c) \in Transfer
    BY <1>5 DEF Submit, Mine, Transfer, PlansCover, Planned
  <2> QED
    BY <1>5 DEF Submit, Go, Step
<1>6. ASSUME NEW c \in Chain, Wait(c) PROVE TypeOK'
  BY <1>6 DEF Wait, Go, chainVars, Step
<1>7. CASE End
  BY <1>7 DEF End, Exit, chainVars, Step
<1>8. CASE Die
  BY <1>8 DEF Die, Exit, chainVars, Step
<1>9. ASSUME NEW t \in pending, Land(t) PROVE TypeOK'
  <2> burned' \subseteq Transfer /\ pending' \subseteq Transfer
    BY <1>9 DEF Land
  <2> QED
    BY <1>9, LandSpends DEF Land, runVars
<1>10. ASSUME NEW t \in pending, Expire(t) PROVE TypeOK'
  BY <1>10 DEF Expire, runVars
<1>11. CASE FeederSwitches
  BY <1>11 DEF FeederSwitches, chainVars, runVars
<1>12. ASSUME NEW c \in Chain, FeederSpends(c) PROVE TypeOK'
  BY <1>12 DEF FeederSpends, runVars
<1>13. CASE UNCHANGED vars
  BY <1>13 DEF vars, chainVars, runVars
<1> QED
  BY <1>1, <1>2, <1>3, <1>4, <1>5, <1>6, <1>7, <1>8, <1>9, <1>10, <1>11, <1>12, <1>13
  DEF Next, RunStep

\* While balances stand, the run only has to keep its own books.
LEMMA RunNext ==
    ASSUME SweepOK, RunStep, from' = from
    PROVE  PlansCover' /\ SweptOK'
<1> USE DEF SweepOK, PlansCover, SweptOK, CompleteMeansSwept
<1>1. CASE \E b \in BOOLEAN : Begin(b)
  BY <1>1 DEF Begin, chainVars, Planned
<1>2. ASSUME NEW c \in Chain, Read(c) PROVE PlansCover' /\ SweptOK'
  <2>1. at'[c] \in {"skip", "check"} /\ amount'[c] = Plan(from[c])
        /\ \A d \in Chain : d # c => at'[d] = at[d] /\ amount'[d] = amount[d]
    BY <1>2 DEF Read, Balance, Go, TypeOK
  <2>2. at'[c] = "skip" => from[c] <= Fee
    BY <1>2, FeeAssumption, NothingAssumption DEF Read, Balance, Go, TypeOK, Plan
  <2>3. at'[c] = "check" => amount'[c] \in Nat /\ from[c] <= amount'[c] + Fee
    BY <1>2, FeeAssumption DEF Read, Balance, Go, TypeOK, Plan
  <2> QED
    BY <1>2, <2>1, <2>2, <2>3 DEF Read, chainVars, Planned
<1>3. ASSUME NEW c \in Chain, Check(c) PROVE PlansCover' /\ SweptOK'
  BY <1>3 DEF Check, Go, Exit, chainVars, Planned, TypeOK
<1>4. ASSUME NEW c \in Chain, Send(c) PROVE PlansCover' /\ SweptOK'
  BY <1>4 DEF Send, Go, chainVars, Planned, TypeOK
<1>5. ASSUME NEW c \in Chain, Submit(c) PROVE PlansCover' /\ SweptOK'
  <2>1. at[c] \in Planned /\ Mine(c).chain = c /\ Mine(c).amount = amount[c]
    BY <1>5 DEF Submit, Planned, Mine
  <2>2. pending' \subseteq pending \cup {Mine(c)}
    BY <1>5 DEF Submit
  <2>3. at'[c] \in {"wait", "failed"} /\ \A d \in Chain : d # c => at'[d] = at[d]
    BY <1>5 DEF Submit, Go, TypeOK
  <2> QED
    BY <1>5, <2>1, <2>2, <2>3 DEF Submit, Planned
<1>6. ASSUME NEW c \in Chain, Wait(c) PROVE PlansCover' /\ SweptOK'
  <2>1. at'[c] = "moved" => from[c] <= Fee
    BY <1>6 DEF Wait, Go, TypeOK, Mine
  <2>2. at'[c] \in {"moved", "failed"} /\ \A d \in Chain : d # c => at'[d] = at[d]
    BY <1>6 DEF Wait, Go, TypeOK
  <2> QED
    BY <1>6, <2>1, <2>2 DEF Wait, chainVars, Planned
<1>7. CASE End
  <2>1. report' \in {"complete", "nothing"} => \A c \in Chain : at[c] \in {"skip", "moved"}
    BY <1>7 DEF End, Exit, All
  <2> QED
    BY <1>7, <2>1 DEF End, Exit, chainVars, Planned
<1>8. CASE Die
  BY <1>8 DEF Die, Exit, chainVars, Planned
<1> QED
  BY <1>1, <1>2, <1>3, <1>4, <1>5, <1>6, <1>7, <1>8 DEF RunStep

LEMMA TroubleStays == [Next]_vars => trouble \subseteq trouble'
  BY DEF Next, RunStep, Begin, Read, Check, Send, Submit, Wait, End, Die, Land, Expire,
     FeederSwitches, FeederSpends, Answered, Unanswered, vars

LEMMA RunExact ==
    ASSUME SweepOK, RunStep, from' = from
    PROVE  PlansExact'
<1> SUFFICES ASSUME "feeder" \notin trouble PROVE PlansExact'
  BY TroubleStays DEF PlansExact, Next
<1> USE DEF SweepOK, PlansExact, Untouched
<1>1. CASE \E b \in BOOLEAN : Begin(b)
  BY <1>1 DEF Begin, chainVars, Planned
<1>2. ASSUME NEW c \in Chain, Read(c) PROVE PlansExact'
  <2>1. at'[c] \in {"skip", "check"} /\ \A d \in Chain : d # c => at'[d] = at[d] /\ amount'[d] = amount[d]
    BY <1>2 DEF Read, Balance, Go, TypeOK
  <2>2. at'[c] = "check" => from[c] = amount'[c] + Fee
    BY <1>2, FeeAssumption DEF Read, Balance, Go, TypeOK, Plan
  <2> QED
    BY <1>2, <2>1, <2>2 DEF Read, chainVars, Planned
<1>3. ASSUME NEW c \in Chain, Check(c) PROVE PlansExact'
  BY <1>3 DEF Check, Go, Exit, chainVars, Planned, TypeOK
<1>4. ASSUME NEW c \in Chain, Send(c) PROVE PlansExact'
  BY <1>4 DEF Send, Go, chainVars, Planned, TypeOK
<1>5. ASSUME NEW c \in Chain, Submit(c) PROVE PlansExact'
  <2>1. at[c] \in Planned /\ Mine(c).chain = c /\ Mine(c).amount = amount[c]
    BY <1>5 DEF Submit, Planned, Mine
  <2>2. pending' \subseteq pending \cup {Mine(c)}
    BY <1>5 DEF Submit
  <2>3. at'[c] \in {"wait", "failed"} /\ \A d \in Chain : d # c => at'[d] = at[d]
    BY <1>5 DEF Submit, Go, TypeOK
  <2> QED
    BY <1>5, <2>1, <2>2, <2>3 DEF Submit, Planned
<1>6. ASSUME NEW c \in Chain, Wait(c) PROVE PlansExact'
  BY <1>6 DEF Wait, Go, chainVars, Planned, TypeOK
<1>7. CASE End
  BY <1>7 DEF End, Exit, chainVars, Planned
<1>8. CASE Die
  BY <1>8 DEF Die, Exit, chainVars, Planned
<1> QED
  BY <1>1, <1>2, <1>3, <1>4, <1>5, <1>6, <1>7, <1>8 DEF RunStep

LEMMA NextOK == SweepOK /\ [Next]_vars => SweepOK'
<1> SUFFICES ASSUME SweepOK, [Next]_vars PROVE PlansCover' /\ SweptOK' /\ PlansExact'
  BY TypeNext DEF SweepOK
<1>1. CASE RunStep
  <2> from' = from
    BY <1>1 DEF RunStep, Begin, Read, Check, Send, Submit, Wait, End, Die, chainVars
  <2> QED
    BY <1>1, RunNext, RunExact
<1>2. ASSUME NEW t \in pending, Land(t) PROVE PlansCover' /\ SweptOK' /\ PlansExact'
  <2>1. at' = at /\ amount' = amount /\ report' = report /\ feeder' = feeder /\ pending' \subseteq pending
    BY <1>2 DEF Land, runVars
  <2>2. \A c \in Chain : from'[c] <= from[c] /\ from[c] \in Nat /\ from'[c] \in Nat
    BY <1>2, LandSpends DEF SweepOK, TypeOK
  <2>3. \A s \in pending \cup landed : s.chain \in Chain /\ s.amount \in Nat
    BY DEF SweepOK, TypeOK, Transfer
  <2>4. PlansCover'
    BY <2>1, <2>2, <2>3, FeeAssumption DEF SweepOK, PlansCover
  <2>5. SweptOK'
    BY <1>2, LandSpends, <2>1, <2>2, <2>3, FeeAssumption DEF SweepOK, SweptOK, CompleteMeansSwept
  <2>6. PlansExact'
    <3> SUFFICES ASSUME "feeder" \notin trouble PROVE PlansExact'
      BY TroubleStays DEF PlansExact
    <3>1. burned' = {} /\ \A c \in Chain, a \in Nat : Untouched(c, a) => Untouched(c, a)'
      BY <1>2, ExactLands
    <3>2. \A c \in Chain : at'[c] \in Planned => amount'[c] = amount[c] /\ amount[c] \in Nat
      BY <2>1 DEF SweepOK, PlansCover
    <3> QED
      BY <2>1, <2>3, <3>1, <3>2 DEF SweepOK, PlansExact, Untouched
  <2> QED
    BY <2>4, <2>5, <2>6
<1>3. ASSUME NEW t \in pending, Expire(t) PROVE PlansCover' /\ SweptOK' /\ PlansExact'
  BY <1>3 DEF Expire, Unanswered, runVars, SweepOK, PlansCover, SweptOK, CompleteMeansSwept, PlansExact, Untouched
<1>4. CASE FeederSwitches
  BY <1>4 DEF FeederSwitches, chainVars, runVars, SweepOK, PlansCover, SweptOK, CompleteMeansSwept, PlansExact
<1>5. ASSUME NEW c \in Chain, FeederSpends(c) PROVE PlansCover' /\ SweptOK' /\ PlansExact'
  <2>1. \A d \in Chain : from'[d] <= from[d] /\ from[d] \in Nat /\ from'[d] \in Nat
    BY <1>5 DEF FeederSpends, SweepOK, TypeOK
  <2>2. \A s \in pending \cup landed : s.chain \in Chain /\ s.amount \in Nat
    BY DEF SweepOK, TypeOK, Transfer
  <2>3. "feeder" \in trouble'
    BY <1>5 DEF FeederSpends, SweepOK, PlansExact
  <2>4. PlansCover'
    BY <1>5, <2>1, <2>2, FeeAssumption DEF FeederSpends, runVars, SweepOK, PlansCover
  <2>5. SweptOK'
    BY <1>5, <2>1, <2>2, FeeAssumption DEF FeederSpends, runVars, SweepOK, SweptOK, CompleteMeansSwept
  <2> QED
    BY <2>3, <2>4, <2>5 DEF PlansExact
<1>6. CASE UNCHANGED vars
  BY <1>6 DEF vars, chainVars, runVars, SweepOK, PlansCover, SweptOK, CompleteMeansSwept, PlansExact, Untouched
<1> QED
  BY <1>1, <1>2, <1>3, <1>4, <1>5, <1>6 DEF Next

--------------------------------------------------------------------------------
(* Theorems. *)

\* The inductive invariant holds of every reachable state: what is planned or in
\* flight never claims more than the balance it was made from, and exactly that
\* balance while no feeder has run (sweep.ts:50-55, 96-139).
THEOREM SweepCorrect == Spec => []SweepOK
  BY InitOK, NextOK, PTL DEF Spec

\* A run that reports a complete sweep, or nothing to move, leaves no chain with
\* more than the gas of one transfer (sweep.ts:96, 140).
THEOREM CompleteIsSwept == Spec => []CompleteMeansSwept
<1>1. SweepOK => CompleteMeansSwept
  BY DEF SweepOK, SweptOK
<1> QED
  BY SweepCorrect, <1>1, PTL

\* However many runs leave transfers of a chain in flight, none of them is mined
\* as a failure: what the first leaves behind cannot buy the gas of another
\* (sweep.ts:51-55, 139).
THEOREM NoGasIsBurned == Spec => []NoTransferBurnsGas
<1>1. SweepOK => NoTransferBurnsGas
  BY DEF SweepOK, PlansExact, NoTransferBurnsGas
<1> QED
  BY SweepCorrect, <1>1, PTL

--------------------------------------------------------------------------------
(* A run to which nothing happens. *)

\* What a transfer that is mined does while nothing has gone wrong.
LEMMA CalmLands ==
    ASSUME SweepOK, CalmOK, trouble = {}, NEW t \in pending, Land(t)
    PROVE  /\ landed' = landed \cup {t}
           /\ pending' = pending \ {t}
           /\ \A c \in Chain : c # t.chain => from'[c] = from[c]
           /\ UNCHANGED <<runVars, feeder, trouble>>
<1>1. t.chain \in Chain /\ t.amount \in Nat /\ from[t.chain] \in Nat /\ from[t.chain] >= Fee
  BY DEF SweepOK, TypeOK, Transfer, Land
<1>2. from[t.chain] = t.amount + Fee
  BY <1>1, FeeAssumption DEF SweepOK, PlansExact, Untouched
<1>3. landed' = landed \cup {t} /\ pending' = pending \ {t}
  BY <1>1, <1>2, FeeAssumption DEF Land
<1> QED
  BY <1>3, LandSpends DEF Land

LEMMA CalmRun ==
    ASSUME SweepOK, CalmOK, RunStep, trouble' = {}
    PROVE  CalmOK'
<1>0. /\ trouble = {} /\ from' = from
      /\ burned = {} /\ at \in [Chain -> Step] /\ amount \in [Chain -> Nat \cup {Nothing}]
      /\ from \in [Chain -> Nat]
  BY TroubleStays DEF Next, RunStep, Begin, Read, Check, Send, Submit, Wait, End, Die, chainVars,
     SweepOK, TypeOK, PlansExact
<1> USE <1>0 DEF CalmOK, CalmRunsSucceed
<1>1. CASE \E b \in BOOLEAN : Begin(b)
  <2>1. pending = {}
    BY <1>1 DEF Begin, Running, All, SweepOK, TypeOK, Transfer
  <2> QED
    BY <1>1, <2>1 DEF Begin, chainVars
<1>2. ASSUME NEW c \in Chain, Read(c) PROVE CalmOK'
  <2>1. at'[c] \in {"skip", "check"} /\ \A d \in Chain : d # c => at'[d] = at[d] /\ amount'[d] = amount[d]
    BY <1>2 DEF Read, Balance, Go
  <2>2. at'[c] = "check" => amount'[c] > 0 /\ from[c] = amount'[c] + Fee
    BY <1>2, FeeAssumption DEF Read, Balance, Go, Plan
  <2>3. UNCHANGED <<pending, landed, runs, report>>
    BY <1>2 DEF Read, chainVars
  <2>4. \A t \in pending : t.chain # c /\ t.chain \in Chain
    BY <1>2 DEF Read, SweepOK, TypeOK, Transfer
  <2>5. \A d \in Chain : d # c => Mine(d)' = Mine(d)
    BY <2>1, <2>3 DEF Mine
  <2> QED
    BY <2>1, <2>2, <2>3, <2>4, <2>5
<1>3. ASSUME NEW c \in Chain, Check(c) PROVE CalmOK'
  <2>1. Preflights(c)
    BY <1>3, FeeAssumption DEF Check, Preflights, SweepOK, PlansCover, Planned
  <2>2. at' = [at EXCEPT ![c] = "send"] /\ UNCHANGED <<pending, landed, runs, report, amount>>
    BY <1>3, <2>1 DEF Check, Go, chainVars
  <2> QED
    BY <1>3, <2>2 DEF Check, Mine
<1>4. ASSUME NEW c \in Chain, Send(c) PROVE CalmOK'
  <2>1. Preflights(c)
    BY <1>4, FeeAssumption DEF Send, Preflights, SweepOK, PlansCover, Planned
  <2>2. at' = [at EXCEPT ![c] = "submit"] /\ UNCHANGED <<pending, landed, runs, report, amount>>
    BY <1>4, <2>1 DEF Send, Go, Unanswered, chainVars
  <2> QED
    BY <1>4, <2>2 DEF Send, Mine
<1>5. ASSUME NEW c \in Chain, Submit(c) PROVE CalmOK'
  <2>1. /\ pending' = pending \cup {Mine(c)} /\ at' = [at EXCEPT ![c] = "wait"]
        /\ UNCHANGED <<landed, runs, report, amount>> /\ at[c] = "submit"
    BY <1>5 DEF Submit, Go, Unanswered
  <2>2. from[c] > Fee
    BY <2>1, FeeAssumption DEF SweepOK, PlansCover, Planned
  <2>3. Mine(c) \notin landed
    BY <2>2, FeeAssumption DEF Mine, SweepOK, SweptOK
  <2>4. \A d \in Chain : Mine(d)' = Mine(d) /\ Mine(d).chain = d
    BY <2>1 DEF Mine
  <2>5. \A t \in pending : t.chain \in Chain
    BY DEF SweepOK, TypeOK, Transfer
  <2> QED
    BY <2>1, <2>3, <2>4, <2>5
<1>6. ASSUME NEW c \in Chain, Wait(c) PROVE CalmOK'
  <2>1. /\ Mine(c) \in landed /\ at' = [at EXCEPT ![c] = "moved"]
        /\ UNCHANGED <<pending, landed, runs, report, amount>>
    BY <1>6 DEF Wait, Go, Unanswered, chainVars
  <2>2. \A t \in pending : t.chain # c /\ t.chain \in Chain
    BY <2>1 DEF SweepOK, TypeOK, Transfer
  <2>3. \A d \in Chain : Mine(d)' = Mine(d)
    BY <2>1 DEF Mine
  <2> QED
    BY <2>1, <2>2, <2>3
<1>7. CASE End
  <2>1. pending = {} /\ report' # "failed"
    BY <1>7 DEF End, Exit, All, SweepOK, TypeOK, Transfer
  <2> QED
    BY <1>7, <2>1 DEF End, Exit, chainVars
<1>8. CASE Die
  BY <1>8 DEF Die, Unanswered
<1> QED
  BY <1>1, <1>2, <1>3, <1>4, <1>5, <1>6, <1>7, <1>8 DEF RunStep

LEMMA CalmNext == SweepOK /\ CalmOK /\ [Next]_vars => CalmOK'
<1> SUFFICES ASSUME SweepOK, CalmOK, [Next]_vars, trouble' = {} PROVE CalmOK'
  BY DEF CalmOK
<1>0. trouble = {}
  BY TroubleStays
<1>1. CASE RunStep
  BY <1>1, CalmRun
<1>2. ASSUME NEW t \in pending, Land(t) PROVE CalmOK'
  <2>1. /\ landed' = landed \cup {t} /\ pending' = pending \ {t}
        /\ \A c \in Chain : c # t.chain => from'[c] = from[c]
        /\ UNCHANGED <<runs, at, amount, report>>
    BY <1>0, <1>2, CalmLands DEF runVars
  <2>2. at[t.chain] = "wait"
    BY <1>0 DEF CalmOK
  <2>3. \A c \in Chain : Mine(c)' = Mine(c)
    BY <2>1 DEF Mine
  <2>4. \A s \in pending : s.chain \in Chain
    BY DEF SweepOK, TypeOK, Transfer
  <2> QED
    BY <1>0, <2>1, <2>2, <2>3, <2>4 DEF CalmOK, CalmRunsSucceed
<1>3. ASSUME NEW t \in pending, Expire(t) PROVE CalmOK'
  BY <1>3 DEF Expire, Unanswered
<1>4. CASE FeederSwitches
  BY <1>4 DEF FeederSwitches
<1>5. ASSUME NEW c \in Chain, FeederSpends(c) PROVE CalmOK'
  BY <1>0, <1>5 DEF FeederSpends, SweepOK, PlansExact
<1>6. CASE UNCHANGED vars
  BY <1>6 DEF vars, chainVars, runVars, CalmOK, CalmRunsSucceed, Mine
<1> QED
  BY <1>1, <1>2, <1>3, <1>4, <1>5, <1>6 DEF Next

\* When every request is answered and no feeder runs, no run fails, whatever the
\* balances: what it plans passes both preflights and is mined as planned
\* (sweep.ts:53, 118).
THEOREM CalmSucceeds == Spec => []CalmRunsSucceed
<1>1. Init => CalmOK
  BY DEF Init, CalmOK, CalmRunsSucceed
<1>2. CalmOK => CalmRunsSucceed
  BY DEF CalmOK, CalmRunsSucceed
<1> QED
  BY SweepCorrect, CalmNext, <1>1, <1>2, PTL DEF Spec

--------------------------------------------------------------------------------
(* What the destination receives. *)

LEMMA PaidNext == SweepOK /\ PaidOK /\ [Next]_vars => PaidOK'
<1> SUFFICES ASSUME SweepOK, PaidOK, [Next]_vars PROVE PaidOK'
  OBVIOUS
<1> USE DEF PaidOK
<1>0. /\ from \in [Chain -> Nat] /\ to \in [Chain -> Nat]
      /\ \A t \in landed \cup pending : t.chain \in Chain /\ t.amount \in Nat
  BY DEF SweepOK, TypeOK, Transfer
<1>1. CASE RunStep
  <2> UNCHANGED <<from, to, landed>>
    BY <1>1 DEF RunStep, Begin, Read, Check, Send, Submit, Wait, End, Die, chainVars
  <2> QED
    OBVIOUS
<1>2. ASSUME NEW t \in pending, Land(t) PROVE PaidOK'
  <2>1. \A s \in landed : s.chain # t.chain
    BY <1>0, <1>2, FeeAssumption DEF Land
  <2>2. \A c \in Chain : c # t.chain => from'[c] = from[c] /\ to'[c] = to[c]
    BY <1>0, <1>2, LandSpends DEF Land
  <2>3. CASE from[t.chain] - Fee >= t.amount
    <3>1. landed' = landed \cup {t} /\ to' = [to EXCEPT ![t.chain] = @ + t.amount]
      BY <1>0, <1>2, <2>3, FeeAssumption DEF Land
    <3>2. to'[t.chain] = t.amount
      BY <1>0, <2>1, <3>1
    <3>3. from'[t.chain] < Fee
      BY <1>2, <3>1, LandSpends
    <3> QED
      BY <1>0, <2>1, <2>2, <3>1, <3>2, <3>3
  <2>4. CASE from[t.chain] - Fee < t.amount
    <3> landed' = landed /\ to' = to
      BY <1>0, <1>2, <2>4, FeeAssumption DEF Land
    <3> QED
      BY <1>0, <2>1, <2>2
  <2> QED
    BY <1>0, <2>3, <2>4, FeeAssumption
<1>3. ASSUME NEW t \in pending, Expire(t) PROVE PaidOK'
  BY <1>3 DEF Expire
<1>4. CASE FeederSwitches
  BY <1>4 DEF FeederSwitches, chainVars
<1>5. ASSUME NEW c \in Chain, FeederSpends(c) PROVE PaidOK'
  <2>1. \A d \in Chain : from'[d] <= from[d] /\ from'[d] \in Nat
    BY <1>0, <1>5 DEF FeederSpends
  <2> QED
    BY <1>0, <1>5, <2>1, FeeAssumption DEF FeederSpends
<1>6. CASE UNCHANGED vars
  BY <1>6 DEF vars, chainVars
<1> QED
  BY <1>1, <1>2, <1>3, <1>4, <1>5, <1>6 DEF Next

\* Whatever earlier runs left in flight, whatever is not answered and whatever the
\* feeder spends, at most one transfer of a chain is ever mined as a success, and
\* its amount is all the destination receives there (sweep.ts:50-55, 129-139).
THEOREM PaidOnce == Spec => []DestinationIsPaidOnce
<1>1. Init => PaidOK
  BY DEF Init, PaidOK
<1>2. PaidOK => DestinationIsPaidOnce
  BY DEF PaidOK, DestinationIsPaidOnce
<1> QED
  BY SweepCorrect, PaidNext, <1>1, <1>2, PTL DEF Spec
=============================================================================
