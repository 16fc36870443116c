----------------------------- MODULE FeederProofs -----------------------------
(***************************************************************************)
(* Theorems about Feeder for any finite set of chains and extra hosts, any *)
(* caps, sampling and back-off, and however many headers arrive.           *)
(***************************************************************************)
EXTENDS Feeder, FiniteSetTheorems, SequenceTheorems, TLAPS

--------------------------------------------------------------------------------
(* What the actions do to the list of attests. *)

Updated(c, seq, a) == attests' = [attests EXCEPT ![c] = [attests[c] EXCEPT ![seq] = a]]

LEMMA AttestUpdate ==
    ASSUME TypeOK, NEW c \in Chain, NEW seq \in DOMAIN attests[c], NEW a \in Attempt,
           Updated(c, seq, a)
    PROVE  /\ attests' \in [Chain -> Seq(Attempt)]
           /\ \A d \in Chain : DOMAIN attests'[d] = DOMAIN attests[d]
           /\ \A d \in Chain : d # c => attests'[d] = attests[d]
           /\ \A i \in DOMAIN attests[c] : attests'[c][i] = IF i = seq THEN a ELSE attests[c][i]
<1> DEFINE s == attests[c]
           t == [s EXCEPT ![seq] = a]
<1>1. s \in Seq(Attempt) /\ seq \in 1..Len(s) /\ DOMAIN s = 1..Len(s)
  BY LenProperties DEF TypeOK
<1>2. /\ t \in Seq(Attempt) /\ Len(t) = Len(s)
      /\ \A j \in 1..Len(s) : t[j] = IF j = seq THEN a ELSE s[j]
  BY <1>1, ExceptSeq
<1>3. DOMAIN t = DOMAIN s
  BY <1>1, <1>2, LenProperties
<1> HIDE DEF t
<1>4. attests' = [attests EXCEPT ![c] = t]
  BY DEF Updated, t
<1> QED
  BY <1>1, <1>2, <1>3, <1>4 DEF TypeOK

Fresh(height, mode) ==
    [height |-> height, mode |-> mode, phase |-> "building", poll |-> "none", unanswered |-> {}]

LEMMA AttestBegins ==
    ASSUME TypeOK, NEW c \in Chain, NEW height \in Height, NEW mode \in {"reactive", "waiting"},
           BeginAttest(c, height, mode), inflight[c] < MAX_INFLIGHT
    PROVE  /\ attests' \in [Chain -> Seq(Attempt)]
           /\ Len(attests[c]) \in Nat /\ DOMAIN attests[c] = 1..Len(attests[c])
           /\ Len(attests'[c]) = Len(attests[c]) + 1
           /\ DOMAIN attests'[c] = 1..(Len(attests[c]) + 1)
           /\ \A d \in Chain : d # c => attests'[d] = attests[d]
           /\ \A i \in DOMAIN attests[c] : attests'[c][i] = attests[c][i]
           /\ attests'[c][Len(attests[c]) + 1] = Fresh(height, mode)
<1> DEFINE s == attests[c]
           t == Append(s, Fresh(height, mode))
<1>1. Fresh(height, mode) \in Attempt
  BY DEF Fresh, Attempt, Phase, Poll
<1>2. s \in Seq(Attempt) /\ DOMAIN s = 1..Len(s) /\ Len(s) \in Nat
  BY LenProperties DEF TypeOK
<1>3. /\ t \in Seq(Attempt) /\ Len(t) = Len(s) + 1
      /\ \A i \in 1..Len(s) : t[i] = s[i]
      /\ t[Len(s) + 1] = Fresh(height, mode)
  BY <1>1, <1>2, AppendProperties
<1>4. DOMAIN t = 1..(Len(s) + 1)
  BY <1>3, LenProperties
<1>5. attests' = [attests EXCEPT ![c] = t]
  BY LimitAssumption DEF BeginAttest, Fresh, TypeOK
<1> HIDE DEF t
<1> QED
  BY <1>2, <1>3, <1>4, <1>5 DEF TypeOK

\* A step of an attest changes that attest alone.
LEMMA StepUpdates ==
    ASSUME TypeOK, NEW c \in Chain, NEW seq \in DOMAIN attests[c]
    PROVE  LET a == attests[c][seq] IN
           /\ a \in Attempt
           /\ Built(c, seq) =>
                LET b == [a EXCEPT !.phase = "submitting", !.unanswered = Roomy] IN
                b \in Attempt /\ Updated(c, seq, b)
           /\ SubmitOk(c, seq) =>
                LET b == [a EXCEPT !.phase = "submitted",
                                   !.poll = IF Sampled(seq) THEN "pending" ELSE "none"] IN
                b \in Attempt /\ Updated(c, seq, b)
           /\ SubmitFails(c, seq) =>
                LET b == [a EXCEPT !.phase = "error"] IN
                b \in Attempt /\ Updated(c, seq, b)
           /\ \A outcome \in {"ok", "fail"} : PollEnds(c, seq, outcome) =>
                LET b == [a EXCEPT !.poll = outcome] IN
                b \in Attempt /\ Updated(c, seq, b)
           /\ \A h \in Host, ok \in BOOLEAN : HostAnswers(c, seq, h, ok) =>
                LET b == [a EXCEPT !.unanswered = @ \ {h}] IN
                b \in Attempt /\ Updated(c, seq, b)
<1> DEFINE a == attests[c][seq]
<1>1. attests \in [Chain -> Seq(Attempt)] /\ attests[c] \in Seq(Attempt) /\ a \in Attempt
  BY ElementOfSeq, LenProperties DEF TypeOK
<1>2. ASSUME Built(c, seq)
      PROVE  LET b == [a EXCEPT !.phase = "submitting", !.unanswered = Roomy] IN
             b \in Attempt /\ Updated(c, seq, b)
  BY <1>1, <1>2 DEF Built, Updated, Attempt, Phase, Roomy
<1>3. ASSUME SubmitOk(c, seq)
      PROVE  LET b == [a EXCEPT !.phase = "submitted",
                                !.poll = IF Sampled(seq) THEN "pending" ELSE "none"] IN
             b \in Attempt /\ Updated(c, seq, b)
  BY <1>1, <1>3 DEF SubmitOk, Updated, Attempt, Phase, Poll
<1>4. ASSUME SubmitFails(c, seq)
      PROVE  LET b == [a EXCEPT !.phase = "error"] IN
             b \in Attempt /\ Updated(c, seq, b)
  BY <1>1, <1>4 DEF SubmitFails, Updated, Attempt, Phase
<1>5. ASSUME NEW outcome \in {"ok", "fail"}, PollEnds(c, seq, outcome)
      PROVE  LET b == [a EXCEPT !.poll = outcome] IN
             b \in Attempt /\ Updated(c, seq, b)
  BY <1>1, <1>5 DEF PollEnds, Updated, Attempt, Poll
<1>6. ASSUME NEW h \in Host, NEW ok \in BOOLEAN, HostAnswers(c, seq, h, ok)
      PROVE  LET b == [a EXCEPT !.unanswered = @ \ {h}] IN
             b \in Attempt /\ Updated(c, seq, b)
  BY <1>1, <1>6 DEF HostAnswers, Updated, Attempt
<1> QED
  BY <1>1, <1>2, <1>3, <1>4, <1>5, <1>6

--------------------------------------------------------------------------------
(* The anchors of waiting attests. *)

\* A chain is anchored only to a header this connection brought, and has a height.
AnchorsHeard == \A c \in Chain : anchor[c] # None => c \in heard /\ lastHeight[c] # None

LEMMA NextAnchors == TypeOK /\ AnchorsHeard /\ [Next]_vars => AnchorsHeard'
<1> SUFFICES ASSUME TypeOK, AnchorsHeard, [Next]_vars PROVE AnchorsHeard'
  OBVIOUS
<1> USE DEF AnchorsHeard
<1>1. CASE Connect
  BY <1>1 DEF Connect
<1>2. ASSUME NEW c \in Chain, NEW height \in Height, Read(c, height) PROVE AnchorsHeard'
  <2>1. CASE IsStale(c, height)
    BY <1>2, <2>1 DEF Read
  <2>2. CASE ~IsStale(c, height)
    BY <1>2, <2>2 DEF Read, TakeHeader, TypeOK, Height, None
  <2> QED
    BY <2>1, <2>2
<1>3. CASE Ready \/ Refuse \/ StreamFails \/ Wake \/ Beat \/ Stop \/ Exit \/ UNCHANGED vars
  BY <1>3 DEF Ready, Refuse, StreamFails, Wake, Beat, Stop, Exit, vars, streamVars
<1>4. ASSUME NEW c \in Chain, TimerFires(c) PROVE AnchorsHeard'
  BY <1>4 DEF TimerFires, streamVars
<1>5. ASSUME NEW c \in Chain, NEW seq \in DOMAIN attests[c], AttestStep(c, seq) PROVE AnchorsHeard'
  BY <1>5 DEF AttestStep, streamVars
<1> QED
  BY <1>1, <1>2, <1>3, <1>4, <1>5 DEF Next

--------------------------------------------------------------------------------
(* Counting the attests of a chain by phase. *)

LEMMA PhasesFinite ==
    ASSUME TypeOK, NEW c \in Chain, NEW P
    PROVE  IsFiniteSet(InPhase(c, P)) /\ Cardinality(InPhase(c, P)) \in Nat
<1>1. Len(attests[c]) \in Nat /\ DOMAIN attests[c] = 1..Len(attests[c])
  BY LenProperties DEF TypeOK
<1>2. IsFiniteSet(1..Len(attests[c]))
  BY <1>1, FS_Interval
<1>3. InPhase(c, P) \in SUBSET (1..Len(attests[c]))
  BY <1>1 DEF InPhase
<1> QED
  BY <1>2, <1>3, FS_Subset, FS_CardinalityType

LEMMA PhaseMoves ==
    ASSUME TypeOK, NEW c \in Chain, NEW seq \in DOMAIN attests[c], NEW b \in Attempt,
           Updated(c, seq, b), NEW P
    PROVE  LET a == attests[c][seq] IN
           /\ \A d \in Chain : d # c => InPhase(d, P)' = InPhase(d, P)
           /\ a.phase \in P <=> b.phase \in P => InPhase(c, P)' = InPhase(c, P)
           /\ a.phase \in P /\ b.phase \notin P =>
                Cardinality(InPhase(c, P)') = Cardinality(InPhase(c, P)) - 1
           /\ a.phase \notin P /\ b.phase \in P =>
                Cardinality(InPhase(c, P)') = Cardinality(InPhase(c, P)) + 1
<1> DEFINE a == attests[c][seq]
<1>1. /\ \A d \in Chain : DOMAIN attests'[d] = DOMAIN attests[d]
      /\ \A d \in Chain : d # c => attests'[d] = attests[d]
      /\ \A i \in DOMAIN attests[c] : attests'[c][i] = IF i = seq THEN b ELSE attests[c][i]
  BY AttestUpdate
<1>2. \A d \in Chain : d # c => InPhase(d, P)' = InPhase(d, P)
  BY <1>1 DEF InPhase
<1>3. ASSUME a.phase \in P <=> b.phase \in P PROVE InPhase(c, P)' = InPhase(c, P)
  BY <1>1, <1>3 DEF InPhase
<1>4. ASSUME a.phase \in P, b.phase \notin P
      PROVE  Cardinality(InPhase(c, P)') = Cardinality(InPhase(c, P)) - 1
  <2>1. InPhase(c, P)' = InPhase(c, P) \ {seq} /\ seq \in InPhase(c, P)
    BY <1>1, <1>4 DEF InPhase
  <2> QED
    BY <2>1, PhasesFinite, FS_RemoveElement
<1>5. ASSUME a.phase \notin P, b.phase \in P
      PROVE  Cardinality(InPhase(c, P)') = Cardinality(InPhase(c, P)) + 1
  <2>1. InPhase(c, P)' = InPhase(c, P) \cup {seq} /\ seq \notin InPhase(c, P)
    BY <1>1, <1>5 DEF InPhase
  <2> QED
    BY <2>1, PhasesFinite, FS_AddElement
<1> QED
  BY <1>2, <1>3, <1>4, <1>5

LEMMA PhaseBegins ==
    ASSUME TypeOK, NEW c \in Chain, NEW height \in Height, NEW mode \in {"reactive", "waiting"},
           BeginAttest(c, height, mode), inflight[c] < MAX_INFLIGHT, NEW P
    PROVE  /\ \A d \in Chain : d # c => InPhase(d, P)' = InPhase(d, P)
           /\ "building" \notin P => InPhase(c, P)' = InPhase(c, P)
           /\ "building" \in P => Cardinality(InPhase(c, P)') = Cardinality(InPhase(c, P)) + 1
<1> DEFINE n == Len(attests[c])
<1>1. /\ n \in Nat /\ DOMAIN attests[c] = 1..n /\ DOMAIN attests'[c] = 1..(n + 1)
      /\ \A d \in Chain : d # c => attests'[d] = attests[d]
      /\ \A i \in DOMAIN attests[c] : attests'[c][i] = attests[c][i]
      /\ attests'[c][n + 1].phase = "building"
  <2>1. attests'[c][n + 1] = Fresh(height, mode)
    BY AttestBegins
  <2>2. attests'[c][n + 1].phase = "building"
    BY <2>1 DEF Fresh
  <2> HIDE DEF n
  <2> QED
    BY <2>2, AttestBegins DEF n
<1>2. \A d \in Chain : d # c => InPhase(d, P)' = InPhase(d, P)
  BY <1>1 DEF InPhase
<1>3. ASSUME "building" \notin P PROVE InPhase(c, P)' = InPhase(c, P)
  BY <1>1, <1>3 DEF InPhase
<1>4. ASSUME "building" \in P
      PROVE  Cardinality(InPhase(c, P)') = Cardinality(InPhase(c, P)) + 1
  <2>1. InPhase(c, P)' = InPhase(c, P) \cup {n + 1} /\ n + 1 \notin InPhase(c, P)
    BY <1>1, <1>4 DEF InPhase
  <2> QED
    BY <2>1, PhasesFinite, FS_AddElement
<1> QED
  BY <1>2, <1>3, <1>4

\* An attest in flight holds a place under the cap.
LEMMA HoldsAPlace ==
    ASSUME TypeOK, EveryAttestIsCounted, NEW c \in Chain, NEW seq \in DOMAIN attests[c],
           attests[c][seq].phase \in Open
    PROVE  inflight[c] > 0
<1>1. seq \in InPhase(c, Open)
  BY DEF InPhase
<1>2. IsFiniteSet(InPhase(c, Open)) /\ Cardinality(InPhase(c, Open)) \in Nat
  BY PhasesFinite
<1>3. Cardinality(InPhase(c, Open)) # 0
  BY <1>1, <1>2, FS_EmptySet
<1> QED
  BY <1>2, <1>3 DEF EveryAttestIsCounted

LEMMA BeginCounted ==
    ASSUME TypeOK, EveryAttestIsCounted, UNCHANGED <<submitted, submitErrors>>,
           NEW c \in Chain, NEW height \in Height, NEW mode \in {"reactive", "waiting"},
           BeginAttest(c, height, mode)
    PROVE  EveryAttestIsCounted'
<1>1. CASE inflight[c] >= MAX_INFLIGHT
  BY <1>1 DEF BeginAttest, EveryAttestIsCounted, InPhase
<1>2. CASE inflight[c] < MAX_INFLIGHT
  <2>1. \A P : \A d \in Chain : d # c => InPhase(d, P)' = InPhase(d, P)
    BY <1>2, PhaseBegins
  <2>2. /\ InPhase(c, {"submitted"})' = InPhase(c, {"submitted"})
        /\ InPhase(c, {"error"})' = InPhase(c, {"error"})
        /\ Cardinality(InPhase(c, Open)') = Cardinality(InPhase(c, Open)) + 1
    BY <1>2, PhaseBegins DEF Open
  <2>3. inflight' = [inflight EXCEPT ![c] = @ + 1]
    BY <1>2, LimitAssumption DEF BeginAttest, TypeOK
  <2> SUFFICES ASSUME NEW d \in Chain
               PROVE  /\ inflight'[d] = Cardinality(InPhase(d, Open)')
                      /\ submitted'[d] = Cardinality(InPhase(d, {"submitted"})')
                      /\ submitErrors'[d] = Cardinality(InPhase(d, {"error"})')
                      /\ inflight'[d] <= MAX_INFLIGHT
    BY DEF EveryAttestIsCounted
  <2>4. CASE d = c
    BY <1>2, <2>2, <2>3, <2>4, LimitAssumption DEF EveryAttestIsCounted, TypeOK
  <2>5. CASE d # c
    BY <2>1, <2>3, <2>5 DEF EveryAttestIsCounted, TypeOK
  <2> QED
    BY <2>4, <2>5
<1> QED
  BY <1>1, <1>2, LimitAssumption DEF TypeOK

LEMMA StepCounted ==
    ASSUME TypeOK, EveryAttestIsCounted, NEW c \in Chain, NEW seq \in DOMAIN attests[c],
           AttestStep(c, seq)
    PROVE  EveryAttestIsCounted'
<1> DEFINE a == attests[c][seq]
           Held(d, P) == Cardinality(InPhase(d, P))
<1>0. a \in Attempt
  BY StepUpdates
<1>1. /\ inflight \in [Chain -> Nat] /\ submitted \in [Chain -> Nat] /\ submitErrors \in [Chain -> Nat]
      /\ MAX_INFLIGHT \in Nat
      /\ \A d \in Chain : \A P : Held(d, P) \in Nat
  BY LimitAssumption, PhasesFinite DEF TypeOK
<1>2. \A d \in Chain :
        /\ inflight[d] = Held(d, Open) /\ inflight[d] <= MAX_INFLIGHT
        /\ submitted[d] = Held(d, {"submitted"}) /\ submitErrors[d] = Held(d, {"error"})
  BY DEF EveryAttestIsCounted
<1> SUFFICES \A d \in Chain :
        /\ inflight'[d] = Held(d, Open)' /\ inflight'[d] <= MAX_INFLIGHT
        /\ submitted'[d] = Held(d, {"submitted"})' /\ submitErrors'[d] = Held(d, {"error"})'
  BY DEF EveryAttestIsCounted
<1>3. ASSUME NEW b \in Attempt, Updated(c, seq, b),
             UNCHANGED <<inflight, submitted, submitErrors>>,
             \A P \in {Open, {"submitted"}, {"error"}} : a.phase \in P <=> b.phase \in P
      PROVE  \A d \in Chain :
        /\ inflight'[d] = Held(d, Open)' /\ inflight'[d] <= MAX_INFLIGHT
        /\ submitted'[d] = Held(d, {"submitted"})' /\ submitErrors'[d] = Held(d, {"error"})'
  <2>1. \A P \in {Open, {"submitted"}, {"error"}} : \A d \in Chain : InPhase(d, P)' = InPhase(d, P)
    BY <1>3, PhaseMoves
  <2> QED
    BY <1>2, <1>3, <2>1
<1>4. CASE Built(c, seq)
  <2> DEFINE b == [a EXCEPT !.phase = "submitting", !.unanswered = Roomy]
  <2>1. b \in Attempt /\ Updated(c, seq, b)
    BY <1>4, StepUpdates
  <2>2. a.phase = "building" /\ b.phase = "submitting"
    BY <1>0, <1>4 DEF Built, Attempt
  <2> QED
    BY <1>3, <1>4, <2>1, <2>2 DEF Built, Open
<1>5. CASE \E outcome \in {"ok", "fail"} : PollEnds(c, seq, outcome)
  <2> PICK outcome \in {"ok", "fail"} : PollEnds(c, seq, outcome)
    BY <1>5
  <2> DEFINE b == [a EXCEPT !.poll = outcome]
  <2>1. b \in Attempt /\ Updated(c, seq, b)
    BY StepUpdates
  <2>2. b.phase = a.phase
    BY <1>0 DEF Attempt
  <2> QED
    BY <1>3, <2>1, <2>2 DEF PollEnds
<1>6. CASE \E h \in Host, ok \in BOOLEAN : HostAnswers(c, seq, h, ok)
  <2> PICK h \in Host, ok \in BOOLEAN : HostAnswers(c, seq, h, ok)
    BY <1>6
  <2> DEFINE b == [a EXCEPT !.unanswered = @ \ {h}]
  <2>1. b \in Attempt /\ Updated(c, seq, b)
    BY StepUpdates
  <2>2. b.phase = a.phase
    BY <1>0 DEF Attempt
  <2> QED
    BY <1>3, <2>1, <2>2 DEF HostAnswers
<1>7. CASE SubmitOk(c, seq)
  <2> DEFINE b == [a EXCEPT !.phase = "submitted",
                            !.poll = IF Sampled(seq) THEN "pending" ELSE "none"]
  <2>1. b \in Attempt /\ Updated(c, seq, b)
    BY <1>7, StepUpdates
  <2>2. a.phase = "submitting" /\ b.phase = "submitted"
    BY <1>0, <1>7 DEF SubmitOk, Attempt
  <2>3. \A P : \A d \in Chain : d # c => InPhase(d, P)' = InPhase(d, P)
    BY <2>1, PhaseMoves
  <2>4. /\ Held(c, Open)' = Held(c, Open) - 1
        /\ Held(c, {"submitted"})' = Held(c, {"submitted"}) + 1
        /\ InPhase(c, {"error"})' = InPhase(c, {"error"})
    <3> HIDE DEF b
    <3>1. a.phase \in Open /\ b.phase \notin Open
      BY <2>2 DEF Open
    <3>2. a.phase \notin {"submitted"} /\ b.phase \in {"submitted"}
      BY <2>2
    <3>3. a.phase \notin {"error"} /\ b.phase \notin {"error"}
      BY <2>2
    <3> QED
      BY <2>1, <3>1, <3>2, <3>3, PhaseMoves
  <2> QED
    BY <1>1, <1>2, <1>7, <2>3, <2>4 DEF SubmitOk
<1>8. CASE SubmitFails(c, seq)
  <2> DEFINE b == [a EXCEPT !.phase = "error"]
  <2>1. b \in Attempt /\ Updated(c, seq, b)
    BY <1>8, StepUpdates
  <2>2. a.phase \in Open /\ b.phase = "error"
    BY <1>0, <1>8 DEF SubmitFails, Attempt
  <2>3. \A P : \A d \in Chain : d # c => InPhase(d, P)' = InPhase(d, P)
    BY <2>1, PhaseMoves
  <2>4. /\ Held(c, Open)' = Held(c, Open) - 1
        /\ Held(c, {"error"})' = Held(c, {"error"}) + 1
        /\ InPhase(c, {"submitted"})' = InPhase(c, {"submitted"})
    BY <2>1, <2>2, PhaseMoves, ZenonT(30) DEF Open
  <2> QED
    BY <1>1, <1>2, <1>8, <2>3, <2>4 DEF SubmitFails
<1> QED
  BY <1>4, <1>5, <1>6, <1>7, <1>8 DEF AttestStep

LEMMA NextCounted == TypeOK /\ AnchorsHeard /\ EveryAttestIsCounted /\ [Next]_vars => EveryAttestIsCounted'
<1> SUFFICES ASSUME TypeOK, AnchorsHeard, EveryAttestIsCounted, [Next]_vars PROVE EveryAttestIsCounted'
  OBVIOUS
<1>1. ASSUME UNCHANGED statVars PROVE EveryAttestIsCounted'
  BY <1>1 DEF statVars, EveryAttestIsCounted, InPhase
<1>2. CASE Ready \/ Refuse \/ Connect \/ StreamFails \/ Wake \/ Beat \/ Stop \/ Exit \/ UNCHANGED vars
  BY <1>1, <1>2 DEF Ready, Refuse, Connect, StreamFails, Wake, Beat, Stop, Exit, vars
<1>3. ASSUME NEW c \in Chain, NEW height \in Height, Read(c, height) PROVE EveryAttestIsCounted'
  <2>1. CASE IsStale(c, height)
    BY <1>1, <1>3, <2>1 DEF Read, statVars
  <2>2. CASE ~IsStale(c, height)
    BY <1>3, <2>2, BeginCounted DEF Read, TakeHeader
  <2> QED
    BY <2>1, <2>2
<1>4. ASSUME NEW c \in Chain, TimerFires(c) PROVE EveryAttestIsCounted'
  <2>1. lastHeight[c] \in Height
    BY <1>4 DEF AnchorsHeard, TimerFires, TypeOK
  <2> QED
    BY <1>4, <2>1, BeginCounted DEF TimerFires
<1>5. ASSUME NEW c \in Chain, NEW seq \in DOMAIN attests[c], AttestStep(c, seq)
      PROVE  EveryAttestIsCounted'
  BY <1>5, StepCounted
<1> QED
  BY <1>2, <1>3, <1>4, <1>5 DEF Next

--------------------------------------------------------------------------------
(* Counting the sends to the extra hosts. *)

\* An attest has been sent nowhere before it is built, and the lists stay in bounds.
NothingSentEarly ==
    \A c \in Chain :
        /\ Len(attests[c]) <= AttestBound
        /\ \A seq \in DOMAIN attests[c] :
             attests[c][seq].phase = "building" => attests[c][seq].unanswered = {}

InHand(h) == {e \in Sent : h \in attests[e[1]][e[2]].unanswered}

LEMMA SendsFinite ==
    /\ IsFiniteSet(Sent) /\ Cardinality(Sent) \in Nat
    /\ IsFiniteSet(SurelySent) /\ Cardinality(SurelySent) \in Nat
    /\ \A h \in Host : IsFiniteSet(InHand(h)) /\ Cardinality(InHand(h)) \in Nat
    /\ Cardinality(SurelySent) <= Cardinality(Sent)
    /\ FANOUT_CAP \in Nat
<1>1. IsFiniteSet(1..AttestBound)
  BY BoundAssumption, FS_Interval
<1>2. IsFiniteSet(Chain \X (1..AttestBound))
  BY <1>1, FiniteAssumption, FS_Product
<1>3. IsFiniteSet(Sent)
  BY <1>2, FS_Subset DEF Sent
<1>4. IsFiniteSet(SurelySent) /\ Cardinality(SurelySent) <= Cardinality(Sent)
  BY <1>3, FS_Subset DEF SurelySent
<1>5. \A h \in Host : IsFiniteSet(InHand(h))
  BY <1>3, FS_Subset DEF InHand
<1>6. FANOUT_CAP \in Nat
  <2>1. MAX_INFLIGHT \in Nat /\ Cardinality(Chain) \in Nat
    BY LimitAssumption, FiniteAssumption, FS_CardinalityType
  <2>2. \A m, n \in Nat : m * n \in Nat
    OBVIOUS
  <2> QED
    BY <2>1, <2>2 DEF FANOUT_CAP
<1> QED
  BY <1>3, <1>4, <1>5, <1>6, FS_CardinalityType

\* How one attest's change moves it between the sets that are counted.
LEMMA SendMoves ==
    ASSUME TypeOK, NothingSentEarly, NEW c \in Chain, NEW seq \in DOMAIN attests[c],
           NEW b \in Attempt, Updated(c, seq, b)
    PROVE  LET p == <<c, seq>> IN
           /\ Sent' = IF b.phase # "building" THEN Sent \cup {p} ELSE Sent \ {p}
           /\ SurelySent' = IF b.phase \notin {"building", "error"}
                            THEN SurelySent \cup {p} ELSE SurelySent \ {p}
           /\ \A h \in Host :
                InHand(h)' = IF b.phase # "building" /\ h \in b.unanswered
                             THEN InHand(h) \cup {p} ELSE InHand(h) \ {p}
           /\ p \in Sent <=> attests[c][seq].phase # "building"
           /\ p \in SurelySent <=> attests[c][seq].phase \notin {"building", "error"}
           /\ \A h \in Host : p \in InHand(h) <=> h \in attests[c][seq].unanswered
<1> DEFINE p == <<c, seq>>
           Pairs == Chain \X (1..AttestBound)
<1>1. /\ \A d \in Chain : DOMAIN attests'[d] = DOMAIN attests[d]
      /\ \A d \in Chain : d # c => attests'[d] = attests[d]
      /\ \A i \in DOMAIN attests[c] : attests'[c][i] = IF i = seq THEN b ELSE attests[c][i]
  BY AttestUpdate
<1>2. p \in Pairs /\ p[1] = c /\ p[2] = seq
  BY BoundAssumption, LenProperties DEF TypeOK, NothingSentEarly
<1>3. \A e \in Pairs : e[1] \in Chain /\ (e = p <=> e[1] = c /\ e[2] = seq)
  OBVIOUS
<1>4. \A e \in Pairs : e[2] \in DOMAIN attests'[e[1]] <=> e[2] \in DOMAIN attests[e[1]]
  BY <1>1, <1>3
<1>5. \A e \in Pairs : e[2] \in DOMAIN attests[e[1]] =>
        attests'[e[1]][e[2]] = IF e = p THEN b ELSE attests[e[1]][e[2]]
  BY <1>1, <1>3
<1> HIDE DEF p, Pairs
<1>6. \A e \in Pairs : e \in Sent <=> e[2] \in DOMAIN attests[e[1]] /\ attests[e[1]][e[2]].phase # "building"
  BY DEF Sent, Pairs
<1>7. \A e \in Pairs : e \in Sent' <=> e[2] \in DOMAIN attests'[e[1]] /\ attests'[e[1]][e[2]].phase # "building"
  BY DEF Sent, Pairs
<1>8. Sent \subseteq Pairs /\ Sent' \subseteq Pairs
  BY DEF Sent, Pairs
<1>9. p[2] \in DOMAIN attests[p[1]]
  BY <1>2
<1>10. Sent' = IF b.phase # "building" THEN Sent \cup {p} ELSE Sent \ {p}
  BY <1>2, <1>4, <1>5, <1>6, <1>7, <1>8, <1>9
<1>11. SurelySent' = IF b.phase \notin {"building", "error"} THEN SurelySent \cup {p} ELSE SurelySent \ {p}
  BY <1>2, <1>4, <1>5, <1>6, <1>7, <1>8, <1>9 DEF SurelySent
<1>12. ASSUME NEW h \in Host
       PROVE  InHand(h)' = IF b.phase # "building" /\ h \in b.unanswered
                           THEN InHand(h) \cup {p} ELSE InHand(h) \ {p}
  BY <1>2, <1>4, <1>5, <1>6, <1>7, <1>8, <1>9 DEF InHand
<1>13. p \in Sent <=> attests[c][seq].phase # "building"
  BY <1>2, <1>6, <1>9
<1>14. p \in SurelySent <=> attests[c][seq].phase \notin {"building", "error"}
  BY <1>2, <1>13 DEF SurelySent
<1>15. \A h \in Host : p \in InHand(h) <=> h \in attests[c][seq].unanswered
  BY <1>2, <1>13 DEF InHand, NothingSentEarly
<1> QED
  BY <1>10, <1>11, <1>12, <1>13, <1>14, <1>15 DEF p

\* An attest that begins has been sent nowhere.
LEMMA BeginSends ==
    ASSUME TypeOK, NEW c \in Chain, NEW height \in Height, NEW mode \in {"reactive", "waiting"},
           BeginAttest(c, height, mode)
    PROVE  Sent' = Sent /\ SurelySent' = SurelySent /\ \A h \in Host : InHand(h)' = InHand(h)
<1>1. CASE inflight[c] >= MAX_INFLIGHT
  BY <1>1 DEF BeginAttest, Sent, SurelySent, InHand
<1>2. CASE inflight[c] < MAX_INFLIGHT
  <2> DEFINE n == Len(attests[c])
             Pairs == Chain \X (1..AttestBound)
  <2>1. /\ n \in Nat /\ DOMAIN attests[c] = 1..n /\ DOMAIN attests'[c] = 1..(n + 1)
        /\ \A d \in Chain : d # c => attests'[d] = attests[d]
        /\ \A i \in DOMAIN attests[c] : attests'[c][i] = attests[c][i]
        /\ attests'[c][n + 1].phase = "building"
    <3>1. attests'[c][n + 1] = Fresh(height, mode)
      BY <1>2, AttestBegins
    <3>2. attests'[c][n + 1].phase = "building"
      BY <3>1 DEF Fresh
    <3> HIDE DEF n
    <3> QED
      BY <1>2, <3>2, AttestBegins DEF n
  <2>2. \A e \in Pairs : e[1] \in Chain
    OBVIOUS
  <2> HIDE DEF n, Pairs
  <2>3. \A e \in Pairs :
          (e[2] \in DOMAIN attests'[e[1]] /\ attests'[e[1]][e[2]].phase # "building")
            <=> (e[2] \in DOMAIN attests[e[1]] /\ attests[e[1]][e[2]].phase # "building")
    <3> SUFFICES ASSUME NEW e \in Pairs
                 PROVE  (e[2] \in DOMAIN attests'[e[1]] /\ attests'[e[1]][e[2]].phase # "building")
                          <=> (e[2] \in DOMAIN attests[e[1]] /\ attests[e[1]][e[2]].phase # "building")
      OBVIOUS
    <3>1. CASE e[1] # c
      BY <2>1, <2>2, <3>1
    <3>2. CASE e[1] = c
      BY <2>1, <3>2
    <3> QED
      BY <3>1, <3>2
  <2>4. \A e \in Pairs : e[2] \in DOMAIN attests[e[1]] => attests'[e[1]][e[2]] = attests[e[1]][e[2]]
    BY <2>1, <2>2
  <2>5. /\ Sent = {e \in Pairs : e[2] \in DOMAIN attests[e[1]] /\ attests[e[1]][e[2]].phase # "building"}
        /\ Sent' = {e \in Pairs : e[2] \in DOMAIN attests'[e[1]] /\ attests'[e[1]][e[2]].phase # "building"}
    BY DEF Sent, Pairs
  <2>6. Sent' = Sent
    BY <2>3, <2>5
  <2>7. \A e \in Sent : attests'[e[1]][e[2]] = attests[e[1]][e[2]]
    BY <2>4, <2>5
  <2> QED
    BY <2>6, <2>7 DEF SurelySent, InHand
<1> QED
  BY <1>1, <1>2, LimitAssumption DEF TypeOK

\* EverySendIsCounted at one host.
Total(h) == fanStats[h].delivered + fanStats[h].failed + fanStats[h].inflight
CountedAt(h) ==
    /\ fanStats[h].inflight = Cardinality(InHand(h))
    /\ fanStats[h].inflight <= FANOUT_CAP
    /\ Cardinality(SurelySent) <= Total(h)
    /\ Total(h) <= Cardinality(Sent)

LEMMA CountedAtEach ==
    /\ EverySendIsCounted <=> \A h \in Host : CountedAt(h)
    /\ EverySendIsCounted' <=> \A h \in Host : CountedAt(h)'
BY DEF EverySendIsCounted, CountedAt, Total, InHand

LEMMA SetUpdates == \A S, x : /\ x \in S => S \cup {x} = S
                             /\ x \notin S => S \ {x} = S
OBVIOUS

LEMMA SendsSame ==
    ASSUME EverySendIsCounted, UNCHANGED fanStats,
           Sent' = Sent, SurelySent' = SurelySent, \A h \in Host : InHand(h)' = InHand(h)
    PROVE  EverySendIsCounted'
BY DEF EverySendIsCounted, InHand

LEMMA StepSends ==
    ASSUME TypeOK, NothingSentEarly, EverySendIsCounted,
           NEW c \in Chain, NEW seq \in DOMAIN attests[c], AttestStep(c, seq)
    PROVE  EverySendIsCounted'
<1> DEFINE a == attests[c][seq]
           p == <<c, seq>>
<1>0. a \in Attempt
  BY StepUpdates
<1>1. /\ fanStats \in [Host -> [delivered : Nat, failed : Nat, inflight : Nat]]
      /\ \A h \in Host : CountedAt(h)
      /\ FANOUT_CAP \in Nat
      /\ Cardinality(Sent) \in Nat /\ Cardinality(SurelySent) \in Nat
      /\ \A h \in Host : Cardinality(InHand(h)) \in Nat
  BY SendsFinite, CountedAtEach DEF TypeOK
<1>2. /\ p \in Sent <=> a.phase # "building"
      /\ p \in SurelySent <=> a.phase \notin {"building", "error"}
      /\ \A h \in Host : p \in InHand(h) <=> h \in a.unanswered
  <2>2. p \in Chain \X (1..AttestBound)
    BY BoundAssumption, LenProperties DEF TypeOK, NothingSentEarly
  <2> QED
    BY <2>2 DEF Sent, SurelySent, InHand, NothingSentEarly
<1>3. ASSUME NEW b \in Attempt, Updated(c, seq, b)
      PROVE  /\ Sent' = IF b.phase # "building" THEN Sent \cup {p} ELSE Sent \ {p}
             /\ SurelySent' = IF b.phase \notin {"building", "error"}
                              THEN SurelySent \cup {p} ELSE SurelySent \ {p}
             /\ \A h \in Host :
                  InHand(h)' = IF b.phase # "building" /\ h \in b.unanswered
                               THEN InHand(h) \cup {p} ELSE InHand(h) \ {p}
  BY <1>3, SendMoves
<1> HIDE DEF p
<1>4. ASSUME NEW b \in Attempt, Updated(c, seq, b), UNCHANGED fanStats,
             b.phase = "building" <=> a.phase = "building", b.phase = "error" <=> a.phase = "error",
             b.unanswered = a.unanswered
      PROVE  EverySendIsCounted'
  <2>1. Sent' = Sent /\ SurelySent' = SurelySent
    <3>1. /\ Sent' = IF b.phase # "building" THEN Sent \cup {p} ELSE Sent \ {p}
          /\ SurelySent' = IF b.phase \notin {"building", "error"}
                           THEN SurelySent \cup {p} ELSE SurelySent \ {p}
      BY <1>3, <1>4
    <3>2. CASE a.phase = "building"
      BY <1>2, <1>4, <3>1, <3>2, SetUpdates
    <3>3. CASE a.phase # "building"
      <4>1. Sent' = Sent
        BY <1>2, <1>4, <3>1, <3>3, SetUpdates
      <4>2. SurelySent' = SurelySent
        BY <1>2, <1>4, <3>1, <3>3, SetUpdates
      <4> QED
        BY <4>1, <4>2
    <3> QED
      BY <3>2, <3>3
  <2>2. \A h \in Host : InHand(h)' = InHand(h)
    <3> SUFFICES ASSUME NEW h \in Host PROVE InHand(h)' = InHand(h)
      OBVIOUS
    <3>1. h \in a.unanswered => a.phase # "building"
      BY DEF NothingSentEarly
    <3> QED
      BY <1>2, <1>3, <1>4, <3>1
  <2> QED
    BY <1>4, <2>1, <2>2, SendsSame
<1>5. CASE Built(c, seq)
  <2> DEFINE b == [a EXCEPT !.phase = "submitting", !.unanswered = Roomy]
  <2>1. b \in Attempt /\ Updated(c, seq, b)
    BY <1>5, StepUpdates
  <2>2. a.phase = "building" /\ b.phase = "submitting" /\ b.unanswered = Roomy /\ a.unanswered = {}
    BY <1>0, <1>5 DEF Built, Attempt, NothingSentEarly
  <2> HIDE DEF b
  <2>3. Sent' = Sent \cup {p} /\ p \notin Sent /\ SurelySent' = SurelySent \cup {p} /\ p \notin SurelySent
    BY <1>2, <1>3, <2>1, <2>2
  <2>4. /\ Cardinality(Sent') = Cardinality(Sent) + 1
        /\ Cardinality(SurelySent') = Cardinality(SurelySent) + 1
    BY <2>3, SendsFinite, FS_AddElement
  <2>5. \A h \in Host : fanStats'[h] = IF h \in Roomy THEN [fanStats[h] EXCEPT !.inflight = @ + 1]
                                                      ELSE [fanStats[h] EXCEPT !.failed = @ + 1]
    BY <1>5 DEF Built
  <2> SUFFICES ASSUME NEW h \in Host PROVE CountedAt(h)'
    BY CountedAtEach
  <2>6. CASE h \in Roomy
    <3>1. InHand(h)' = InHand(h) \cup {p} /\ p \notin InHand(h)
      BY <1>2, <1>3, <2>1, <2>2, <2>6
    <3>2. Cardinality(InHand(h)') = Cardinality(InHand(h)) + 1
      BY <3>1, SendsFinite, FS_AddElement
    <3>3. fanStats[h].inflight < FANOUT_CAP
      BY <2>6 DEF Roomy
    <3>4. fanStats'[h] = [fanStats[h] EXCEPT !.inflight = @ + 1]
      BY <2>5, <2>6
    <3>5. FANOUT_CAP' = FANOUT_CAP
      BY DEF FANOUT_CAP
    <3> QED
      BY <1>1, <2>4, <3>2, <3>3, <3>4, <3>5 DEF CountedAt, Total
  <2>7. CASE h \notin Roomy
    <3>1. InHand(h)' = InHand(h)
      BY <1>2, <1>3, <2>1, <2>2, <2>7, SetUpdates
    <3>2. fanStats'[h] = [fanStats[h] EXCEPT !.failed = @ + 1]
      BY <2>5, <2>7
    <3>3. FANOUT_CAP' = FANOUT_CAP
      BY DEF FANOUT_CAP
    <3> QED
      BY <1>1, <2>4, <3>1, <3>2, <3>3 DEF CountedAt, Total
  <2> QED
    BY <2>6, <2>7
<1>6. CASE SubmitOk(c, seq)
  <2> DEFINE b == [a EXCEPT !.phase = "submitted",
                            !.poll = IF Sampled(seq) THEN "pending" ELSE "none"]
  <2>1. b \in Attempt /\ Updated(c, seq, b)
    BY <1>6, StepUpdates
  <2>2. a.phase = "submitting" /\ b.phase = "submitted" /\ b.unanswered = a.unanswered
    BY <1>0, <1>6 DEF SubmitOk, Attempt
  <2> QED
    BY <1>4, <1>6, <2>1, <2>2 DEF SubmitOk
<1>7. CASE \E outcome \in {"ok", "fail"} : PollEnds(c, seq, outcome)
  <2> PICK outcome \in {"ok", "fail"} : PollEnds(c, seq, outcome)
    BY <1>7
  <2> DEFINE b == [a EXCEPT !.poll = outcome]
  <2>1. b \in Attempt /\ Updated(c, seq, b)
    BY StepUpdates
  <2>2. b.phase = a.phase /\ b.unanswered = a.unanswered
    BY <1>0 DEF Attempt
  <2> QED
    BY <1>4, <2>1, <2>2 DEF PollEnds
<1>8. CASE SubmitFails(c, seq)
  <2> DEFINE b == [a EXCEPT !.phase = "error"]
  <2>1. b \in Attempt /\ Updated(c, seq, b) /\ UNCHANGED fanStats
    BY <1>8, StepUpdates DEF SubmitFails
  <2>2. a.phase \in Open /\ b.phase = "error" /\ b.unanswered = a.unanswered
    BY <1>0, <1>8 DEF SubmitFails, Attempt
  <2> HIDE DEF b
  <2>3. \A h \in Host : InHand(h)' = InHand(h)
    BY <1>2, <1>3, <2>1, <2>2
  <2>4. Sent' = Sent \cup {p} /\ SurelySent' = SurelySent \ {p}
    BY <1>3, <2>1, <2>2
  <2>5. /\ Cardinality(Sent') \in Nat /\ Cardinality(Sent') >= Cardinality(Sent)
        /\ Cardinality(SurelySent') \in Nat /\ Cardinality(SurelySent') <= Cardinality(SurelySent)
    <3>1. IsFiniteSet(Sent \cup {p})
      BY SendsFinite, FS_AddElement
    <3>2. Cardinality(Sent) <= Cardinality(Sent \cup {p}) /\ Cardinality(Sent \cup {p}) \in Nat
      BY <3>1, FS_Subset, FS_CardinalityType
    <3>3. /\ IsFiniteSet(SurelySent \ {p})
          /\ Cardinality(SurelySent \ {p}) <= Cardinality(SurelySent)
      BY SendsFinite, FS_Subset
    <3> QED
      BY <1>1, <2>4, <3>2, <3>3, FS_CardinalityType
  <2> SUFFICES ASSUME NEW h \in Host PROVE CountedAt(h)'
    BY CountedAtEach
  <2>6. FANOUT_CAP' = FANOUT_CAP
    BY DEF FANOUT_CAP
  <2> QED
    BY <1>1, <2>1, <2>3, <2>5, <2>6 DEF CountedAt, Total
<1>9. CASE \E h \in Host, ok \in BOOLEAN : HostAnswers(c, seq, h, ok)
  <2> PICK g \in Host, ok \in BOOLEAN : HostAnswers(c, seq, g, ok)
    BY <1>9
  <2> DEFINE b == [a EXCEPT !.unanswered = @ \ {g}]
  <2>1. b \in Attempt /\ Updated(c, seq, b) /\ g \in a.unanswered
    BY StepUpdates DEF HostAnswers
  <2>2. b.phase = a.phase /\ b.unanswered = a.unanswered \ {g} /\ a.phase # "building"
    BY <1>0, <2>1 DEF Attempt, NothingSentEarly
  <2> HIDE DEF b
  <2>3. Sent' = Sent /\ SurelySent' = SurelySent
    <3>1. /\ Sent' = IF b.phase # "building" THEN Sent \cup {p} ELSE Sent \ {p}
          /\ SurelySent' = IF b.phase \notin {"building", "error"}
                           THEN SurelySent \cup {p} ELSE SurelySent \ {p}
      BY <1>3, <2>1
    <3>2. Sent' = Sent
      BY <1>2, <2>2, <3>1, SetUpdates
    <3>3. SurelySent' = SurelySent
      BY <1>2, <2>2, <3>1, SetUpdates
    <3> QED
      BY <3>2, <3>3
  <2>4. \A h \in Host : h # g => InHand(h)' = InHand(h)
    BY <1>2, <1>3, <2>1, <2>2, SetUpdates
  <2>5. Cardinality(InHand(g)') = Cardinality(InHand(g)) - 1
    <3>1. InHand(g)' = InHand(g) \ {p} /\ p \in InHand(g)
      BY <1>2, <1>3, <2>1, <2>2
    <3> QED
      BY <3>1, SendsFinite, FS_RemoveElement
  <2>6. fanStats' = [fanStats EXCEPT ![g].inflight = @ - 1,
                                     ![g].delivered = IF ok THEN @ + 1 ELSE @,
                                     ![g].failed = IF ok THEN @ ELSE @ + 1]
    BY DEF HostAnswers
  <2>7. FANOUT_CAP' = FANOUT_CAP
    BY DEF FANOUT_CAP
  <2> SUFFICES ASSUME NEW h \in Host PROVE CountedAt(h)'
    BY CountedAtEach
  <2>8. CASE h = g
    <3>1. /\ fanStats'[g].inflight = fanStats[g].inflight - 1
          /\ fanStats'[g].delivered = IF ok THEN fanStats[g].delivered + 1 ELSE fanStats[g].delivered
          /\ fanStats'[g].failed = IF ok THEN fanStats[g].failed ELSE fanStats[g].failed + 1
      BY <1>1, <2>6
    <3>2. Total(g)' = Total(g)
      BY <1>1, <3>1 DEF Total
    <3> QED
      BY <1>1, <2>3, <2>5, <2>7, <2>8, <3>1, <3>2 DEF CountedAt
  <2>9. CASE h # g
    <3>1. fanStats'[h] = fanStats[h]
      BY <1>1, <2>6, <2>9
    <3> QED
      BY <1>1, <2>3, <2>4, <2>7, <2>9, <3>1 DEF CountedAt, Total
  <2> QED
    BY <2>8, <2>9
<1> QED
  BY <1>5, <1>6, <1>7, <1>8, <1>9 DEF AttestStep

LEMMA NextSends ==
    TypeOK /\ AnchorsHeard /\ NothingSentEarly /\ EverySendIsCounted /\ [Next]_vars
        => EverySendIsCounted'
<1> SUFFICES ASSUME TypeOK, AnchorsHeard, NothingSentEarly, EverySendIsCounted, [Next]_vars
             PROVE  EverySendIsCounted'
  OBVIOUS
<1>1. ASSUME UNCHANGED statVars PROVE EverySendIsCounted'
  BY <1>1 DEF statVars, EverySendIsCounted, Sent, SurelySent
<1>2. CASE Ready \/ Refuse \/ Connect \/ StreamFails \/ Wake \/ Beat \/ Stop \/ Exit \/ UNCHANGED vars
  BY <1>1, <1>2 DEF Ready, Refuse, Connect, StreamFails, Wake, Beat, Stop, Exit, vars
<1>3. ASSUME NEW c \in Chain, NEW height \in Height, Read(c, height) PROVE EverySendIsCounted'
  <2>1. CASE IsStale(c, height)
    BY <1>1, <1>3, <2>1 DEF Read, statVars
  <2>2. CASE ~IsStale(c, height)
    BY <1>3, <2>2, BeginSends, SendsSame DEF Read, TakeHeader
  <2> QED
    BY <2>1, <2>2
<1>4. ASSUME NEW c \in Chain, TimerFires(c) PROVE EverySendIsCounted'
  <2>1. lastHeight[c] \in Height
    BY <1>4 DEF AnchorsHeard, TimerFires, TypeOK
  <2> QED
    BY <1>4, <2>1, BeginSends, SendsSame DEF TimerFires
<1>5. ASSUME NEW c \in Chain, NEW seq \in DOMAIN attests[c], AttestStep(c, seq)
      PROVE  EverySendIsCounted'
  BY <1>5, StepSends
<1> QED
  BY <1>2, <1>3, <1>4, <1>5 DEF Next

--------------------------------------------------------------------------------
(* The heights of a chain's attests, and what they have been sent. *)

\* A step of an attest adds none, changes no height or mode, and leaves an attest
\* that is still building unsent.
LEMMA StepKeeps ==
    ASSUME TypeOK, NothingSentEarly, NEW c \in Chain, NEW seq \in DOMAIN attests[c],
           AttestStep(c, seq)
    PROVE  /\ attests' \in [Chain -> Seq(Attempt)]
           /\ \A d \in Chain : DOMAIN attests'[d] = DOMAIN attests[d]
           /\ \A d \in Chain : \A i \in DOMAIN attests[d] :
                /\ attests'[d][i].height = attests[d][i].height
                /\ attests'[d][i].mode = attests[d][i].mode
                /\ attests'[d][i].phase = "building" => attests'[d][i].unanswered = {}
<1> DEFINE a == attests[c][seq]
<1>0. a \in Attempt
  BY StepUpdates
<1>1. ASSUME NEW b \in Attempt, Updated(c, seq, b), b.height = a.height, b.mode = a.mode,
             b.phase = "building" => b.unanswered = {}
      PROVE  /\ attests' \in [Chain -> Seq(Attempt)]
             /\ \A d \in Chain : DOMAIN attests'[d] = DOMAIN attests[d]
             /\ \A d \in Chain : \A i \in DOMAIN attests[d] :
                  /\ attests'[d][i].height = attests[d][i].height
                  /\ attests'[d][i].mode = attests[d][i].mode
                  /\ attests'[d][i].phase = "building" => attests'[d][i].unanswered = {}
  <2>1. /\ attests' \in [Chain -> Seq(Attempt)]
        /\ \A d \in Chain : DOMAIN attests'[d] = DOMAIN attests[d]
        /\ \A d \in Chain : d # c => attests'[d] = attests[d]
        /\ \A i \in DOMAIN attests[c] : attests'[c][i] = IF i = seq THEN b ELSE attests[c][i]
    BY <1>1, AttestUpdate
  <2> SUFFICES ASSUME NEW d \in Chain, NEW i \in DOMAIN attests[d]
               PROVE  /\ attests'[d][i].height = attests[d][i].height
                      /\ attests'[d][i].mode = attests[d][i].mode
                      /\ attests'[d][i].phase = "building" => attests'[d][i].unanswered = {}
    BY <2>1
  <2>2. CASE d = c /\ i = seq
    BY <1>1, <2>1, <2>2
  <2>3. CASE ~(d = c /\ i = seq)
    <3>1. attests'[d][i] = attests[d][i]
      BY <2>1, <2>3
    <3> QED
      BY <3>1 DEF NothingSentEarly
  <2> QED
    BY <2>2, <2>3
<1>2. CASE Built(c, seq)
  <2> DEFINE b == [a EXCEPT !.phase = "submitting", !.unanswered = Roomy]
  <2>1. b \in Attempt /\ Updated(c, seq, b)
    BY <1>2, StepUpdates
  <2> QED
    BY <1>0, <1>1, <2>1 DEF Attempt
<1>3. CASE SubmitOk(c, seq)
  <2> DEFINE b == [a EXCEPT !.phase = "submitted",
                            !.poll = IF Sampled(seq) THEN "pending" ELSE "none"]
  <2>1. b \in Attempt /\ Updated(c, seq, b)
    BY <1>3, StepUpdates
  <2> QED
    BY <1>0, <1>1, <2>1 DEF Attempt
<1>4. CASE SubmitFails(c, seq)
  <2> DEFINE b == [a EXCEPT !.phase = "error"]
  <2>1. b \in Attempt /\ Updated(c, seq, b)
    BY <1>4, StepUpdates
  <2> QED
    BY <1>0, <1>1, <2>1 DEF Attempt
<1>5. CASE \E outcome \in {"ok", "fail"} : PollEnds(c, seq, outcome)
  <2> PICK outcome \in {"ok", "fail"} : PollEnds(c, seq, outcome)
    BY <1>5
  <2> DEFINE b == [a EXCEPT !.poll = outcome]
  <2>1. b \in Attempt /\ Updated(c, seq, b)
    BY StepUpdates
  <2>2. a.phase = "building" => a.unanswered = {}
    BY DEF NothingSentEarly
  <2> QED
    BY <1>0, <1>1, <2>1, <2>2 DEF Attempt
<1>6. CASE \E h \in Host, ok \in BOOLEAN : HostAnswers(c, seq, h, ok)
  <2> PICK h \in Host, ok \in BOOLEAN : HostAnswers(c, seq, h, ok)
    BY <1>6
  <2> DEFINE b == [a EXCEPT !.unanswered = @ \ {h}]
  <2>1. b \in Attempt /\ Updated(c, seq, b)
    BY StepUpdates
  <2>2. a.phase = "building" => a.unanswered = {}
    BY DEF NothingSentEarly
  <2> QED
    BY <1>0, <1>1, <2>1, <2>2 DEF Attempt
<1> QED
  BY <1>2, <1>3, <1>4, <1>5, <1>6 DEF AttestStep

\* A header is attested at its own height, above the earlier ones.
ReactiveBelow ==
    \A c \in Chain : \A i \in DOMAIN attests[c] :
        attests[c][i].mode = "reactive" => attests[c][i].height <= lastHeight[c]

LEMMA StepOrder ==
    ASSUME TypeOK, NothingSentEarly, ReactiveBelow, OneReactivePerHeight, UNCHANGED lastHeight,
           NEW c \in Chain, NEW seq \in DOMAIN attests[c], AttestStep(c, seq)
    PROVE  NothingSentEarly' /\ ReactiveBelow' /\ OneReactivePerHeight'
<1>1. /\ \A d \in Chain : DOMAIN attests'[d] = DOMAIN attests[d]
      /\ \A d \in Chain : \A i \in DOMAIN attests[d] :
           /\ attests'[d][i].height = attests[d][i].height
           /\ attests'[d][i].mode = attests[d][i].mode
           /\ attests'[d][i].phase = "building" => attests'[d][i].unanswered = {}
  BY StepKeeps
<1>2. \A d \in Chain : Len(attests'[d]) = Len(attests[d])
  <2>1. attests' \in [Chain -> Seq(Attempt)]
    BY StepKeeps
  <2> SUFFICES ASSUME NEW d \in Chain PROVE Len(attests'[d]) = Len(attests[d])
    OBVIOUS
  <2>2. attests[d] \in Seq(Attempt) /\ attests'[d] \in Seq(Attempt)
    BY <2>1 DEF TypeOK
  <2>3. DOMAIN attests[d] = 1..Len(attests[d]) /\ Len(attests[d]) \in Nat
    BY <2>2, LenProperties
  <2>4. DOMAIN attests'[d] = 1..Len(attests'[d]) /\ Len(attests'[d]) \in Nat
    BY <2>2, LenProperties
  <2> QED
    BY <1>1, <2>3, <2>4
<1>3. NothingSentEarly'
  BY <1>1, <1>2 DEF NothingSentEarly
<1>4. ReactiveBelow'
  BY <1>1 DEF ReactiveBelow
<1>5. OneReactivePerHeight'
  BY <1>1 DEF OneReactivePerHeight
<1> QED
  BY <1>3, <1>4, <1>5

LEMMA HeightsAreNumbers ==
    /\ \A height \in Height : height \in Int
    /\ TypeOK => \A c \in Chain : lastHeight[c] \in Int
<1>1. \A height \in Height : height \in Int
  BY BoundAssumption DEF Height
<1>2. TypeOK => lastHeight \in [Chain -> Height \cup {None}]
  BY DEF TypeOK
<1>3. None \in Int
  BY DEF None
<1> QED
  BY <1>1, <1>2, <1>3

LEMMA BeginOrder ==
    ASSUME TypeOK, NothingSentEarly, ReactiveBelow, OneReactivePerHeight,
           NEW c \in Chain, NEW height \in Height, NEW mode \in {"reactive", "waiting"},
           BelowAttestBound(c), BeginAttest(c, height, mode),
           lastHeight' = lastHeight
             \/ (lastHeight' = [lastHeight EXCEPT ![c] = height] /\ height > lastHeight[c]),
           mode = "reactive" => lastHeight'[c] = height /\ height > lastHeight[c]
    PROVE  NothingSentEarly' /\ ReactiveBelow' /\ OneReactivePerHeight'
<1>0. /\ \A d \in Chain : lastHeight[d] \in Int /\ lastHeight'[d] \in Int
      /\ \A d \in Chain : lastHeight[d] <= lastHeight'[d]
      /\ \A d \in Chain : \A i \in DOMAIN attests[d] : attests[d][i].height \in Int
      /\ height \in Int
  <2>1. \A d \in Chain : \A i \in DOMAIN attests[d] : attests[d][i] \in Attempt
    BY StepUpdates
  <2>2. lastHeight \in [Chain -> Height \cup {None}]
    BY DEF TypeOK
  <2>3. \A d \in Chain : lastHeight[d] \in Int
    BY HeightsAreNumbers
  <2>4. \A d \in Chain : lastHeight'[d] \in Int /\ lastHeight[d] <= lastHeight'[d]
    <3>1. CASE lastHeight' = lastHeight
      BY <2>3, <3>1
    <3>2. CASE lastHeight' = [lastHeight EXCEPT ![c] = height] /\ height > lastHeight[c]
      BY <2>2, <2>3, <3>2, HeightsAreNumbers
    <3> QED
      BY <3>1, <3>2
  <2> QED
    BY <2>1, <2>3, <2>4, HeightsAreNumbers DEF Attempt
<1>1. CASE inflight[c] >= MAX_INFLIGHT
  <2>1. attests' = attests
    BY <1>1 DEF BeginAttest
  <2>2. \A d \in Chain : \A i \in DOMAIN attests[d] :
          attests[d][i].mode = "reactive" => attests[d][i].height <= lastHeight'[d]
    BY <1>0 DEF ReactiveBelow
  <2> QED
    BY <2>1, <2>2 DEF NothingSentEarly, ReactiveBelow, OneReactivePerHeight
<1>2. CASE inflight[c] < MAX_INFLIGHT
  <2> DEFINE n == Len(attests[c])
             f == Fresh(height, mode)
  <2>1. /\ n \in Nat /\ DOMAIN attests[c] = 1..n /\ DOMAIN attests'[c] = 1..(n + 1)
        /\ Len(attests'[c]) = n + 1
        /\ \A d \in Chain : d # c => attests'[d] = attests[d]
        /\ \A i \in DOMAIN attests[c] : attests'[c][i] = attests[c][i]
        /\ attests'[c][n + 1] = f
    <3> HIDE DEF n, f
    <3> QED
      BY <1>2, AttestBegins DEF n, f
  <2>2. f.height = height /\ f.mode = mode /\ f.phase = "building" /\ f.unanswered = {}
    BY DEF Fresh
  <2>3. n < AttestBound
    BY DEF BelowAttestBound
  <2> HIDE DEF n, f
  <2>4. NothingSentEarly'
    <3> SUFFICES ASSUME NEW d \in Chain
                 PROVE  /\ Len(attests'[d]) <= AttestBound
                        /\ \A i \in DOMAIN attests'[d] :
                             attests'[d][i].phase = "building" => attests'[d][i].unanswered = {}
      BY DEF NothingSentEarly
    <3>1. CASE d = c
      BY <2>1, <2>2, <2>3, <3>1, BoundAssumption DEF NothingSentEarly
    <3>2. CASE d # c
      BY <2>1, <3>2 DEF NothingSentEarly
    <3> QED
      BY <3>1, <3>2
  <2>5. ReactiveBelow'
    <3> SUFFICES ASSUME NEW d \in Chain, NEW i \in DOMAIN attests'[d],
                        attests'[d][i].mode = "reactive"
                 PROVE  attests'[d][i].height <= lastHeight'[d]
      BY DEF ReactiveBelow
    <3>1. CASE d = c /\ i = n + 1
      BY <1>0, <2>1, <2>2, <3>1
    <3>2. CASE ~(d = c /\ i = n + 1)
      <4>1. i \in DOMAIN attests[d] /\ attests'[d][i] = attests[d][i]
        BY <2>1, <3>2
      <4> QED
        BY <1>0, <4>1 DEF ReactiveBelow
    <3> QED
      BY <3>1, <3>2
  <2>6. OneReactivePerHeight'
    <3> SUFFICES ASSUME NEW d \in Chain, NEW i \in DOMAIN attests'[d], NEW j \in DOMAIN attests'[d],
                        i < j, attests'[d][i].mode = "reactive", attests'[d][j].mode = "reactive"
                 PROVE  attests'[d][i].height < attests'[d][j].height
      BY DEF OneReactivePerHeight
    <3>1. CASE d = c /\ j = n + 1
      <4>1. i \in DOMAIN attests[c] /\ attests'[c][i] = attests[c][i]
        BY <2>1, <3>1
      <4>2. attests[c][i].height <= lastHeight[c]
        BY <3>1, <4>1 DEF ReactiveBelow
      <4>3. mode = "reactive" /\ attests'[d][j].height = height
        BY <2>1, <2>2, <3>1
      <4> QED
        BY <1>0, <3>1, <4>1, <4>2, <4>3
    <3>2. CASE ~(d = c /\ j = n + 1)
      <4>1. /\ i \in DOMAIN attests[d] /\ attests'[d][i] = attests[d][i]
            /\ j \in DOMAIN attests[d] /\ attests'[d][j] = attests[d][j]
        BY <2>1, <3>2
      <4> QED
        BY <4>1 DEF OneReactivePerHeight
    <3> QED
      BY <3>1, <3>2
  <2> QED
    BY <2>4, <2>5, <2>6
<1> QED
  BY <1>1, <1>2, LimitAssumption DEF TypeOK

LEMMA NextOrder ==
    TypeOK /\ AnchorsHeard /\ NothingSentEarly /\ ReactiveBelow /\ OneReactivePerHeight /\ [Next]_vars
        => NothingSentEarly' /\ ReactiveBelow' /\ OneReactivePerHeight'
<1> SUFFICES ASSUME TypeOK, AnchorsHeard, NothingSentEarly, ReactiveBelow, OneReactivePerHeight,
                    [Next]_vars
             PROVE  NothingSentEarly' /\ ReactiveBelow' /\ OneReactivePerHeight'
  OBVIOUS
<1>1. ASSUME UNCHANGED <<attests, lastHeight>>
      PROVE  NothingSentEarly' /\ ReactiveBelow' /\ OneReactivePerHeight'
  BY <1>1 DEF NothingSentEarly, ReactiveBelow, OneReactivePerHeight
<1>2. CASE Ready \/ Refuse \/ Connect \/ StreamFails \/ Wake \/ Beat \/ Stop \/ Exit \/ UNCHANGED vars
  BY <1>1, <1>2 DEF Ready, Refuse, Connect, StreamFails, Wake, Beat, Stop, Exit, vars, statVars,
                    streamVars
<1>3. ASSUME NEW c \in Chain, NEW height \in Height, Read(c, height)
      PROVE  NothingSentEarly' /\ ReactiveBelow' /\ OneReactivePerHeight'
  <2>1. CASE IsStale(c, height)
    BY <1>1, <1>3, <2>1 DEF Read
  <2>2. CASE ~IsStale(c, height)
    <3>1. height > lastHeight[c]
      BY <2>2, HeightsAreNumbers DEF IsStale
    <3>2. /\ lastHeight' = [lastHeight EXCEPT ![c] = height]
          /\ lastHeight'[c] = height
      BY <1>3, <2>2 DEF Read, TakeHeader, TypeOK
    <3>3. BelowAttestBound(c) /\ BeginAttest(c, height, "reactive")
      BY <1>3, <2>2 DEF Read, TakeHeader
    <3> QED
      BY <3>1, <3>2, <3>3, BeginOrder
  <2> QED
    BY <2>1, <2>2
<1>4. ASSUME NEW c \in Chain, TimerFires(c)
      PROVE  NothingSentEarly' /\ ReactiveBelow' /\ OneReactivePerHeight'
  <2>1. lastHeight[c] \in Height
    BY <1>4 DEF AnchorsHeard, TimerFires, TypeOK
  <2>2. PICK height \in Height : height = lastHeight[c]
    BY <2>1
  <2>3. lastHeight' = lastHeight /\ BelowAttestBound(c) /\ BeginAttest(c, height, "waiting")
    BY <1>4, <2>2 DEF TimerFires, streamVars
  <2> QED
    BY <2>3, BeginOrder
<1>5. ASSUME NEW c \in Chain, NEW seq \in DOMAIN attests[c], AttestStep(c, seq)
      PROVE  NothingSentEarly' /\ ReactiveBelow' /\ OneReactivePerHeight'
  <2>1. lastHeight' = lastHeight
    BY <1>5 DEF AttestStep, streamVars
  <2> QED
    BY <1>5, <2>1, StepOrder
<1> QED
  BY <1>2, <1>3, <1>4, <1>5 DEF Next

--------------------------------------------------------------------------------
(* Types.  The counters stay natural because what they count is there. *)

LEMMA BeginTyped ==
    ASSUME TypeOK, NEW c \in Chain, NEW height \in Height, NEW mode \in {"reactive", "waiting"},
           BeginAttest(c, height, mode)
    PROVE  inflight' \in [Chain -> Nat] /\ attests' \in [Chain -> Seq(Attempt)]
<1>1. inflight \in [Chain -> Nat] /\ attests \in [Chain -> Seq(Attempt)] /\ MAX_INFLIGHT \in Nat
  BY LimitAssumption DEF TypeOK
<1>2. CASE inflight[c] >= MAX_INFLIGHT
  BY <1>1, <1>2 DEF BeginAttest
<1>3. CASE inflight[c] < MAX_INFLIGHT
  <2>1. inflight' = [inflight EXCEPT ![c] = @ + 1]
    BY <1>1, <1>3 DEF BeginAttest
  <2> QED
    BY <1>1, <1>3, <2>1, AttestBegins
<1> QED
  BY <1>1, <1>2, <1>3

LEMMA StepTyped ==
    ASSUME TypeOK, NothingSentEarly, EveryAttestIsCounted, EverySendIsCounted,
           NEW c \in Chain, NEW seq \in DOMAIN attests[c], AttestStep(c, seq)
    PROVE  /\ inflight' \in [Chain -> Nat] /\ submitted' \in [Chain -> Nat]
           /\ submitErrors' \in [Chain -> Nat] /\ pollFail' \in [Chain -> Nat]
           /\ fanStats' \in [Host -> [delivered : Nat, failed : Nat, inflight : Nat]]
<1>1. /\ inflight \in [Chain -> Nat] /\ submitted \in [Chain -> Nat]
      /\ submitErrors \in [Chain -> Nat] /\ pollFail \in [Chain -> Nat]
      /\ fanStats \in [Host -> [delivered : Nat, failed : Nat, inflight : Nat]]
  BY DEF TypeOK
<1>2. CASE Built(c, seq)
  BY <1>1, <1>2 DEF Built
<1>3. CASE SubmitOk(c, seq)
  <2>1. inflight[c] > 0
    BY <1>3, HoldsAPlace DEF SubmitOk, Open
  <2> QED
    BY <1>1, <1>3, <2>1 DEF SubmitOk
<1>4. CASE SubmitFails(c, seq)
  <2>1. inflight[c] > 0
    BY <1>4, HoldsAPlace DEF SubmitFails
  <2> QED
    BY <1>1, <1>4, <2>1 DEF SubmitFails
<1>5. CASE \E outcome \in {"ok", "fail"} : PollEnds(c, seq, outcome)
  BY <1>1, <1>5 DEF PollEnds
<1>6. CASE \E h \in Host, ok \in BOOLEAN : HostAnswers(c, seq, h, ok)
  <2> PICK h \in Host, ok \in BOOLEAN : HostAnswers(c, seq, h, ok)
    BY <1>6
  <2>1. h \in attests[c][seq].unanswered /\ attests[c][seq].phase # "building"
    BY DEF HostAnswers, NothingSentEarly
  <2>2. seq \in 1..AttestBound
    BY BoundAssumption, LenProperties DEF TypeOK, NothingSentEarly
  <2>3. <<c, seq>> \in InHand(h)
    BY <2>1, <2>2 DEF InHand, Sent
  <2>4. Cardinality(InHand(h)) \in Nat /\ Cardinality(InHand(h)) # 0
    BY <2>3, SendsFinite, FS_EmptySet
  <2>5. fanStats[h].inflight \in Nat /\ fanStats[h].inflight > 0
    BY <1>1, <2>4, CountedAtEach DEF CountedAt
  <2>6. fanStats' = [fanStats EXCEPT ![h].inflight = @ - 1,
                                     ![h].delivered = IF ok THEN @ + 1 ELSE @,
                                     ![h].failed = IF ok THEN @ ELSE @ + 1]
        /\ UNCHANGED <<inflight, submitted, submitErrors, pollFail>>
    BY DEF HostAnswers
  <2> QED
    BY <1>1, <2>5, <2>6
<1> QED
  BY <1>2, <1>3, <1>4, <1>5, <1>6 DEF AttestStep

StatsTyped ==
    /\ inflight \in [Chain -> Nat] /\ submitted \in [Chain -> Nat]
    /\ submitErrors \in [Chain -> Nat] /\ pollFail \in [Chain -> Nat]
    /\ fanStats \in [Host -> [delivered : Nat, failed : Nat, inflight : Nat]]
    /\ attests \in [Chain -> Seq(Attempt)]

LEMMA NextTyped ==
    TypeOK /\ AnchorsHeard /\ NothingSentEarly /\ EveryAttestIsCounted /\ EverySendIsCounted
      /\ TimersOnlyWhileConnected /\ [Next]_vars
        => TypeOK' /\ TimersOnlyWhileConnected'
<1> SUFFICES ASSUME TypeOK, AnchorsHeard, NothingSentEarly, EveryAttestIsCounted,
                    EverySendIsCounted, TimersOnlyWhileConnected, [Next]_vars
             PROVE  TypeOK' /\ TimersOnlyWhileConnected'
  OBVIOUS
<1>0. /\ StatsTyped
      /\ lastHeight \in [Chain -> Height \cup {None}] /\ anchor \in [Chain -> Height \cup {None}]
      /\ heard \subseteq Chain /\ waitTimers \subseteq Chain
      /\ unclaimed \in BOOLEAN /\ stopping \in BOOLEAN /\ exitCode \in {None, 0, 1}
      /\ backoff \in 1..MaxDelay
      /\ pc \in {"preflight", "connecting", "reading", "sleeping", "settling", "exited"}
  BY DEF TypeOK, StatsTyped
<1>1. ASSUME UNCHANGED statVars PROVE StatsTyped'
  BY <1>0, <1>1 DEF statVars, StatsTyped
<1>2. CASE Ready \/ Refuse \/ Connect \/ StreamFails \/ Beat \/ Stop \/ Exit
  <2>1. StatsTyped'
    BY <1>1, <1>2 DEF Ready, Refuse, Connect, StreamFails, Beat, Stop, Exit
  <2>2. CASE Ready
    BY <1>0, <2>1, <2>2 DEF Ready, TypeOK, StatsTyped, TimersOnlyWhileConnected, streamVars
  <2>3. CASE Refuse
    BY <1>0, <2>1, <2>3 DEF Refuse, TypeOK, StatsTyped, TimersOnlyWhileConnected, streamVars
  <2>4. CASE Connect
    BY <1>0, <2>1, <2>4 DEF Connect, TypeOK, StatsTyped, TimersOnlyWhileConnected
  <2>5. CASE StreamFails
    BY <1>0, <2>1, <2>5 DEF StreamFails, TypeOK, StatsTyped, TimersOnlyWhileConnected, streamVars
  <2>6. CASE Beat
    BY <1>0, <2>1, <2>6 DEF Beat, TypeOK, StatsTyped, TimersOnlyWhileConnected, mainVars
  <2>7. CASE Stop
    BY <1>0, <2>1, <2>7 DEF Stop, TypeOK, StatsTyped, TimersOnlyWhileConnected, streamVars
  <2>8. CASE Exit
    BY <1>0, <2>1, <2>8 DEF Exit, TypeOK, StatsTyped, TimersOnlyWhileConnected, streamVars
  <2> QED
    BY <1>2, <2>2, <2>3, <2>4, <2>5, <2>6, <2>7, <2>8
<1>3. CASE Wake
  <2>1. Doubled(backoff) \in 1..MaxDelay
    BY <1>0, DelayAssumption DEF Doubled
  <2>2. StatsTyped'
    BY <1>1, <1>3 DEF Wake
  <2> QED
    BY <1>0, <1>3, <2>1, <2>2 DEF Wake, TypeOK, StatsTyped, TimersOnlyWhileConnected, streamVars
<1>4. ASSUME NEW c \in Chain, NEW height \in Height, Read(c, height)
      PROVE  TypeOK' /\ TimersOnlyWhileConnected'
  <2>1. /\ StatsTyped'
        /\ lastHeight' \in [Chain -> Height \cup {None}]
        /\ anchor' \in [Chain -> Height \cup {None}] /\ heard' \subseteq Chain
    <3>1. CASE IsStale(c, height)
      BY <1>0, <1>4, <3>1 DEF Read, StatsTyped
    <3>2. CASE ~IsStale(c, height)
      <4>1. BeginAttest(c, height, "reactive") /\ "reactive" \in {"reactive", "waiting"}
        BY <1>4, <3>2 DEF Read, TakeHeader
      <4>2. inflight' \in [Chain -> Nat] /\ attests' \in [Chain -> Seq(Attempt)]
        BY <4>1, BeginTyped
      <4>3. lastHeight' = [lastHeight EXCEPT ![c] = height] /\ anchor' = [anchor EXCEPT ![c] = height]
        BY <1>4, <3>2 DEF Read, TakeHeader
      <4>4. heard' = heard \cup {c} /\ UNCHANGED <<submitted, submitErrors, pollFail, fanStats>>
        BY <1>4, <3>2 DEF Read, TakeHeader
      <4>5. StatsTyped'
        BY <1>0, <4>2, <4>4 DEF StatsTyped
      <4> QED
        BY <1>0, <4>3, <4>4, <4>5
    <3> QED
      BY <3>1, <3>2
  <2>2. /\ unclaimed' = TRUE /\ UNCHANGED <<stopping, exitCode, waitTimers>> /\ pc = "reading"
        /\ (stopping /\ pc' = "settling" /\ backoff' = 1) \/ UNCHANGED <<pc, backoff>>
    BY <1>4 DEF Read
  <2>3. pc' \in {"reading", "settling"} /\ backoff' \in 1..MaxDelay
    BY <1>0, <2>2, DelayAssumption
  <2>4. TimersOnlyWhileConnected'
    BY <2>2 DEF TimersOnlyWhileConnected
  <2> QED
    BY <1>0, <2>1, <2>2, <2>3, <2>4 DEF TypeOK, StatsTyped
<1>5. ASSUME NEW c \in Chain, TimerFires(c) PROVE TypeOK' /\ TimersOnlyWhileConnected'
  <2>1. lastHeight[c] \in Height
    BY <1>5 DEF AnchorsHeard, TimerFires, TypeOK
  <2>2. inflight' \in [Chain -> Nat] /\ attests' \in [Chain -> Seq(Attempt)]
    BY <1>5, <2>1, BeginTyped DEF TimerFires
  <2> QED
    BY <1>0, <1>5, <2>2 DEF TimerFires, TypeOK, StatsTyped, TimersOnlyWhileConnected, streamVars, mainVars
<1>6. ASSUME NEW c \in Chain, NEW seq \in DOMAIN attests[c], AttestStep(c, seq)
      PROVE  TypeOK' /\ TimersOnlyWhileConnected'
  <2>1. StatsTyped'
    BY <1>6, StepTyped, StepKeeps DEF StatsTyped
  <2> QED
    BY <1>0, <1>6, <2>1 DEF AttestStep, TypeOK, StatsTyped, TimersOnlyWhileConnected, streamVars, mainVars
<1>7. CASE UNCHANGED vars
  BY <1>7 DEF vars, mainVars, streamVars, statVars, TypeOK, TimersOnlyWhileConnected
<1> QED
  BY <1>2, <1>3, <1>4, <1>5, <1>6, <1>7 DEF Next

--------------------------------------------------------------------------------
(* The inductive invariant and what follows from it.  The counts need the    *)
(* types and the other way round: a counter is given back only when what it  *)
(* counts is there.                                                          *)

FeederOK ==
    /\ TypeOK
    /\ AnchorsHeard
    /\ TimersOnlyWhileConnected
    /\ NothingSentEarly
    /\ EveryAttestIsCounted
    /\ EverySendIsCounted
    /\ ReactiveBelow
    /\ OneReactivePerHeight

LEMMA InitOK == Init => FeederOK
<1> SUFFICES ASSUME Init PROVE FeederOK
  OBVIOUS
<1>0. \A c \in Chain : attests[c] = <<>> /\ Len(attests[c]) = 0 /\ DOMAIN attests[c] = {}
  BY DEF Init
<1>1. TypeOK
  <2>1. <<>> \in Seq(Attempt)
    OBVIOUS
  <2>2. /\ attests \in [Chain -> Seq(Attempt)]
        /\ inflight \in [Chain -> Nat] /\ submitted \in [Chain -> Nat]
        /\ submitErrors \in [Chain -> Nat] /\ pollFail \in [Chain -> Nat]
    BY <2>1 DEF Init
  <2>3. fanStats \in [Host -> [delivered : Nat, failed : Nat, inflight : Nat]]
    BY DEF Init
  <2>4. lastHeight \in [Chain -> Height \cup {None}] /\ anchor \in [Chain -> Height \cup {None}]
    BY DEF Init
  <2>5. backoff \in 1..MaxDelay
    BY DelayAssumption DEF Init
  <2>6. /\ pc = "preflight" /\ stopping = FALSE /\ exitCode = None
        /\ waitTimers = {} /\ heard = {} /\ unclaimed = FALSE
    BY DEF Init
  <2> QED
    BY <2>2, <2>3, <2>4, <2>5, <2>6 DEF TypeOK
<1>2. AnchorsHeard /\ TimersOnlyWhileConnected
  BY DEF Init, AnchorsHeard, TimersOnlyWhileConnected
<1>3. NothingSentEarly /\ ReactiveBelow /\ OneReactivePerHeight
  BY <1>0, BoundAssumption DEF NothingSentEarly, ReactiveBelow, OneReactivePerHeight
<1>4. EveryAttestIsCounted
  <2>1. \A c \in Chain :
          InPhase(c, Open) = {} /\ InPhase(c, {"submitted"}) = {} /\ InPhase(c, {"error"}) = {}
    BY <1>0 DEF InPhase
  <2>2. Cardinality({}) = 0
    BY FS_EmptySet
  <2>3. \A c \in Chain : inflight[c] = 0 /\ submitted[c] = 0 /\ submitErrors[c] = 0
    BY DEF Init
  <2> QED
    BY <2>1, <2>2, <2>3, LimitAssumption DEF EveryAttestIsCounted
<1>5. EverySendIsCounted
  <2>1. Sent = {} /\ SurelySent = {} /\ \A h \in Host : InHand(h) = {}
    <3>1. \A e \in Chain \X (1..AttestBound) : e[1] \in Chain
      OBVIOUS
    <3>2. Sent = {}
      BY <1>0, <3>1 DEF Sent
    <3> QED
      BY <3>2 DEF SurelySent, InHand
  <2>2. Cardinality({}) = 0
    BY FS_EmptySet
  <2>3. \A h \in Host : /\ fanStats[h].inflight = 0
                        /\ fanStats[h].delivered = 0 /\ fanStats[h].failed = 0
    BY DEF Init
  <2>4. FANOUT_CAP \in Nat
    BY SendsFinite
  <2>5. \A h \in Host : CountedAt(h)
    BY <2>1, <2>2, <2>3, <2>4 DEF CountedAt, Total
  <2> QED
    BY <2>5, CountedAtEach
<1> QED
  BY <1>1, <1>2, <1>3, <1>4, <1>5 DEF FeederOK

LEMMA NextOK == FeederOK /\ [Next]_vars => FeederOK'
BY NextAnchors, NextCounted, NextSends, NextOrder, NextTyped DEF FeederOK

LEMMA Inductive == Spec => []FeederOK
BY InitOK, NextOK, PTL DEF Spec

\* No counter of the feeder is ever negative, and its state stays what the code can
\* make it (feeder.ts 33-60).
THEOREM TypeCorrect == Spec => []TypeOK
<1>1. FeederOK => TypeOK
  BY DEF FeederOK
<1> QED
  BY <1>1, Inductive, PTL

\* Every attest begun is in flight or counted once, and the cap holds
\* (feeder.ts 135-170).
THEOREM AttestsCounted == Spec => []EveryAttestIsCounted
<1>1. FeederOK => EveryAttestIsCounted
  BY DEF FeederOK
<1> QED
  BY <1>1, Inductive, PTL

\* Every send to an extra host is counted once, under the host's cap
\* (feeder.ts 175-192).
THEOREM SendsCounted == Spec => []EverySendIsCounted
<1>1. FeederOK => EverySendIsCounted
  BY DEF FeederOK
<1> QED
  BY <1>1, Inductive, PTL

\* A height is attested by a header at most once, over all connections
\* (feeder.ts 238-242).
THEOREM ReactiveOnce == Spec => []OneReactivePerHeight
<1>1. FeederOK => OneReactivePerHeight
  BY DEF FeederOK
<1> QED
  BY <1>1, Inductive, PTL

\* The waiting timers run only on a live connection of a process that goes on
\* (feeder.ts 194-208).
THEOREM TimersConnected == Spec => []TimersOnlyWhileConnected
<1>1. FeederOK => TimersOnlyWhileConnected
  BY DEF FeederOK
<1> QED
  BY <1>1, Inductive, PTL

LEMMA BeginsAnchored ==
    FeederOK /\ [Next]_vars =>
        \A c \in Chain : BeginsWaiting(c) => c \in heard /\ pc = "reading" /\ ~stopping
<1> SUFFICES ASSUME FeederOK, [Next]_vars, NEW c \in Chain, BeginsWaiting(c)
             PROVE  c \in heard /\ pc = "reading" /\ ~stopping
  OBVIOUS
<1> USE DEF FeederOK
<1>0. Len(attests[c]) \in Nat /\ Len(attests'[c]) > Len(attests[c])
  BY LenProperties DEF TypeOK, BeginsWaiting
<1>1. attests'[c] # attests[c]
  BY <1>0
<1>2. CASE Ready \/ Refuse \/ Connect \/ StreamFails \/ Wake \/ Beat \/ Stop \/ Exit \/ UNCHANGED vars
  BY <1>1, <1>2 DEF Ready, Refuse, Connect, StreamFails, Wake, Beat, Stop, Exit, vars, statVars
<1>3. ASSUME NEW d \in Chain, NEW height \in Height, Read(d, height) PROVE FALSE
  <2>1. BeginAttest(d, height, "reactive")
    BY <1>1, <1>3 DEF Read, TakeHeader
  <2>2. inflight[d] < MAX_INFLIGHT
    BY <1>1, <2>1, LimitAssumption DEF BeginAttest, TypeOK
  <2>3. d = c
    BY <1>1, <2>1, <2>2, AttestBegins
  <2>4. attests'[c][Len(attests'[c])].mode = "reactive"
    <3>1. Len(attests'[c]) = Len(attests[c]) + 1
      BY <2>1, <2>2, <2>3, AttestBegins
    <3>2. attests'[c][Len(attests[c]) + 1] = Fresh(height, "reactive")
      BY <2>1, <2>2, <2>3, AttestBegins
    <3> QED
      BY <3>1, <3>2 DEF Fresh
  <2> QED
    BY <2>4 DEF BeginsWaiting
<1>4. ASSUME NEW d \in Chain, TimerFires(d) PROVE c \in heard /\ pc = "reading" /\ ~stopping
  <2>1. lastHeight[d] \in Height
    BY <1>4 DEF AnchorsHeard, TimerFires, TypeOK
  <2>2. BeginAttest(d, lastHeight[d], "waiting") /\ d \in waitTimers /\ ~stopping /\ anchor[d] # None
    BY <1>4 DEF TimerFires
  <2>3. inflight[d] < MAX_INFLIGHT
    BY <1>1, <2>2, LimitAssumption DEF BeginAttest, TypeOK
  <2>4. d = c
    BY <1>1, <2>1, <2>2, <2>3, AttestBegins
  <2> QED
    BY <2>2, <2>4 DEF AnchorsHeard, TimersOnlyWhileConnected
<1>5. ASSUME NEW d \in Chain, NEW seq \in DOMAIN attests[d], AttestStep(d, seq) PROVE FALSE
  <2>1. attests' \in [Chain -> Seq(Attempt)] /\ DOMAIN attests'[c] = DOMAIN attests[c]
    BY <1>5, StepKeeps
  <2>2. attests[c] \in Seq(Attempt) /\ attests'[c] \in Seq(Attempt)
    BY <2>1 DEF TypeOK
  <2>3. DOMAIN attests[c] = 1..Len(attests[c])
    BY <2>2, LenProperties
  <2>4. DOMAIN attests'[c] = 1..Len(attests'[c]) /\ Len(attests'[c]) \in Nat
    BY <2>2, LenProperties
  <2> QED
    BY <1>0, <2>1, <2>3, <2>4
<1> QED
  BY <1>2, <1>3, <1>4, <1>5 DEF Next

\* A waiting attest is anchored to a header of this very connection
\* (feeder.ts 202-203, 215).
THEOREM WaitingAnchored == Spec => WaitingIsAnchored
<1>1. FeederOK /\ [Next]_vars =>
        [\A c \in Chain : BeginsWaiting(c) => c \in heard /\ pc = "reading" /\ ~stopping]_vars
  BY BeginsAnchored
<1> QED
  BY <1>1, Inductive, PTL DEF Spec, WaitingIsAnchored

--------------------------------------------------------------------------------
(* Sampled polls and the exit code. *)

LEMMA PollMoves ==
    ASSUME TypeOK, NEW c \in Chain, NEW seq \in DOMAIN attests[c], NEW b \in Attempt,
           Updated(c, seq, b)
    PROVE  LET a == attests[c][seq] IN
           /\ \A d \in Chain : d # c => FailedPolls(d)' = FailedPolls(d)
           /\ a.poll = "fail" <=> b.poll = "fail" => FailedPolls(c)' = FailedPolls(c)
           /\ a.poll # "fail" /\ b.poll = "fail" =>
                Cardinality(FailedPolls(c)') = Cardinality(FailedPolls(c)) + 1
<1> DEFINE a == attests[c][seq]
<1>1. /\ \A d \in Chain : DOMAIN attests'[d] = DOMAIN attests[d]
      /\ \A d \in Chain : d # c => attests'[d] = attests[d]
      /\ \A i \in DOMAIN attests[c] : attests'[c][i] = IF i = seq THEN b ELSE attests[c][i]
  BY AttestUpdate
<1>2. ASSUME a.poll # "fail", b.poll = "fail"
      PROVE  Cardinality(FailedPolls(c)') = Cardinality(FailedPolls(c)) + 1
  <2>1. FailedPolls(c)' = FailedPolls(c) \cup {seq} /\ seq \notin FailedPolls(c)
    BY <1>1, <1>2 DEF FailedPolls
  <2>2. IsFiniteSet(FailedPolls(c))
    <3>1. Len(attests[c]) \in Nat /\ DOMAIN attests[c] = 1..Len(attests[c])
      BY LenProperties DEF TypeOK
    <3>2. IsFiniteSet(1..Len(attests[c])) /\ FailedPolls(c) \in SUBSET (1..Len(attests[c]))
      BY <3>1, FS_Interval DEF FailedPolls
    <3> QED
      BY <3>2, FS_Subset
  <2> QED
    BY <2>1, <2>2, FS_AddElement
<1> QED
  BY <1>1, <1>2 DEF FailedPolls

\* An attest that begins is polled by nobody yet.
LEMMA BeginPolls ==
    ASSUME TypeOK, PollsOK, pollFail' = pollFail, NEW c \in Chain, NEW height \in Height,
           NEW mode \in {"reactive", "waiting"}, BeginAttest(c, height, mode),
           pc \notin {"preflight", "exited"}, pc' \notin {"preflight", "exited"}
    PROVE  PollsOK'
<1>1. CASE inflight[c] >= MAX_INFLIGHT
  BY <1>1 DEF BeginAttest, PollsOK, ExitCodeTells, FailedPolls, Sampled
<1>2. CASE inflight[c] < MAX_INFLIGHT
  <2> DEFINE n == Len(attests[c])
             new == attests'[c][n + 1]
  <2>1. /\ n \in Nat /\ DOMAIN attests[c] = 1..n /\ DOMAIN attests'[c] = 1..(n + 1)
        /\ \A d \in Chain : d # c => attests'[d] = attests[d]
        /\ \A i \in DOMAIN attests[c] : attests'[c][i] = attests[c][i]
    BY <1>2, AttestBegins
  <2>2. new.phase = "building" /\ new.poll = "none"
    <3> new = Fresh(height, mode)
      BY <1>2, AttestBegins
    <3> QED
      BY DEF Fresh
  <2> HIDE DEF n, new
  <2>3. \A d \in Chain : FailedPolls(d)' = FailedPolls(d)
    <3>1. FailedPolls(c)' = FailedPolls(c)
      BY <2>1, <2>2 DEF FailedPolls, new
    <3>2. \A d \in Chain : d # c => FailedPolls(d)' = FailedPolls(d)
      BY <2>1 DEF FailedPolls
    <3> QED
      BY <3>1, <3>2
  <2> SUFFICES ASSUME NEW d \in Chain, NEW i \in DOMAIN attests'[d]
               PROVE  attests'[d][i].poll # "none" <=>
                          attests'[d][i].phase = "submitted" /\ Sampled(i)
    BY <2>3 DEF PollsOK, ExitCodeTells, Sampled
  <2>4. CASE d = c /\ i = n + 1
    BY <2>2, <2>4 DEF new
  <2>5. CASE ~(d = c /\ i = n + 1)
    <3> i \in DOMAIN attests[d] /\ attests'[d][i] = attests[d][i]
      BY <2>1, <2>5
    <3> QED
      BY DEF PollsOK
  <2> QED
    BY <2>4, <2>5
<1> QED
  BY <1>1, <1>2, LimitAssumption DEF TypeOK

LEMMA StepPolls ==
    ASSUME TypeOK, PollsOK, NEW c \in Chain, NEW seq \in DOMAIN attests[c], AttestStep(c, seq)
    PROVE  PollsOK'
<1> DEFINE a == attests[c][seq]
<1>0. /\ a \in Attempt /\ pc # "exited" /\ pc' = pc /\ attests[c] # <<>>
      /\ a.poll # "none" <=> a.phase = "submitted" /\ Sampled(seq)
  <2>1. a \in Attempt
    BY StepUpdates
  <2>2. pc # "exited" /\ pc' = pc
    BY DEF AttestStep, Running, mainVars
  <2>3. attests[c] # <<>>
    OBVIOUS
  <2>4. a.poll # "none" <=> a.phase = "submitted" /\ Sampled(seq)
    BY DEF PollsOK
  <2> QED
    BY <2>1, <2>2, <2>3, <2>4
<1>1. ASSUME NEW b \in Attempt, Updated(c, seq, b),
             b.poll # "none" <=> b.phase = "submitted" /\ Sampled(seq),
             a.poll = "fail" => b.poll = "fail",
             pollFail' = IF a.poll # "fail" /\ b.poll = "fail"
                         THEN [pollFail EXCEPT ![c] = @ + 1] ELSE pollFail
      PROVE  PollsOK'
  <2>1. /\ \A d \in Chain : DOMAIN attests'[d] = DOMAIN attests[d]
        /\ \A d \in Chain : d # c => attests'[d] = attests[d]
        /\ \A i \in DOMAIN attests[c] : attests'[c][i] = IF i = seq THEN b ELSE attests[c][i]
    BY <1>1, AttestUpdate
  <2>2. \A d \in Chain : \A i \in DOMAIN attests'[d] :
            attests'[d][i].poll # "none" <=> attests'[d][i].phase = "submitted" /\ Sampled(i)
    <3> SUFFICES ASSUME NEW d \in Chain, NEW i \in DOMAIN attests[d]
                 PROVE  attests'[d][i].poll # "none" <=>
                            attests'[d][i].phase = "submitted" /\ Sampled(i)
      BY <2>1
    <3>1. CASE d = c /\ i = seq
      BY <1>1, <2>1, <3>1
    <3>2. CASE ~(d = c /\ i = seq)
      <4> attests'[d][i] = attests[d][i]
        BY <2>1, <3>2
      <4> QED
        BY DEF PollsOK
    <3> QED
      BY <3>1, <3>2
  <2>3. \A d \in Chain : d # c => FailedPolls(d)' = FailedPolls(d)
    BY <1>1, PollMoves
  <2>4. pollFail'[c] = Cardinality(FailedPolls(c)')
    <3>1. CASE a.poll # "fail" /\ b.poll = "fail"
      <4>1. Cardinality(FailedPolls(c)') = Cardinality(FailedPolls(c)) + 1
        BY <1>1, <3>1, PollMoves
      <4> QED
        BY <1>1, <3>1, <4>1 DEF PollsOK, TypeOK
    <3>2. CASE ~(a.poll # "fail" /\ b.poll = "fail")
      <4>1. FailedPolls(c)' = FailedPolls(c)
        BY <1>1, <3>2, PollMoves
      <4> QED
        BY <1>1, <3>2, <4>1 DEF PollsOK
    <3> QED
      BY <3>1, <3>2
  <2>5. \A d \in Chain : d # c => pollFail'[d] = pollFail[d]
    BY <1>1 DEF TypeOK
  <2>6. pc' # "preflight" /\ pc' # "exited"
    BY <1>0 DEF PollsOK
  <2>7. \A d \in Chain : pollFail'[d] = Cardinality(FailedPolls(d)')
    BY <2>3, <2>4, <2>5 DEF PollsOK
  <2> QED
    BY <2>2, <2>6, <2>7 DEF PollsOK, ExitCodeTells, Sampled
<1>2. CASE Built(c, seq)
  <2> DEFINE b == [a EXCEPT !.phase = "submitting", !.unanswered = Roomy]
  <2>1. b \in Attempt /\ Updated(c, seq, b) /\ a.phase = "building" /\ pollFail' = pollFail
    BY <1>2, StepUpdates DEF Built
  <2>2. b.poll = a.poll /\ b.phase = "submitting"
    BY <1>0 DEF Attempt
  <2> HIDE DEF b
  <2> QED
    BY <1>0, <1>1, <2>1, <2>2
<1>3. CASE SubmitOk(c, seq)
  <2> DEFINE b == [a EXCEPT !.phase = "submitted",
                            !.poll = IF Sampled(seq) THEN "pending" ELSE "none"]
  <2>1. b \in Attempt /\ Updated(c, seq, b) /\ a.phase = "submitting" /\ pollFail' = pollFail
    BY <1>3, StepUpdates DEF SubmitOk
  <2>2. b.poll = (IF Sampled(seq) THEN "pending" ELSE "none") /\ b.phase = "submitted"
    BY <1>0 DEF Attempt
  <2> HIDE DEF b
  <2> QED
    BY <1>0, <1>1, <2>1, <2>2
<1>4. CASE SubmitFails(c, seq)
  <2> DEFINE b == [a EXCEPT !.phase = "error"]
  <2>1. b \in Attempt /\ Updated(c, seq, b) /\ a.phase \in Open /\ pollFail' = pollFail
    BY <1>4, StepUpdates DEF SubmitFails
  <2>2. b.poll = a.poll /\ b.phase = "error"
    BY <1>0 DEF Attempt
  <2> HIDE DEF b
  <2> QED
    BY <1>0, <1>1, <2>1, <2>2 DEF Open
<1>5. CASE \E outcome \in {"ok", "fail"} : PollEnds(c, seq, outcome)
  <2> PICK outcome \in {"ok", "fail"} : PollEnds(c, seq, outcome)
    BY <1>5
  <2> DEFINE b == [a EXCEPT !.poll = outcome]
  <2>1. b \in Attempt /\ Updated(c, seq, b) /\ a.poll = "pending"
        /\ pollFail' = IF outcome = "fail" THEN [pollFail EXCEPT ![c] = @ + 1] ELSE pollFail
    BY StepUpdates DEF PollEnds
  <2>2. b.poll = outcome /\ b.phase = a.phase
    BY <1>0 DEF Attempt
  <2> HIDE DEF b
  <2> QED
    BY <1>0, <1>1, <2>1, <2>2
<1>6. CASE \E h \in Host, ok \in BOOLEAN : HostAnswers(c, seq, h, ok)
  <2> PICK h \in Host, ok \in BOOLEAN : HostAnswers(c, seq, h, ok)
    BY <1>6
  <2> DEFINE b == [a EXCEPT !.unanswered = @ \ {h}]
  <2>1. b \in Attempt /\ Updated(c, seq, b) /\ pollFail' = pollFail
    BY StepUpdates DEF HostAnswers
  <2>2. b.poll = a.poll /\ b.phase = a.phase
    BY <1>0 DEF Attempt
  <2> HIDE DEF b
  <2> QED
    BY <1>0, <1>1, <2>1, <2>2
<1> QED
  BY <1>2, <1>3, <1>4, <1>5, <1>6 DEF AttestStep

LEMMA NextPolls == FeederOK /\ PollsOK /\ [Next]_vars => PollsOK'
<1> SUFFICES ASSUME TypeOK, AnchorsHeard, TimersOnlyWhileConnected, PollsOK, [Next]_vars
             PROVE  PollsOK'
  BY DEF FeederOK
<1>1. ASSUME attests' = attests, pollFail' = pollFail,
             pc' = "preflight" => pc = "preflight", ExitCodeTells'
      PROVE  PollsOK'
  BY <1>1 DEF PollsOK, FailedPolls, Sampled
<1>2. CASE Ready \/ Connect \/ StreamFails \/ Wake \/ Beat
  BY <1>1, <1>2 DEF Ready, Connect, StreamFails, Wake, Beat, ExitCodeTells, statVars, mainVars
<1>3. CASE Refuse
  BY <1>1, <1>3 DEF Refuse, ExitCodeTells, statVars, PollsOK
<1>4. CASE Stop
  BY <1>1, <1>4 DEF Stop, ExitCodeTells, statVars
<1>5. CASE Exit
  <2>1. UNCHANGED <<attests, pollFail>> /\ pc = "settling" /\ pc' = "exited"
        /\ exitCode' = IF \E c \in Chain : pollFail[c] > 0 THEN 1 ELSE 0
    BY <1>5 DEF Exit, statVars
  <2>2. \A c \in Chain : pollFail[c] > 0 <=> FailedPolls(c) # {}
    <3> SUFFICES ASSUME NEW c \in Chain PROVE pollFail[c] > 0 <=> FailedPolls(c) # {}
      OBVIOUS
    <3>1. Len(attests[c]) \in Nat /\ DOMAIN attests[c] = 1..Len(attests[c])
      BY LenProperties DEF TypeOK
    <3>2. IsFiniteSet(1..Len(attests[c])) /\ FailedPolls(c) \in SUBSET (1..Len(attests[c]))
      BY <3>1, FS_Interval DEF FailedPolls
    <3>3. IsFiniteSet(FailedPolls(c)) /\ Cardinality(FailedPolls(c)) \in Nat
      BY <3>2, FS_Subset, FS_CardinalityType
    <3>4. Cardinality(FailedPolls(c)) = 0 <=> FailedPolls(c) = {}
      BY <3>3, FS_EmptySet
    <3> QED
      BY <3>3, <3>4 DEF PollsOK
  <2>3. \A c \in Chain : FailedPolls(c)' = FailedPolls(c)
    BY <2>1 DEF FailedPolls
  <2>4. ExitCodeTells'
    BY <2>1, <2>2, <2>3 DEF ExitCodeTells
  <2> QED
    BY <1>1, <2>1, <2>4
<1>6. ASSUME NEW c \in Chain, NEW height \in Height, Read(c, height) PROVE PollsOK'
  <2>1. pc = "reading" /\ pc' \in {"reading", "settling"} /\ pollFail' = pollFail
    BY <1>6 DEF Read
  <2>2. CASE IsStale(c, height)
    BY <1>1, <1>6, <2>1, <2>2 DEF Read, ExitCodeTells
  <2>3. CASE ~IsStale(c, height)
    BY <1>6, <2>1, <2>3, BeginPolls DEF Read, TakeHeader
  <2> QED
    BY <2>2, <2>3
<1>7. ASSUME NEW c \in Chain, TimerFires(c) PROVE PollsOK'
  <2>1. lastHeight[c] \in Height
    BY <1>7 DEF AnchorsHeard, TimerFires, TypeOK
  <2>2. pc = "reading" /\ pc' = pc /\ pollFail' = pollFail
    BY <1>7 DEF TimerFires, TimersOnlyWhileConnected, mainVars
  <2> QED
    BY <1>7, <2>1, <2>2, BeginPolls DEF TimerFires
<1>8. ASSUME NEW c \in Chain, NEW seq \in DOMAIN attests[c], AttestStep(c, seq) PROVE PollsOK'
  BY <1>8, StepPolls
<1>9. CASE UNCHANGED vars
  BY <1>1, <1>9 DEF vars, ExitCodeTells, FailedPolls, statVars, mainVars, PollsOK
<1> QED
  BY <1>2, <1>3, <1>4, <1>5, <1>6, <1>7, <1>8, <1>9 DEF Next

LEMMA PollsCounted == Spec => []PollsOK
<1>1. Init => PollsOK
  <2> SUFFICES ASSUME Init PROVE PollsOK
    OBVIOUS
  <2>1. \A c \in Chain : attests[c] = <<>> /\ DOMAIN attests[c] = {} /\ pollFail[c] = 0
    BY DEF Init
  <2>2. \A c \in Chain : FailedPolls(c) = {}
    BY <2>1 DEF FailedPolls
  <2> QED
    BY <2>1, <2>2, FS_EmptySet DEF Init, PollsOK, ExitCodeTells
<1> QED
  BY <1>1, NextPolls, Inductive, PTL DEF Spec

\* The exit code tells a sampled attest that failed from a run without one, in
\* whatever order answers, polls and the stop come in (feeder.ts 155-165, 311-313).
THEOREM ExitTells == Spec => []ExitCodeTells
<1>1. PollsOK => ExitCodeTells
  BY DEF PollsOK
<1> QED
  BY <1>1, PollsCounted, PTL

\* Sampling does poll one attest in SAMPLE_POLL, for every value but 1, the one at
\* which nothing is polled (feeder.ts 15, 155).
THEOREM SampledUnlessOne ==
    ASSUME SAMPLE_POLL # 1
    PROVE  Spec => []SampledOneInN
<1>1. SAMPLE_POLL > 0 => 1 % SAMPLE_POLL = 1
  BY LimitAssumption
<1>2. \A seq : SAMPLE_POLL > 0 /\ seq % SAMPLE_POLL = 1 % SAMPLE_POLL => Sampled(seq)
  BY <1>1 DEF Sampled
<1>3. PollsOK => SampledOneInN
  BY <1>2 DEF PollsOK, SampledOneInN
<1> QED
  BY <1>3, PollsCounted, PTL

\* And for 1 it polls none at all (feeder.ts 155).
THEOREM NoneSampledAtOne ==
    ASSUME SAMPLE_POLL = 1
    PROVE  Spec => [](\A c \in Chain : \A seq \in DOMAIN attests[c] : attests[c][seq].poll = "none")
<1>1. TypeOK /\ PollsOK =>
        \A c \in Chain : \A seq \in DOMAIN attests[c] : attests[c][seq].poll = "none"
  <2> SUFFICES ASSUME TypeOK, PollsOK, NEW c \in Chain, NEW seq \in DOMAIN attests[c]
               PROVE  attests[c][seq].poll = "none"
    OBVIOUS
  <2>1. seq \in Nat
    BY LenProperties DEF TypeOK
  <2>2. ~Sampled(seq)
    BY <2>1 DEF Sampled
  <2> QED
    BY <2>2 DEF PollsOK
<1> QED
  BY <1>1, PollsCounted, TypeCorrect, PTL
=============================================================================
