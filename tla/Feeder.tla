--------------------------------- MODULE Feeder ---------------------------------
(***************************************************************************)
(* The recorder process, ts/src/feeder.ts: one header stream for all       *)
(* chains, an attest per header and, optionally, per timer, a submit to    *)
(* the node and to every extra host, sampled polls, a heartbeat and a      *)
(* shutdown.                                                               *)
(*                                                                         *)
(* The process is one thread: what the code does between two awaits is one *)
(* action.  Everything outside it is nondeterministic: the headers the     *)
(* stream carries, whether a request succeeds, and when a signal arrives.  *)
(*                                                                         *)
(* Abstractions.  Header times are left out: the anchor of a chain is a    *)
(* header's height, or None.  A chunk of the stream is one header.  Time   *)
(* is left out: a timer fires when it is set.  Logging and the report's    *)
(* wording are left out; its counters are kept.                            *)
(***************************************************************************)
EXTENDS Integers, Sequences, FiniteSets

CONSTANTS
    Chain,          \* CHAINS
    Host,           \* SUBMIT_HOSTS
    WAITING,        \* TRUE if BH_WAITING_INTERVAL is set
    MAX_INFLIGHT,   \* BH_MAX_INFLIGHT
    SAMPLE_POLL,    \* BH_SAMPLE_POLL
    MaxDelay,       \* the longest wait before a reconnection, 30 s
    TopHeight,      \* bound on the heights the stream announces
    AttestBound     \* bound on the attests of one chain

None == -1
Height == 0..TopHeight
FANOUT_CAP == MAX_INFLIGHT * Cardinality(Chain)

ASSUME LimitAssumption == MAX_INFLIGHT \in Nat /\ SAMPLE_POLL \in Nat
ASSUME WaitingAssumption == WAITING \in BOOLEAN
ASSUME FiniteAssumption == IsFiniteSet(Chain) /\ IsFiniteSet(Host)
ASSUME DelayAssumption == MaxDelay \in Nat \ {0}
ASSUME BoundAssumption == TopHeight \in Nat /\ AttestBound \in Nat

VARIABLES
    pc,             \* where main() is
    backoff,        \* seconds to wait before the next reconnection
    stopping,       \* set by stop()
    exitCode,       \* the process's exit code, or None
    waitTimers,     \* the chains whose waiting timer is set
    lastHeight,     \* per chain: the highest header taken from the stream
    anchor,         \* per chain: the header waiting attests are anchored to
    inflight,       \* per chain: attests being built or submitted
    submitted,      \* per chain: attests the node took
    submitErrors,   \* per chain: attests that failed to be built or submitted
    pollFail,       \* per chain: sampled polls that failed
    attests,        \* per chain: every attest begun, the seq-th at index seq
    fanStats,       \* per host: delivered, failed and unanswered sends
    unclaimed,      \* headers have arrived that no heartbeat has claimed
    heard           \* the chains a header was taken from on this connection

mainVars == <<pc, backoff, stopping, exitCode>>
streamVars == <<lastHeight, anchor, heard, unclaimed>>
statVars == <<inflight, submitted, submitErrors, pollFail, attests, fanStats>>
vars == <<mainVars, waitTimers, streamVars, statVars>>

Phase == {"building", "submitting", "submitted", "error"}
Poll == {"none", "pending", "ok", "fail"}
Attempt == [height : Height, mode : {"reactive", "waiting"}, phase : Phase,
            poll : Poll, unanswered : SUBSET Host]

Open == {"building", "submitting"}
Running == pc # "exited"

--------------------------------------------------------------------------------
(* Attests.  BeginAttest is the part of attest() before its first await; it  *)
(* is a step of its caller.                                                  *)

BeginAttest(c, height, mode) ==
    IF inflight[c] >= MAX_INFLIGHT
    THEN UNCHANGED <<inflight, attests>>
    ELSE /\ inflight' = [inflight EXCEPT ![c] = @ + 1]
         /\ attests' = [attests EXCEPT ![c] = Append(@,
                [height |-> height, mode |-> mode, phase |-> "building",
                 poll |-> "none", unanswered |-> {}])]

BelowAttestBound(c) == Len(attests[c]) < AttestBound

RoomyAlways == Host                 \* mutant: no cap on a host that stopped answering

\* The hosts that still have room for one more send.
Roomy == {h \in Host : fanStats[h].inflight < FANOUT_CAP}

\* buildSigned is done: the submit starts, then a send to every extra host.  A
\* host at its cap is not sent the attest, which counts as failed there.
Built(c, seq) ==
    /\ attests[c][seq].phase = "building"
    /\ attests' = [attests EXCEPT ![c][seq].phase = "submitting",
                                  ![c][seq].unanswered = Roomy]
    /\ fanStats' = [h \in Host |->
            IF h \in Roomy THEN [fanStats[h] EXCEPT !.inflight = @ + 1]
                           ELSE [fanStats[h] EXCEPT !.failed = @ + 1]]
    /\ UNCHANGED <<inflight, submitted, submitErrors, pollFail>>

\* Mutant: the last of every SAMPLE_POLL is polled, so that a bad start goes unseen.
SampledAtTheEnd(seq) == SAMPLE_POLL > 0 /\ seq % SAMPLE_POLL = 0

\* The first of every SAMPLE_POLL attests is polled; none, if that is 1.
Sampled(seq) == SAMPLE_POLL > 0 /\ seq % SAMPLE_POLL = 1

\* The node took it.
SubmitOk(c, seq) ==
    /\ attests[c][seq].phase = "submitting"
    /\ submitted' = [submitted EXCEPT ![c] = @ + 1]
    /\ attests' = [attests EXCEPT
            ![c][seq].phase = "submitted",
            ![c][seq].poll = IF Sampled(seq) THEN "pending" ELSE "none"]
    /\ inflight' = [inflight EXCEPT ![c] = @ - 1]
    /\ UNCHANGED <<submitErrors, pollFail, fanStats>>

\* Mutants: a submit that is never answered never ends; an attest that fails keeps
\* its place under the cap.
SubmitNeverTimesOut(c, seq) ==
    /\ attests[c][seq].phase = "building"
    /\ submitErrors' = [submitErrors EXCEPT ![c] = @ + 1]
    /\ attests' = [attests EXCEPT ![c][seq].phase = "error"]
    /\ inflight' = [inflight EXCEPT ![c] = @ - 1]
    /\ UNCHANGED <<submitted, pollFail, fanStats>>

SubmitFailsLeaks(c, seq) ==
    /\ attests[c][seq].phase \in Open
    /\ submitErrors' = [submitErrors EXCEPT ![c] = @ + 1]
    /\ attests' = [attests EXCEPT ![c][seq].phase = "error"]
    /\ UNCHANGED <<inflight, submitted, pollFail, fanStats>>

\* Signing failed, or the node refused the attest or did not answer in 25 s.
SubmitFails(c, seq) ==
    /\ attests[c][seq].phase \in Open
    /\ submitErrors' = [submitErrors EXCEPT ![c] = @ + 1]
    /\ attests' = [attests EXCEPT ![c][seq].phase = "error"]
    /\ inflight' = [inflight EXCEPT ![c] = @ - 1]
    /\ UNCHANGED <<submitted, pollFail, fanStats>>

\* A sampled poll ends: mined and successful, or mined and failed, or not mined
\* within 180 s.
PollEnds(c, seq, outcome) ==
    /\ attests[c][seq].poll = "pending"
    /\ attests' = [attests EXCEPT ![c][seq].poll = outcome]
    /\ pollFail' = IF outcome = "fail" THEN [pollFail EXCEPT ![c] = @ + 1] ELSE pollFail
    /\ UNCHANGED <<inflight, submitted, submitErrors, fanStats>>

\* An extra host answers, or has not within 25 s.
HostAnswers(c, seq, h, ok) ==
    /\ h \in attests[c][seq].unanswered
    /\ attests' = [attests EXCEPT ![c][seq].unanswered = @ \ {h}]
    /\ fanStats' = [fanStats EXCEPT ![h].inflight = @ - 1,
                                    ![h].delivered = IF ok THEN @ + 1 ELSE @,
                                    ![h].failed = IF ok THEN @ ELSE @ + 1]
    /\ UNCHANGED <<inflight, submitted, submitErrors, pollFail>>

AttestStep(c, seq) ==
    /\ Running
    /\ \/ Built(c, seq)
       \/ SubmitOk(c, seq)
       \/ SubmitFails(c, seq)
       \/ \E outcome \in {"ok", "fail"} : PollEnds(c, seq, outcome)
       \/ \E h \in Host, ok \in BOOLEAN : HostAnswers(c, seq, h, ok)
    /\ UNCHANGED <<mainVars, waitTimers, streamVars>>

--------------------------------------------------------------------------------
(* main() and the header stream. *)

Doubled(seconds) == IF 2 * seconds > MaxDelay THEN MaxDelay ELSE 2 * seconds

\* preflightWorld(): the module is deployed and the sender funded on every
\* chain, or the feeder refuses to start and has sent nothing.
Ready ==
    /\ pc = "preflight"
    /\ pc' = "connecting"
    /\ UNCHANGED <<backoff, stopping, exitCode, waitTimers, streamVars, statVars>>

Refuse ==
    /\ pc = "preflight"
    /\ pc' = "exited"
    /\ exitCode' = 1
    /\ UNCHANGED <<backoff, stopping, waitTimers, streamVars, statVars>>

\* Mutants: the anchors of the last connection survive; the timers of a stream
\* that opens after stop() are set all the same.
ConnectKeepsAnchors ==
    /\ pc = "connecting"
    /\ pc' = "reading"
    /\ heard' = {}
    /\ waitTimers' = IF WAITING /\ ~stopping THEN Chain ELSE waitTimers
    /\ UNCHANGED <<backoff, stopping, exitCode, lastHeight, anchor, unclaimed, statVars>>

ConnectAlwaysArms ==
    /\ pc = "connecting"
    /\ pc' = "reading"
    /\ heard' = {}
    /\ anchor' = [c \in Chain |-> None]
    /\ waitTimers' = IF WAITING THEN Chain ELSE waitTimers
    /\ UNCHANGED <<backoff, stopping, exitCode, lastHeight, unclaimed, statVars>>

\* The node answers with the stream.  stop() may have come while it did.
Connect ==
    /\ pc = "connecting"
    /\ pc' = "reading"
    /\ heard' = {}
    /\ anchor' = [c \in Chain |-> None]
    /\ waitTimers' = IF WAITING /\ ~stopping THEN Chain ELSE waitTimers
    /\ UNCHANGED <<backoff, stopping, exitCode, lastHeight, unclaimed, statVars>>

\* Mutant: stop() does not abort the stream.
StreamNotAborted ==
    /\ pc = "connecting" \/ (pc = "reading" /\ ~stopping)
    /\ waitTimers' = {}
    /\ pc' = IF stopping THEN "settling" ELSE "sleeping"
    /\ UNCHANGED <<backoff, stopping, exitCode, streamVars, statVars>>

\* The connection fails, the node closes it, or stop() aborted it.
StreamFails ==
    /\ pc \in {"connecting", "reading"}
    /\ waitTimers' = {}
    /\ pc' = IF stopping THEN "settling" ELSE "sleeping"
    /\ UNCHANGED <<backoff, stopping, exitCode, streamVars, statVars>>

\* Mutant: the feeder gives up once the wait is the longest.
WakeGivesUp ==
    /\ pc = "sleeping"
    /\ backoff < MaxDelay
    /\ backoff' = Doubled(backoff)
    /\ pc' = IF stopping THEN "settling" ELSE "connecting"
    /\ UNCHANGED <<stopping, exitCode, waitTimers, streamVars, statVars>>

\* The sleep before a reconnection ends.
Wake ==
    /\ pc = "sleeping"
    /\ backoff' = Doubled(backoff)
    /\ pc' = IF stopping THEN "settling" ELSE "connecting"
    /\ UNCHANGED <<stopping, exitCode, waitTimers, streamVars, statVars>>

\* Mutant: a header announced again is taken again.
IsStaleStrict(c, height) == height < lastHeight[c]

\* A re-announced or orphan-side header.
IsStale(c, height) == height <= lastHeight[c]

TakeHeader(c, height) ==
    /\ BelowAttestBound(c)
    /\ lastHeight' = [lastHeight EXCEPT ![c] = height]
    /\ anchor' = [anchor EXCEPT ![c] = height]
    /\ heard' = heard \cup {c}
    /\ BeginAttest(c, height, "reactive")

\* A header arrives.  A chunk read after stop() is used to its last header, and then
\* the stream is left.
Read(c, height) ==
    /\ pc = "reading"
    /\ unclaimed' = TRUE
    /\ IF IsStale(c, height)
       THEN UNCHANGED <<lastHeight, anchor, heard, inflight, attests>>
       ELSE TakeHeader(c, height)
    /\ \/ stopping /\ pc' = "settling" /\ backoff' = 1
       \/ UNCHANGED <<pc, backoff>>
    /\ UNCHANGED <<stopping, exitCode, waitTimers, submitted, submitErrors, pollFail, fanStats>>

\* A waiting timer fires, and is set again.
TimerFires(c) ==
    /\ Running
    /\ c \in waitTimers
    /\ ~stopping /\ anchor[c] # None
    /\ BelowAttestBound(c)
    /\ BeginAttest(c, lastHeight[c], "waiting")
    /\ UNCHANGED <<mainVars, waitTimers, streamVars,
                   submitted, submitErrors, pollFail, fanStats>>

\* Mutant: no ping while the stream is down, even for headers it brought.
BeatOnlyConnected ==
    /\ pc = "reading"
    /\ unclaimed
    /\ unclaimed' = FALSE
    /\ UNCHANGED <<mainVars, waitTimers, lastHeight, anchor, heard, statVars>>

\* The report timer: one ping for the headers that arrived since the last one,
\* whether or not it reaches its host.
Beat ==
    /\ pc \in {"connecting", "reading", "sleeping"}
    /\ unclaimed
    /\ unclaimed' = FALSE
    /\ UNCHANGED <<mainVars, waitTimers, lastHeight, anchor, heard, statVars>>

\* SIGINT, SIGTERM or the end of --duration.
Stop ==
    /\ pc \notin {"preflight", "exited"}
    /\ ~stopping
    /\ stopping' = TRUE
    /\ waitTimers' = {}
    /\ UNCHANGED <<pc, backoff, exitCode, streamVars, statVars>>

\* The last report; attests and polls still running end with the process.
Exit ==
    /\ pc = "settling"
    /\ pc' = "exited"
    /\ exitCode' = IF \E c \in Chain : pollFail[c] > 0 THEN 1 ELSE 0
    /\ UNCHANGED <<backoff, stopping, waitTimers, streamVars, statVars>>

--------------------------------------------------------------------------------

Init ==
    /\ pc = "preflight" /\ backoff = 1 /\ stopping = FALSE /\ exitCode = None
    /\ waitTimers = {}
    /\ lastHeight = [c \in Chain |-> None]
    /\ anchor = [c \in Chain |-> None]
    /\ heard = {} /\ unclaimed = FALSE
    /\ inflight = [c \in Chain |-> 0]
    /\ submitted = [c \in Chain |-> 0]
    /\ submitErrors = [c \in Chain |-> 0]
    /\ pollFail = [c \in Chain |-> 0]
    /\ attests = [c \in Chain |-> <<>>]
    /\ fanStats = [h \in Host |-> [delivered |-> 0, failed |-> 0, inflight |-> 0]]

Next ==
    \/ Ready \/ Refuse
    \/ Connect \/ StreamFails \/ Wake
    \/ \E c \in Chain, height \in Height : Read(c, height)
    \/ \E c \in Chain : TimerFires(c)
    \/ \E c \in Chain : \E seq \in DOMAIN attests[c] : AttestStep(c, seq)
    \/ Beat \/ Stop \/ Exit

Spec == Init /\ [][Next]_vars

\* Every request has a deadline of 25 s, after which a submit has failed; the
\* report has a timer of 60 s; the reconnection and the shutdown are sleeps; stop()
\* aborts the stream; and the HTTP client gives up on a connection that is never
\* answered.  Nothing makes the node answer, a header arrive or a signal come.
Deadline(c, seq) ==
    /\ Running
    /\ seq \in DOMAIN attests[c]
    /\ SubmitFails(c, seq)
    /\ UNCHANGED <<mainVars, waitTimers, streamVars>>

Fairness ==
    /\ WF_vars(Ready \/ Refuse)
    /\ WF_vars(pc = "connecting" /\ (Connect \/ StreamFails))
    /\ WF_vars(stopping /\ StreamFails)
    /\ WF_vars(Wake)
    /\ WF_vars(Beat)
    /\ WF_vars(Exit)
    /\ \A c \in Chain : \A seq \in 1..AttestBound : WF_vars(Deadline(c, seq))

FairSpec == Spec /\ Fairness

--------------------------------------------------------------------------------
(* Properties. *)

\* The process's variables are what the code can make them, and no counter is
\* ever negative.
TypeOK ==
    /\ pc \in {"preflight", "connecting", "reading", "sleeping", "settling", "exited"}
    /\ backoff \in 1..MaxDelay
    /\ stopping \in BOOLEAN
    /\ exitCode \in {None, 0, 1}
    /\ waitTimers \subseteq Chain
    /\ lastHeight \in [Chain -> Height \cup {None}]
    /\ anchor \in [Chain -> Height \cup {None}]
    /\ heard \subseteq Chain
    /\ unclaimed \in BOOLEAN
    /\ inflight \in [Chain -> Nat]
    /\ submitted \in [Chain -> Nat]
    /\ submitErrors \in [Chain -> Nat]
    /\ pollFail \in [Chain -> Nat]
    /\ attests \in [Chain -> Seq(Attempt)]
    /\ fanStats \in [Host -> [delivered : Nat, failed : Nat, inflight : Nat]]

InPhase(c, phases) == {seq \in DOMAIN attests[c] : attests[c][seq].phase \in phases}

\* Every attest begun is in flight or counted once, as submitted or as an error,
\* and the cap bounds those in flight: an outcome that gave its place back twice,
\* or never, would lift the cap or close the chain (lines 135-170).
EveryAttestIsCounted ==
    \A c \in Chain :
        /\ inflight[c] = Cardinality(InPhase(c, Open))
        /\ submitted[c] = Cardinality(InPhase(c, {"submitted"}))
        /\ submitErrors[c] = Cardinality(InPhase(c, {"error"}))
        /\ inflight[c] <= MAX_INFLIGHT

\* The attests that may have been sent to the extra hosts, and those that were: one
\* that failed may have failed before.
Sent == {e \in Chain \X (1..AttestBound) :
            e[2] \in DOMAIN attests[e[1]] /\ attests[e[1]][e[2]].phase # "building"}
SurelySent == {e \in Sent : attests[e[1]][e[2]].phase # "error"}

\* Each extra host is counted once for each attest sent, whichever order the
\* answers and the primary submit end in, and never holds more unanswered sends
\* than its cap (lines 35-38, 175-192).
EverySendIsCounted ==
    \A h \in Host :
        LET f == fanStats[h]
            counted == f.delivered + f.failed + f.inflight IN
        /\ f.inflight = Cardinality({e \in Sent : h \in attests[e[1]][e[2]].unanswered})
        /\ f.inflight <= FANOUT_CAP
        /\ Cardinality(SurelySent) <= counted /\ counted <= Cardinality(Sent)

\* No height of a chain is attested twice by a header: not when the node announces
\* it again, from another fork, or on a later connection (lines 238-242).
OneReactivePerHeight ==
    \A c \in Chain : \A i, j \in DOMAIN attests[c] :
        LET a == attests[c][i]
            b == attests[c][j] IN
        i < j /\ a.mode = "reactive" /\ b.mode = "reactive" => a.height < b.height

\* The waiting timers run only while the stream is connected, and not once the
\* process is stopping, whatever the order of a stop, a connection and its end
\* (lines 45-46, 194-208).
TimersOnlyWhileConnected == waitTimers # {} => pc = "reading" /\ ~stopping

\* A waiting attest is anchored to a header this very connection brought: a chain
\* that has been silent since the reconnection sends none (lines 202-203, 215).
BeginsWaiting(c) ==
    /\ Len(attests'[c]) > Len(attests[c])
    /\ attests'[c][Len(attests'[c])].mode = "waiting"

WaitingIsAnchored ==
    [][\A c \in Chain : BeginsWaiting(c) =>
            c \in heard /\ pc = "reading" /\ ~stopping]_vars

\* One attest in SAMPLE_POLL is polled once the node has taken it: the first of
\* every SAMPLE_POLL (lines 15, 155).  The code keeps it for every value but 1.
SampledOneInN ==
    SAMPLE_POLL > 0 =>
        \A c \in Chain : \A seq \in DOMAIN attests[c] :
            attests[c][seq].phase = "submitted" /\ seq % SAMPLE_POLL = 1 % SAMPLE_POLL
                => attests[c][seq].poll # "none"

FailedPolls(c) == {seq \in DOMAIN attests[c] : attests[c][seq].poll = "fail"}

\* Whatever order answers, polls, reconnections and the stop come in, the exit code
\* says whether a sampled attest is known to have failed, or that the feeder refused
\* to start and sent nothing (lines 155-165, 311-313).
ExitCodeTells ==
    pc = "exited" =>
        \/ exitCode = 0 /\ \A c \in Chain : FailedPolls(c) = {}
        \/ exitCode = 1 /\ \E c \in Chain : FailedPolls(c) # {}
        \/ exitCode = 1 /\ \A c \in Chain : attests[c] = <<>>

\* What that rests on: the attests that were polled are those the node took and
\* the sampling chose, and each failure is counted once.
PollsOK ==
    /\ \A c \in Chain : \A seq \in DOMAIN attests[c] :
          attests[c][seq].poll # "none" <=> attests[c][seq].phase = "submitted" /\ Sampled(seq)
    /\ \A c \in Chain : pollFail[c] = Cardinality(FailedPolls(c))
    /\ pc = "preflight" => \A c \in Chain : attests[c] = <<>>
    /\ ExitCodeTells

InFlight(c, seq) == seq \in DOMAIN attests[c] /\ attests[c][seq].phase \in Open

\* An attest never keeps its place under the cap for good: it ends, or the
\* process does.
AttestsEnd ==
    \A c \in Chain : \A seq \in 1..AttestBound :
        InFlight(c, seq) ~> ~Running \/ ~InFlight(c, seq)

\* A stop ends the process, wherever it finds main() (lines 100, 299-313).
StopEnds == stopping ~> pc = "exited"

\* A lost stream is always tried again, unless the process is stopped.
StreamComesBack == pc = "sleeping" ~> pc = "connecting" \/ stopping

\* Headers that arrived are claimed by a ping, connected or not (lines 248-274).
HeadersAreClaimed == unclaimed ~> ~unclaimed \/ stopping
=============================================================================
