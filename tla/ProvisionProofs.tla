---------------------------- MODULE ProvisionProofs ----------------------------
(***************************************************************************)
(* Theorems about Provision for every set of commits, any number of runs   *)
(* and any set of steps the script may die at.  Where a promise does not   *)
(* hold of all of them, the theorem names what has to be excluded: a death *)
(* at a named step, a crash of the feeder, an operator at work meanwhile.  *)
(***************************************************************************)
EXTENDS Provision, TLAPS

LEMMA InitType == Init => TypeOK
<1> SUFFICES ASSUME Init PROVE TypeOK
  OBVIOUS
<1>1. runs \in Nat
  BY DEF Init
<1>2. told \in [run : BOOLEAN, url : BOOLEAN]
  BY Zenon DEF Init
<1>3. pc \in Step
  BY DEF Init, Step
<1> QED
  BY <1>1, <1>2, <1>3, Zenon DEF Init, TypeOK

LEMMA NextType == TypeOK /\ [Next]_vars => TypeOK'
<1> SUFFICES ASSUME TypeOK, [Next]_vars PROVE TypeOK'
  OBVIOUS
<1> USE DEF TypeOK, Step, Go, Stop, disk, systemd, script
<1>1. ASSUME NEW p \in Commit, Begin(p) PROVE TypeOK'
  <2>1. runs' \in Nat /\ pc' \in Step
    BY <1>1 DEF Begin
  <2>2. wasActive' \in BOOLEAN /\ heartbeat' \in BOOLEAN
    BY <1>1, Zenon DEF Begin
  <2>3. pin' \in Commit /\ UNCHANGED <<disk, systemd, told>>
    BY <1>1, Zenon DEF Begin
  <2>4. report' = "none"
    BY <1>1, Zenon DEF Begin
  <2> QED
    BY <2>1, <2>2, <2>3, <2>4
<1>2. CASE Checkout \/ Deps \/ Npm \/ TypeCheck
  BY <1>2 DEF Checkout, Deps, Npm, TypeCheck
<1>3. CASE ReadEnv \/ WriteEnv
  <2>1. pc' \in Step
    BY <1>3 DEF ReadEnv, WriteEnv
  <2>2. env' \in BOOLEAN /\ heartbeat' \in BOOLEAN
    BY <1>3, Zenon DEF ReadEnv, WriteEnv
  <2>3. UNCHANGED <<code, deps, key, unit, systemd, pin, wasActive, runs, told, report>>
    BY <1>3 DEF ReadEnv, WriteEnv
  <2> QED
    BY <2>1, <2>2, <2>3
<1>9. CASE Keygen
  <2>1. pc' \in Step /\ key' \in {NoFile, Partial, "key"}
    BY <1>9 DEF Keygen
  <2>2. report' \in {"none", "stopped", "died", "provisioned"}
    BY <1>9 DEF Keygen
  <2>3. UNCHANGED <<code, deps, env, unit, systemd, script, told>>
    BY <1>9 DEF Keygen
  <2> QED
    BY <2>1, <2>2, <2>3
<1>4. CASE Service
  <2>1. pc' \in Step /\ service' \in {"inactive", "active", "restarting", "failed"}
    BY <1>4 DEF Service
  <2>2. loaded' \in Commit \cup {NoFile} /\ unit' \in BOOLEAN
    BY <1>4, Zenon DEF Service
  <2>3. report' \in {"none", "stopped", "died", "provisioned"}
    BY <1>4 DEF Service
  <2>4. UNCHANGED <<code, deps, env, key, script, told>>
    BY <1>4 DEF Service
  <2> QED
    BY <2>1, <2>2, <2>3, <2>4
<1>10. CASE Verify \/ Stream \/ Banner
  BY <1>10 DEF Verify, Stream, Banner
<1>5. CASE Die
  BY <1>5 DEF Die
<1>6. CASE ProcessExits \/ Restart \/ GiveUp
  BY <1>6 DEF ProcessExits, Restart, GiveUp
<1>7. CASE Enable \/ Disable \/ EditEnv
  <2>1. told' \in [run : BOOLEAN, url : BOOLEAN]
    BY <1>7 DEF Enable, Disable, EditEnv
  <2>2. service' \in {"inactive", "active", "restarting", "failed"}
    BY <1>7 DEF Enable, Disable, EditEnv
  <2>3. env' \in BOOLEAN \cup {NoFile} /\ loaded' \in Commit \cup {NoFile}
    BY <1>7, Zenon DEF Enable, Disable, EditEnv
  <2>4. UNCHANGED <<code, deps, key, unit, script, pc, report>>
    BY <1>7, Zenon DEF Enable, Disable, EditEnv
  <2> QED
    BY <2>1, <2>2, <2>3, <2>4
<1>8. CASE UNCHANGED vars
  BY <1>8 DEF vars
<1> QED
  BY <1>1, <1>2, <1>3, <1>4, <1>5, <1>6, <1>7, <1>8, <1>9, <1>10 DEF Next, ScriptStep

\* The files, the service and the script's variables are what the script and systemd
\* can make them (provision-droplet.sh:44-331).
THEOREM TypeCorrect == Spec => []TypeOK
  BY InitType, NextType, PTL DEF Spec

--------------------------------------------------------------------------------
(* A feeder that ran is updated. *)

\* From the restart to the end of the run, and for as long as no other run begins,
\* whatever starts the process starts it on the code that was checked out.
Restarted == pc \in {"verify", "stream", "banner"} \/ Provisioned

UpdatedOnceRestarted == Restarted /\ wasActive /\ service = "active" => loaded = code

LEMMA NextUpdated == TypeOK /\ UpdatedOnceRestarted /\ [Next]_vars => UpdatedOnceRestarted'
<1> SUFFICES ASSUME TypeOK, UpdatedOnceRestarted, [Next]_vars PROVE UpdatedOnceRestarted'
  OBVIOUS
<1> USE DEF UpdatedOnceRestarted, Restarted, Provisioned, TypeOK, Go, Stop, disk, systemd, script
<1>1. ASSUME NEW p \in Commit, Begin(p) PROVE UpdatedOnceRestarted'
  BY <1>1 DEF Begin
<1>2. CASE Checkout \/ Deps \/ Npm \/ TypeCheck \/ ReadEnv \/ WriteEnv \/ Keygen
  BY <1>2 DEF Checkout, Deps, Npm, TypeCheck, ReadEnv, WriteEnv, Keygen
<1>3. CASE Service
  BY <1>3 DEF Service
<1>4. CASE Verify \/ Stream \/ Banner
  BY <1>4 DEF Verify, Stream, Banner
<1>5. CASE Die
  BY <1>5 DEF Die
<1>6. CASE ProcessExits \/ Restart \/ GiveUp
  BY <1>6 DEF ProcessExits, Restart, GiveUp
<1>7. CASE Enable \/ Disable \/ EditEnv
  BY <1>7 DEF Enable, Disable, EditEnv
<1>8. CASE UNCHANGED vars
  BY <1>8 DEF vars
<1> QED
  BY <1>1, <1>2, <1>3, <1>4, <1>5, <1>6, <1>7, <1>8 DEF Next, ScriptStep

\* A feeder that was running when a run began and runs after it ended well runs the
\* pinned commit, wherever earlier runs died and whenever systemd restarted it
\* (provision-droplet.sh:57-60, 258-264).
THEOREM Updated == Spec => []RunningFeederIsUpdated
<1>1. Init => UpdatedOnceRestarted
  BY DEF Init, UpdatedOnceRestarted, Restarted, Provisioned
<1>2. UpdatedOnceRestarted => RunningFeederIsUpdated
  BY DEF UpdatedOnceRestarted, Restarted, RunningFeederIsUpdated
<1> QED
  BY <1>1, <1>2, NextUpdated, TypeCorrect, PTL DEF Spec

--------------------------------------------------------------------------------
(* The heartbeat URL. *)

\* While .env is being rewritten the URL is in the script's memory alone.
UrlSomewhere ==
    told.url => IF pc = "write" THEN heartbeat = TRUE ELSE env = TRUE

LEMMA NextUrl ==
    ASSUME "write" \notin KillSteps, TypeOK, UrlSomewhere, [Next]_vars
    PROVE  UrlSomewhere'
<1> USE DEF UrlSomewhere, TypeOK, Go, Stop, disk, systemd, script
<1>1. ASSUME NEW p \in Commit, Begin(p) PROVE UrlSomewhere'
  BY <1>1 DEF Begin
<1>2. CASE Checkout \/ Deps \/ Npm \/ TypeCheck
  BY <1>2 DEF Checkout, Deps, Npm, TypeCheck
<1>3. CASE ReadEnv \/ WriteEnv
  BY <1>3 DEF ReadEnv, WriteEnv
<1>4. CASE Keygen \/ Service \/ Verify \/ Stream \/ Banner
  BY <1>4 DEF Keygen, Service, Verify, Stream, Banner
<1>5. CASE Die
  BY <1>5 DEF Die
<1>6. CASE ProcessExits \/ Restart \/ GiveUp
  BY <1>6 DEF ProcessExits, Restart, GiveUp
<1>7. CASE Enable \/ Disable
  BY <1>7 DEF Enable, Disable
<1>8. CASE EditEnv
  BY <1>8 DEF EditEnv
<1>9. CASE UNCHANGED vars
  BY <1>9 DEF vars
<1> QED
  BY <1>1, <1>2, <1>3, <1>4, <1>5, <1>6, <1>7, <1>8, <1>9 DEF Next, ScriptStep

\* Unless the script dies between truncating .env and writing it, the URL the operator
\* set is there after every run, interrupted or not (provision-droplet.sh:200-204, 224).
THEOREM UrlKept ==
    ASSUME "write" \notin KillSteps
    PROVE  Spec => []HeartbeatKept
<1>1. Init => UrlSomewhere
  BY DEF Init, UrlSomewhere
<1>2. TypeOK /\ UrlSomewhere /\ [Next]_vars => UrlSomewhere'
  BY NextUrl
<1>3. UrlSomewhere => HeartbeatKept
  BY DEF UrlSomewhere, HeartbeatKept
<1> QED
  BY <1>1, <1>2, <1>3, TypeCorrect, PTL DEF Spec

--------------------------------------------------------------------------------
(* A stopped feeder stays stopped. *)

\* The script's note that the feeder was running is still true when it acts on it.
ToldToRun ==
    /\ service \in {"active", "restarting"} => told.run
    /\ pc # "idle" /\ wasActive => told.run

LEMMA NextTold ==
    ASSUME Meddles = FALSE, TypeOK, ToldToRun, [Next]_vars
    PROVE  ToldToRun'
<1> USE DEF ToldToRun, TypeOK, Go, Stop, disk, systemd, script
<1>1. ASSUME NEW p \in Commit, Begin(p) PROVE ToldToRun'
  BY <1>1 DEF Begin
<1>2. CASE Checkout \/ Deps \/ Npm \/ TypeCheck \/ ReadEnv \/ WriteEnv \/ Keygen
  BY <1>2 DEF Checkout, Deps, Npm, TypeCheck, ReadEnv, WriteEnv, Keygen
<1>3. CASE Service \/ Verify \/ Stream \/ Banner
  BY <1>3 DEF Service, Verify, Stream, Banner
<1>4. CASE Die
  BY <1>4 DEF Die
<1>5. CASE ProcessExits \/ Restart \/ GiveUp
  BY <1>5 DEF ProcessExits, Restart, GiveUp
<1>6. CASE Enable \/ Disable
  BY <1>6 DEF Enable, Disable
<1>7. CASE EditEnv
  BY <1>7 DEF EditEnv
<1>8. CASE UNCHANGED vars
  BY <1>8 DEF vars
<1> QED
  BY <1>1, <1>2, <1>3, <1>4, <1>5, <1>6, <1>7, <1>8 DEF Next, ScriptStep

\* The script never starts a feeder the operator stopped before it began
\* (provision-droplet.sh:19-20, 257-261).
THEOREM StaysStopped ==
    ASSUME Meddles = FALSE
    PROVE  Spec => []StoppedStaysStopped
<1>1. Init => ToldToRun
  BY DEF Init, ToldToRun
<1>2. TypeOK /\ ToldToRun /\ [Next]_vars => ToldToRun'
  BY NextTold
<1>3. ToldToRun => StoppedStaysStopped
  BY DEF ToldToRun, StoppedStaysStopped
<1> QED
  BY <1>1, <1>2, <1>3, TypeCorrect, PTL DEF Spec

--------------------------------------------------------------------------------
(* What an update has to fear is a crash just before it, and nothing else.  *)

\* While the script runs, a process that runs is one the script knows about.
Noticed ==
    /\ service \in {"active", "inactive"}
    /\ pc # "idle" /\ service = "active" => wasActive

LEMMA NextNoticed ==
    ASSUME Crashes = FALSE, Meddles = FALSE, TypeOK, Noticed, [Next]_vars
    PROVE  Noticed'
<1> USE DEF Noticed, TypeOK, Go, Stop, disk, systemd, script
<1>1. ASSUME NEW p \in Commit, Begin(p) PROVE Noticed'
  BY <1>1 DEF Begin
<1>2. CASE Checkout \/ Deps \/ Npm \/ TypeCheck \/ ReadEnv \/ WriteEnv \/ Keygen
  BY <1>2 DEF Checkout, Deps, Npm, TypeCheck, ReadEnv, WriteEnv, Keygen
<1>3. CASE Service \/ Verify \/ Stream \/ Banner
  BY <1>3 DEF Service, Verify, Stream, Banner
<1>4. CASE Die
  BY <1>4 DEF Die
<1>5. CASE ProcessExits \/ Restart \/ GiveUp
  BY <1>5 DEF ProcessExits, Restart, GiveUp
<1>6. CASE Enable \/ Disable
  BY <1>6 DEF Enable, Disable
<1>7. CASE EditEnv
  BY <1>7 DEF EditEnv
<1>8. CASE UNCHANGED vars
  BY <1>8 DEF vars
<1> QED
  BY <1>1, <1>2, <1>3, <1>4, <1>5, <1>6, <1>7, <1>8 DEF Next, ScriptStep

LEMMA NextInEffect ==
    ASSUME TypeOK, Noticed, UpdatedOnceRestarted, UpdateTakesEffect, [Next]_vars
    PROVE  UpdateTakesEffect'
<1> USE DEF UpdateTakesEffect, Provisioned, TypeOK, Go, Stop, disk, systemd, script
<1>1. ASSUME NEW p \in Commit, Begin(p) PROVE UpdateTakesEffect'
  BY <1>1 DEF Begin
<1>2. CASE Checkout \/ Deps \/ Npm \/ TypeCheck \/ ReadEnv \/ WriteEnv \/ Keygen
  BY <1>2 DEF Checkout, Deps, Npm, TypeCheck, ReadEnv, WriteEnv, Keygen
<1>3. CASE Service \/ Verify \/ Stream
  BY <1>3 DEF Service, Verify, Stream
<1>4. CASE Banner
  BY <1>4 DEF Banner, Noticed, UpdatedOnceRestarted, Restarted
<1>5. CASE Die
  BY <1>5 DEF Die
<1>6. CASE ProcessExits \/ Restart \/ GiveUp
  BY <1>6 DEF ProcessExits, Restart, GiveUp
<1>7. CASE Enable \/ Disable \/ EditEnv
  BY <1>7 DEF Enable, Disable, EditEnv
<1>8. CASE UNCHANGED vars
  BY <1>8 DEF vars
<1> QED
  BY <1>1, <1>2, <1>3, <1>4, <1>5, <1>6, <1>7, <1>8 DEF Next, ScriptStep

\* A feeder that neither crashes nor is started meanwhile never runs an older commit
\* after a run that ended well, wherever earlier runs died and whatever commits they
\* were given: the restart systemd has pending is the one way an update is missed
\* (provision-droplet.sh:57-60, 258-264).
THEOREM TakesEffect ==
    ASSUME Crashes = FALSE, Meddles = FALSE
    PROVE  Spec => []UpdateTakesEffect
<1>1. Init => Noticed /\ UpdatedOnceRestarted /\ UpdateTakesEffect
  BY DEF Init, Noticed, UpdatedOnceRestarted, Restarted, UpdateTakesEffect, Provisioned
<1>2. TypeOK /\ Noticed /\ [Next]_vars => Noticed'
  BY NextNoticed
<1>3. TypeOK /\ Noticed /\ UpdatedOnceRestarted /\ UpdateTakesEffect /\ [Next]_vars => UpdateTakesEffect'
  BY NextInEffect
<1> QED
  BY <1>1, <1>2, <1>3, NextUpdated, TypeCorrect, PTL DEF Spec

--------------------------------------------------------------------------------
(* What a re-run has to fear is what was installed or written in part.  *)

\* The dependencies of another commit are in the way of the one checked out.
OtherDependencies == code \in Commit /\ deps \in Commit \ {code}

StopsForOtherDependencies == report = "stopped" => pc = "idle" /\ OtherDependencies

\* Files are whole, dependencies are of some commit, and a feeder that was running
\* when the run began runs.
Whole ==
    /\ key # Partial
    /\ deps = Partial => pc = "npm"
    /\ pc # "idle" => pin \in Commit
    /\ pc \notin {"idle", "checkout"} => code \in Commit
    /\ pc \notin {"idle", "checkout", "deps", "npm"} => deps \in Commit
    /\ service \in {"active", "inactive"}
    /\ pc # "idle" /\ wasActive => service = "active"
    /\ pc = "verify" => wasActive
    /\ StopsForOtherDependencies

LEMMA NextWhole ==
    ASSUME Crashes = FALSE, Meddles = FALSE, {"npm", "key"} \cap KillSteps = {},
           TypeOK, Whole, [Next]_vars
    PROVE  Whole'
<1> USE MarkAssumption DEF Whole, StopsForOtherDependencies, OtherDependencies, TypeOK, Go, Stop, disk, systemd, script
<1>1. ASSUME NEW p \in Commit, Begin(p) PROVE Whole'
  BY <1>1 DEF Begin
<1>2. CASE Checkout \/ Deps \/ Npm
  BY <1>2 DEF Checkout, Deps, Npm
<1>3. CASE TypeCheck
  BY <1>3 DEF TypeCheck
<1>4. CASE ReadEnv \/ WriteEnv
  BY <1>4 DEF ReadEnv, WriteEnv
<1>10. CASE Keygen
  <2>1. key' \in {NoFile, "key"} /\ pc = "key" /\ pc' = "service"
    BY <1>10 DEF Keygen
  <2>2. UNCHANGED <<code, deps, pin, service, wasActive, report>>
    BY <1>10 DEF Keygen
  <2>3. key' # Partial
    BY <2>1
  <2> QED
    BY <2>1, <2>2, <2>3
<1>5. CASE Service \/ Verify \/ Stream \/ Banner
  BY <1>5 DEF Service, Verify, Stream, Banner
<1>6. CASE Die
  BY <1>6 DEF Die
<1>7. CASE ProcessExits \/ Restart \/ GiveUp
  BY <1>7 DEF ProcessExits, Restart, GiveUp
<1>8. CASE Enable \/ Disable \/ EditEnv
  BY <1>8 DEF Enable, Disable, EditEnv
<1>9. CASE UNCHANGED vars
  BY <1>9 DEF vars
<1> QED
  BY <1>1, <1>2, <1>3, <1>4, <1>5, <1>6, <1>7, <1>8, <1>9, <1>10 DEF Next, ScriptStep

\* Unless a run dies in npm ci or while the key is made, or the feeder fails, the one
\* thing that stops a re-run is a node_modules of another commit: a death at any other
\* step is repaired (provision-droplet.sh:22, 192-196, 227-246).
THEOREM OnlyDependenciesStop ==
    ASSUME Crashes = FALSE, Meddles = FALSE, {"npm", "key"} \cap KillSteps = {}
    PROVE  Spec => [](report = "stopped" => OtherDependencies)
<1>1. Init => Whole
  BY MarkAssumption DEF Init, Whole, StopsForOtherDependencies
<1>2. TypeOK /\ Whole /\ [Next]_vars => Whole'
  BY NextWhole
<1>3. Whole => (report = "stopped" => OtherDependencies)
  BY DEF Whole, StopsForOtherDependencies
<1> QED
  BY <1>1, <1>2, <1>3, TypeCorrect, PTL DEF Spec

\* So running it again with the commit of the first run stops nowhere of its own
\* accord (provision-droplet.sh:22).
THEOREM RerunRepairs ==
    ASSUME Crashes = FALSE, Meddles = FALSE, {"npm", "key"} \cap KillSteps = {},
           \A p, q \in Commit : p = q
    PROVE  Spec => []SafeToRerun
<1>1. (report = "stopped" => OtherDependencies) => SafeToRerun
  BY DEF OtherDependencies, SafeToRerun
<1> QED
  BY <1>1, OnlyDependenciesStop, PTL
=============================================================================
