------------------------------- MODULE Provision -------------------------------
(***************************************************************************)
(* ts/deploy/provision-droplet.sh prepares the machine the feeder runs on, *)
(* and updates it when it is run again; ts/deploy/block-history-feeder     *)
(* .service is what systemd makes of the feeder there.                     *)
(*                                                                         *)
(* The script may die at any of its steps (a signal, a lost connection, a  *)
(* command that fails) and is run again.  Meanwhile systemd restarts the   *)
(* feeder's process, and the operator edits .env, starts and stops it.     *)
(*                                                                         *)
(* Left out: system packages, firewall, sshd, swap, Node itself, the log   *)
(* directory, and hosts without systemd.  A checkout is one step.  The     *)
(* start limit is a choice: systemd may give up at any restart.  The       *)
(* operator does not edit .env during the instant the script rewrites it.  *)
(***************************************************************************)
EXTENDS Naturals

CONSTANTS
    Commit,
    NoFile,         \* a file or a directory that does not exist
    Partial,        \* a file or a directory written in part
    KillSteps,      \* the steps at which the script may die
    Crashes,        \* TRUE: the feeder's process may exit by itself
    Meddles,        \* TRUE: the operator starts and stops it while the script runs
    RunBound        \* bound on the number of script runs

Step == {"idle", "checkout", "deps", "npm", "typecheck", "env", "write", "key",
         "service", "verify", "stream", "banner"}

ASSUME MarkAssumption ==
    /\ NoFile # Partial /\ "key" \notin {NoFile, Partial}
    /\ {NoFile, Partial} \cap (Commit \cup BOOLEAN) = {}
ASSUME TroubleAssumption == KillSteps \subseteq Step /\ Crashes \in BOOLEAN /\ Meddles \in BOOLEAN
ASSUME RunAssumption == RunBound \in Nat

VARIABLES
    code,           \* the commit checked out
    deps,           \* node_modules: the commit whose lock file it was installed from
    env,            \* ts/.env: does it set the heartbeat URL?
    key,            \* out/feeder-key.json
    unit,           \* is the unit file installed?
    service,        \* the unit's state: restarting is systemd's wait before a restart
    loaded,         \* the commit the feeder's process was started from
    told,           \* what the operator last asked for: to run, to ping the URL
    pc,             \* the script's step
    pin,            \* its argument
    wasActive,      \* WAS_ACTIVE
    heartbeat,      \* HEARTBEAT: is it a URL?
    report,         \* how the last run ended
    runs

disk == <<code, deps, env, key, unit>>
systemd == <<service, loaded>>
script == <<pin, wasActive, heartbeat, runs>>
vars == <<disk, systemd, script, told, pc, report>>

Stop == pc' = "idle" /\ report' = "stopped"
Go(step) == pc' = step /\ UNCHANGED report

--------------------------------------------------------------------------------
(* The script. *)

\* Steps 0 to 7: the feeder's state is asked for before anything changes.
Begin(p) ==
    /\ pc = "idle"
    /\ runs < RunBound
    /\ runs' = runs + 1
    /\ pin' = p
    /\ wasActive' = (service = "active")
    /\ heartbeat' = FALSE
    /\ pc' = "checkout"
    /\ report' = "none"
    /\ UNCHANGED <<disk, systemd, told>>

\* Step 8.
Checkout ==
    /\ pc = "checkout"
    /\ code' = pin
    /\ Go("deps")
    /\ UNCHANGED <<deps, env, key, unit, systemd, script, told>>

\* Step 9: npm ci runs only when there is no node_modules at all.
Deps ==
    /\ pc = "deps"
    /\ \/ deps = NoFile /\ deps' = Partial /\ Go("npm")
       \/ deps # NoFile /\ UNCHANGED deps /\ Go("typecheck")
    /\ UNCHANGED <<code, env, key, unit, systemd, script, told>>

Npm ==
    /\ pc = "npm"
    /\ deps' = code
    /\ Go("typecheck")
    /\ UNCHANGED <<code, env, key, unit, systemd, script, told>>

\* The typecheck and the tools' own tests: other dependencies may fail them.
TypeCheck ==
    /\ pc = "typecheck"
    /\ Go("env") \/ (deps # code /\ Stop)
    /\ UNCHANGED <<disk, systemd, script, told>>

\* Mutant: the heartbeat URL is not read back.
ReadEnvForgets ==
    /\ pc = "env"
    /\ heartbeat' = FALSE
    /\ env' = FALSE
    /\ Go("write")
    /\ UNCHANGED <<code, deps, key, unit, systemd, pin, wasActive, runs, told>>

\* Step 10: the URL is read back, and the shell truncates the file.
ReadEnv ==
    /\ pc = "env"
    /\ heartbeat' = (env = TRUE)
    /\ env' = FALSE
    /\ Go("write")
    /\ UNCHANGED <<code, deps, key, unit, systemd, pin, wasActive, runs, told>>

WriteEnv ==
    /\ pc = "write"
    /\ env' = heartbeat
    /\ Go("key")
    /\ UNCHANGED <<code, deps, key, unit, systemd, script, told>>

\* Step 11: a key file that exists is used as it is, or refused.
Keygen ==
    /\ pc = "key"
    /\ \/ key = NoFile /\ key' = "key" /\ Go("service")
       \/ key = "key" /\ UNCHANGED key /\ Go("service")
       \/ key = Partial /\ UNCHANGED key /\ Stop
    /\ UNCHANGED <<code, deps, env, unit, systemd, script, told>>

\* Mutant: the unit is reloaded but the process is not replaced.
ReloadOnly ==
    /\ pc = "service"
    /\ unit' = TRUE
    /\ Go(IF wasActive THEN "verify" ELSE "stream")
    /\ UNCHANGED <<code, deps, env, key, systemd, script, told>>

\* Mutant: the feeder is restarted whether it was running or not.
RestartAlways ==
    /\ pc = "service"
    /\ unit' = TRUE
    /\ service' = "active" /\ loaded' = code
    /\ Go("verify")
    /\ UNCHANGED <<code, deps, env, key, script, told>>

\* Steps 12 and 13.  systemctl restart starts a unit that was stopped, too.
Service ==
    /\ pc = "service"
    /\ unit' = TRUE
    /\ \/ wasActive /\ service' = "active" /\ loaded' = code /\ Go("verify")
       \/ ~ wasActive /\ UNCHANGED systemd /\ Go("stream")
       \/ wasActive /\ Crashes /\ UNCHANGED systemd /\ Stop
    /\ UNCHANGED <<code, deps, env, key, script, told>>

\* Three seconds later.
Verify ==
    /\ pc = "verify"
    /\ IF service = "active" THEN Go("stream") ELSE Stop
    /\ UNCHANGED <<disk, systemd, script, told>>

\* Steps 14 and 15: the node and the balances can be read from here (or Die).
Stream ==
    /\ pc = "stream"
    /\ Go("banner")
    /\ UNCHANGED <<disk, systemd, script, told>>

\* What the operator is told at the end.
Banner ==
    /\ pc = "banner"
    /\ pc' = "idle"
    /\ report' = "provisioned"
    /\ UNCHANGED <<disk, systemd, script, told>>

\* A kill, or a command that fails for a reason outside this machine.
Die ==
    /\ pc \in KillSteps \ {"idle"}
    /\ pc' = "idle"
    /\ report' = "died"
    /\ key' \in IF pc = "key" /\ key = NoFile THEN {NoFile, Partial} ELSE {key}
    /\ UNCHANGED <<code, deps, env, unit, systemd, script, told>>

--------------------------------------------------------------------------------
(* systemd: Restart=always, after RestartSec, within the start limit. *)

ProcessExits ==
    /\ Crashes
    /\ service = "active"
    /\ service' = "restarting"
    /\ UNCHANGED <<disk, loaded, script, told, pc, report>>

Restart ==
    /\ service = "restarting"
    /\ service' = "active" /\ loaded' = code
    /\ UNCHANGED <<disk, script, told, pc, report>>

GiveUp ==
    /\ service = "restarting"
    /\ service' = "failed"
    /\ UNCHANGED <<disk, loaded, script, told, pc, report>>

--------------------------------------------------------------------------------
(* The operator. *)

Enable ==
    /\ unit /\ (Meddles \/ pc = "idle")
    /\ service # "active"
    /\ service' = "active" /\ loaded' = code
    /\ told' = [told EXCEPT !.run = TRUE]
    /\ UNCHANGED <<disk, script, pc, report>>

Disable ==
    /\ unit /\ (Meddles \/ pc = "idle")
    /\ service' = "inactive"
    /\ told' = [told EXCEPT !.run = FALSE]
    /\ UNCHANGED <<disk, loaded, script, pc, report>>

EditEnv ==
    /\ env # NoFile /\ pc # "write"
    /\ env' \in BOOLEAN
    /\ told' = [told EXCEPT !.url = env']
    /\ UNCHANGED <<code, deps, key, unit, systemd, script, pc, report>>

--------------------------------------------------------------------------------
\* A machine that was never provisioned.
Init ==
    /\ code = NoFile /\ deps = NoFile /\ env = NoFile /\ key = NoFile /\ unit = FALSE
    /\ service = "inactive" /\ loaded = NoFile
    /\ told = [run |-> FALSE, url |-> FALSE]
    /\ pc = "idle" /\ pin = NoFile /\ wasActive = FALSE /\ heartbeat = FALSE
    /\ report = "none" /\ runs = 0

ScriptStep ==
    \/ \E p \in Commit : Begin(p)
    \/ Checkout \/ Deps \/ Npm \/ TypeCheck \/ ReadEnv \/ WriteEnv \/ Keygen
    \/ Service \/ Verify \/ Stream \/ Banner \/ Die

Next ==
    \/ ScriptStep
    \/ ProcessExits \/ Restart \/ GiveUp
    \/ Enable \/ Disable \/ EditEnv

Spec == Init /\ [][Next]_vars

--------------------------------------------------------------------------------
(* Properties. *)

\* The files, the service and the script's variables are what the code can make
\* them.
TypeOK ==
    /\ code \in Commit \cup {NoFile} /\ deps \in Commit \cup {NoFile, Partial}
    /\ env \in BOOLEAN \cup {NoFile} /\ key \in {NoFile, Partial, "key"} /\ unit \in BOOLEAN
    /\ service \in {"inactive", "active", "restarting", "failed"}
    /\ loaded \in Commit \cup {NoFile}
    /\ told \in [run : BOOLEAN, url : BOOLEAN]
    /\ pc \in Step /\ pin \in Commit \cup {NoFile}
    /\ wasActive \in BOOLEAN /\ heartbeat \in BOOLEAN
    /\ report \in {"none", "stopped", "died", "provisioned"} /\ runs \in Nat

Provisioned == pc = "idle" /\ report = "provisioned"

\* When a feeder ran as the script began and the script ends well, the process
\* runs the pinned commit, whenever it crashed or was restarted in between
\* (provision-droplet.sh:57-60, 258-264).
RunningFeederIsUpdated ==
    Provisioned /\ wasActive /\ service = "active" => loaded = code

\* After an update no process runs an older commit than the one on disk
\* (provision-droplet.sh:259-260).
UpdateTakesEffect == Provisioned /\ service = "active" => loaded = code

\* The heartbeat URL the operator set is in .env, however many re-runs, complete
\* or interrupted, came after (provision-droplet.sh:200-204, 224).
HeartbeatKept == told.url /\ pc # "write" => env = TRUE

\* The feeder runs only when the operator's last word was to run it: the script
\* never starts it (provision-droplet.sh:19-20).
StoppedStaysStopped == service = "active" => told.run

\* The script stops of its own accord only where this run's commands failed: an
\* earlier interruption is repaired by running it again
\* (provision-droplet.sh:22).
SafeToRerun == report # "stopped"
=============================================================================
