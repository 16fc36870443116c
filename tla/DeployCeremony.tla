----------------------------- MODULE DeployCeremony -----------------------------
(***************************************************************************)
(* Putting the module on every chain: ts/src/deploy.ts writes (or, on a    *)
(* devnet, sends) one command per chain, ts/src/send-signed.ts sends the   *)
(* written ones, and anyone may land a copy first.  The deploy files are   *)
(* the only proof that a chain's module is the operator's.                 *)
(*                                                                         *)
(* Runs are processes that may overlap.  Every call that changes the disk  *)
(* is a step of its own: a file is copied, then removed; created, then     *)
(* written.  What a process reads it reads in the step that uses it, and   *)
(* it may die between any two steps: every error it does not handle ends   *)
(* it, as a crash does.  What survives it is on disk and on the chains.    *)
(*                                                                         *)
(* Abstractions.  A command is its chain and its creation time, from which *)
(* the builder derives every other byte (lib.ts:227-242).  One clock stands *)
(* for every chain's block time, and blocks are final.  A file that was     *)
(* created and not yet written whole is the mark of the run that made it;  *)
(* it, and a copy that was cut short, is no readable command and proves    *)
(* nothing, so superseded holds whole copies only.  Left out: files        *)
(* that were not written by these tools, which proofChain refuses,         *)
(* signatures, keys, fees and balances, and when the source becomes public: *)
(* a copy may land at any time.  A command the node mines fails only where *)
(* the name is taken.                                                      *)
(***************************************************************************)
EXTENDS Naturals, FiniteSets

CONSTANTS
    Chain,
    Run,            \* deploy runs that may overlap
    Mode,           \* "unsigned": deploy --unsigned; "direct": deploy, on a devnet
    Unanswered,     \* TRUE: a describe-module lookup may fail
    Free, Copy,     \* a name nobody holds, and one a copy holds
    NoFile,
    Ttl,            \* how long a command can land after its creation
    TimeBound       \* bound on the chains' time

Cmd == [chain : Chain, created : 0..TimeBound]

ASSUME MarkAssumption ==
    /\ {Free, Copy, NoFile} \cap Cmd = {} /\ Run \cap (Cmd \cup {NoFile}) = {}
    /\ Free # Copy
ASSUME ModeAssumption == Mode \subseteq {"unsigned", "direct"} /\ Mode # {}
ASSUME LookupAssumption == Unanswered \in BOOLEAN
ASSUME TimeAssumption == Ttl \in Nat /\ TimeBound \in Nat

VARIABLES
    now,            \* the chains' time
    holder,         \* per chain: who holds the module's name
    failed,         \* commands mined as failures
    wire,           \* submitted commands that have not reached the node
    pool,           \* commands that reached it
    path,           \* per chain: the file at its path, or the run still writing it
    superseded,     \* the files in superseded/
    mode,           \* per run: how it was started, or none
    files,          \* per run: the deploy files it read when it started
    at,             \* per run and chain: where deployChain is
    mind,           \* per run and chain: what deployChain remembers
    send            \* the send-signed run

chainVars == <<now, holder, failed, wire, pool>>
diskVars == <<path, superseded>>
runVars == <<mode, files, at, mind>>
vars == <<chainVars, diskVars, runVars, send>>

--------------------------------------------------------------------------------
(* Commands and files. *)

ValidUntil(cmd) == cmd.created + Ttl
CanLand(cmd) == now <= ValidUntil(cmd)

\* The commands readDeployFiles finds.
OnDisk == superseded \cup {path[c] : c \in {d \in Chain : path[d] \in Cmd}}

\* The node's status lookup of a command.
Status(cmd) ==
    IF holder[cmd.chain] = cmd THEN "success"
    ELSE IF cmd \in failed THEN "failure" ELSE "none"

\* A chain is ours when one of the known deploy files succeeded there.
Ownership(c, present, known) ==
    IF ~present THEN "available"
    ELSE IF \E f \in known : f.chain = c /\ Status(f) = "success" THEN "ours" ELSE "lost"

\* Mutant: a command is taken for expired while it can still land once.
FateTooEarly(seen, cmd) ==
    IF seen = "success" THEN "keep"
    ELSE IF seen = "failure" \/ ValidUntil(cmd) <= now THEN "supersede" ELSE "keep"

\* What may become of the file at a chain's path, from its status and its time.
Fate(seen, cmd) ==
    IF seen = "success" THEN "keep"
    ELSE IF seen = "failure" \/ ValidUntil(cmd) < now THEN "supersede" ELSE "keep"

--------------------------------------------------------------------------------
(* A deploy run.  Idle chains wait for a start; a run ends when every chain is *)
(* in Over, with the report that chain is given in the table.                  *)

Over == {"untouched", "lost", "kept", "written", "deployed"}
Blank == [who |-> "available", file |-> NoFile, seen |-> "none", held |-> FALSE]

Go(r, c, step) == at' = [at EXCEPT ![r][c] = step]

\* Mutant: a run knows the files at the chains' paths only.
StartReadsPathsOnly(r) ==
    /\ \A c \in Chain : at[r][c] = "idle"
    /\ \E m \in Mode : mode' = [mode EXCEPT ![r] = m]
    /\ files' = [files EXCEPT ![r] = OnDisk \ superseded]
    /\ at' = [at EXCEPT ![r] = [c \in Chain |-> "describe"]]
    /\ mind' = [mind EXCEPT ![r] = [c \in Chain |-> Blank]]
    /\ UNCHANGED <<chainVars, diskVars, send>>

\* readDeployFiles, once, before this run moves or writes any file.
Start(r) ==
    /\ \A c \in Chain : at[r][c] = "idle"
    /\ \E m \in Mode : mode' = [mode EXCEPT ![r] = m]
    /\ files' = [files EXCEPT ![r] = OnDisk]
    /\ at' = [at EXCEPT ![r] = [c \in Chain |-> "describe"]]
    /\ mind' = [mind EXCEPT ![r] = [c \in Chain |-> Blank]]
    /\ UNCHANGED <<chainVars, diskVars, send>>

\* planChain for a chain without a file, and the test for one.  A file that cannot be
\* read needs no status and no time.
LookForFile(r, c, who, held) ==
    /\ mind' = [mind EXCEPT ![r][c] =
            [who |-> who, file |-> path[c], seen |-> "none", held |-> held]]
    /\ Go(r, c, IF who = "ours" THEN "untouched"
                ELSE IF path[c] \in Cmd THEN "status"
                ELSE IF path[c] # NoFile THEN "time"
                ELSE IF who = "lost" THEN "lost" ELSE "build")
    /\ UNCHANGED <<chainVars, diskVars, mode, files, send>>

\* describe-module: a lookup that fails counts as no module (deploy.ts:125).
Describe(r, c) ==
    /\ at[r][c] = "describe"
    /\ \/ /\ holder[c] # Free
          /\ mind' = [mind EXCEPT ![r][c].held = TRUE]
          /\ Go(r, c, "own")
          /\ UNCHANGED <<chainVars, diskVars, mode, files, send>>
       \/ /\ holder[c] = Free \/ Unanswered
          /\ LookForFile(r, c, Ownership(c, FALSE, files[r]), holder[c] # Free)

\* ownershipOn: the status lookup of every known file of the chain.
Own(r, c) ==
    /\ at[r][c] = "own"
    /\ LookForFile(r, c, Ownership(c, TRUE, files[r]), TRUE)

\* fileFateOn: the file's status first, the chain's time after it.
JudgeStatus(r, c) ==
    /\ at[r][c] = "status"
    /\ mind' = [mind EXCEPT ![r][c].seen = Status(mind[r][c].file)]
    /\ Go(r, c, "time")
    /\ UNCHANGED <<chainVars, diskVars, mode, files, send>>

\* Mutant: the file at the path is removed before it is copied, and the run may
\* die in between.
AsideUnlinksFirst(c) ==
    /\ path[c] # NoFile
    /\ path' = [path EXCEPT ![c] = NoFile]
    /\ superseded' \in {superseded, superseded \cup ({path[c]} \cap Cmd)}

\* supersede, up to the removal: whatever file is at the path now is copied.
Aside(c) ==
    /\ path[c] # NoFile
    /\ superseded' = superseded \cup ({path[c]} \cap Cmd)
    /\ UNCHANGED path

\* planChain for a chain with a file that is not ours: one that cannot be judged
\* is kept.
Keeps(r, c) ==
    /\ mind[r][c].who # "lost"
    /\ mind[r][c].file \in Cmd => Fate(mind[r][c].seen, mind[r][c].file) = "keep"

Plan(r, c) ==
    /\ at[r][c] = "time"
    /\ IF Keeps(r, c)
       THEN Go(r, c, "kept") /\ UNCHANGED diskVars
       ELSE Aside(c) /\ Go(r, c, "unlink")
    /\ UNCHANGED <<chainVars, mode, files, mind, send>>

\* The rest of supersede: whatever file is at the path now is removed.
Unlink(r, c) ==
    /\ at[r][c] = "unlink"
    /\ path[c] # NoFile
    /\ path' = [path EXCEPT ![c] = NoFile]
    /\ Go(r, c, IF mind[r][c].who = "lost" THEN "lost" ELSE "build")
    /\ UNCHANGED <<chainVars, superseded, mode, files, mind, send>>

\* record, up to the content: the file is created, never over another.
Create(r, c) ==
    /\ path[c] = NoFile
    /\ path' = [path EXCEPT ![c] = r]
    /\ UNCHANGED superseded
    /\ Go(r, c, "write")

\* The rest of record.  The content of a file that was removed goes with it.
Fill(r, c) ==
    /\ at[r][c] = "write"
    /\ path' = [path EXCEPT ![c] = IF @ = r THEN mind[r][c].file ELSE @]
    /\ UNCHANGED superseded

\* The chain's time is read, and the command is built.
Built(r, c) ==
    /\ at[r][c] = "build"
    /\ mind' = [mind EXCEPT ![r][c].file = [chain |-> c, created |-> now]]
    /\ UNCHANGED <<chainVars, mode, files, send>>

WriteUnsigned(r, c) ==
    /\ mode[r] = "unsigned"
    /\ Built(r, c)
    /\ Create(r, c)

Written(r, c) ==
    /\ mode[r] = "unsigned"
    /\ Fill(r, c)
    /\ Go(r, c, "written")
    /\ UNCHANGED <<chainVars, mode, files, mind, send>>

\* A command that is sent directly is preflighted first.
BuildDirect(r, c) ==
    /\ mode[r] = "direct"
    /\ Built(r, c)
    /\ Go(r, c, "preflight")
    /\ UNCHANGED diskVars

\* Mutant: the command is recorded once it is known to have landed.
SubmitUnrecorded(r, c) ==
    /\ at[r][c] = "preflight"
    /\ holder[c] = Free /\ CanLand(mind[r][c].file)
    /\ wire' = wire \cup {mind[r][c].file}
    /\ Go(r, c, "poll")
    /\ UNCHANGED <<now, holder, failed, pool, diskVars, mode, files, mind, send>>

\* sendBuilt: the node's preflight passes, and beforeSubmit records the command.
Preflight(r, c) ==
    /\ at[r][c] = "preflight"
    /\ holder[c] = Free /\ CanLand(mind[r][c].file)
    /\ Create(r, c)
    /\ UNCHANGED <<chainVars, mode, files, mind, send>>

\* It is written whole, then sent.
Submit(r, c) ==
    /\ mode[r] = "direct"
    /\ Fill(r, c)
    /\ wire' = wire \cup {mind[r][c].file}
    /\ Go(r, c, "poll")
    /\ UNCHANGED <<now, holder, failed, pool, mode, files, mind, send>>

\* The poll and the verification of the deployed module.
Mined(r, c) ==
    /\ at[r][c] = "poll"
    /\ Status(mind[r][c].file) = "success"
    /\ Go(r, c, "deployed")
    /\ UNCHANGED <<chainVars, diskVars, mode, files, mind, send>>

Idle(r) ==
    /\ at' = [at EXCEPT ![r] = [c \in Chain |-> "idle"]]
    /\ mode' = [mode EXCEPT ![r] = "none"]
    /\ files' = [files EXCEPT ![r] = {}]
    /\ mind' = [mind EXCEPT ![r] = [c \in Chain |-> Blank]]

\* The run prints its table and exits.
End(r) ==
    /\ \A c \in Chain : at[r][c] \in Over
    /\ Idle(r)
    /\ UNCHANGED <<chainVars, diskVars, send>>

\* The run dies: an error it does not handle, a crash, an interrupt.
Die(r) ==
    /\ \E c \in Chain : at[r][c] \notin Over \cup {"idle"}
    /\ Idle(r)
    /\ UNCHANGED <<chainVars, diskVars, send>>

--------------------------------------------------------------------------------
(* A send-signed run with --send: it stops at the first thing it refuses, and *)
(* nothing has been sent until it submits.                                    *)

Resting == [step |-> "idle", todo |-> {}, items |-> {}]

\* It is given the files of some chains: by the glob, or one that was moved aside
\* by its name.
SendStart ==
    /\ send.step = "idle"
    /\ \E named \in SUBSET OnDisk \ {{}} :
         send' = [step |-> "status", todo |-> named, items |-> {}]
    /\ UNCHANGED <<chainVars, diskVars, runVars>>

\* statusDecision: a command on chain is skipped, one that failed stops the run.
SendStatus(cmd) ==
    /\ send.step = "status"
    /\ cmd \in send.todo
    /\ Status(cmd) # "failure"
    /\ send' = [send EXCEPT !.todo = @ \ {cmd},
                            !.items = IF Status(cmd) = "none" THEN @ \cup {cmd} ELSE @]
    /\ UNCHANGED <<chainVars, diskVars, runVars>>

OnePerChain(cmds) == \A f, g \in cmds : f.chain = g.chain => f = g

\* The chains' times, the signatures, and one command per chain.
SendSign ==
    /\ send.step = "status" /\ send.todo = {} /\ send.items # {}
    /\ \A cmd \in send.items : CanLand(cmd)
    /\ OnePerChain(send.items)
    /\ send' = [step |-> "preflight", todo |-> send.items, items |-> send.items]
    /\ UNCHANGED <<chainVars, diskVars, runVars>>

\* The node's preflight refuses a command that could not land now.
SendPreflight(cmd) ==
    /\ send.step = "preflight"
    /\ cmd \in send.todo
    /\ holder[cmd.chain] = Free /\ CanLand(cmd)
    /\ send' = [send EXCEPT !.todo = @ \ {cmd}]
    /\ UNCHANGED <<chainVars, diskVars, runVars>>

\* All submitted at once.  Answers and polls change nothing but the report.
SendSubmit ==
    /\ send.step = "preflight" /\ send.todo = {}
    /\ wire' = wire \cup send.items
    /\ send' = Resting
    /\ UNCHANGED <<now, holder, failed, pool, diskVars, runVars>>

\* die(): a refusal, a lookup that stays unanswered, an interrupt.
SendDies ==
    /\ send.step # "idle"
    /\ send' = Resting
    /\ UNCHANGED <<chainVars, diskVars, runVars>>

--------------------------------------------------------------------------------
(* The network and the chains. *)

\* A submitted command reaches the node, whatever the process was told, or even
\* after it died; or it never does.
Arrive(cmd) ==
    /\ cmd \in wire
    /\ wire' = wire \ {cmd}
    /\ pool' = IF CanLand(cmd) THEN pool \cup {cmd} ELSE pool
    /\ UNCHANGED <<now, holder, failed, diskVars, runVars, send>>

Lose(cmd) ==
    /\ cmd \in wire
    /\ wire' = wire \ {cmd}
    /\ UNCHANGED <<now, holder, failed, pool, diskVars, runVars, send>>

\* A command is mined within its time: it takes the name if nobody has it.
Land(cmd) ==
    /\ cmd \in pool /\ CanLand(cmd) /\ Status(cmd) = "none"
    /\ pool' = pool \ {cmd}
    /\ IF holder[cmd.chain] = Free
       THEN holder' = [holder EXCEPT ![cmd.chain] = cmd] /\ UNCHANGED failed
       ELSE failed' = failed \cup {cmd} /\ UNCHANGED holder
    /\ UNCHANGED <<now, wire, diskVars, runVars, send>>

\* Anyone who has the source lands a copy where the name is free.
Copycat(c) ==
    /\ holder[c] = Free
    /\ holder' = [holder EXCEPT ![c] = Copy]
    /\ UNCHANGED <<now, failed, wire, pool, diskVars, runVars, send>>

Tick ==
    /\ now < TimeBound
    /\ now' = now + 1
    /\ pool' = {cmd \in pool : now' <= ValidUntil(cmd)}
    /\ UNCHANGED <<holder, failed, wire, diskVars, runVars, send>>

--------------------------------------------------------------------------------

Init ==
    /\ now = 0
    /\ holder = [c \in Chain |-> Free]
    /\ failed = {} /\ wire = {} /\ pool = {}
    /\ path = [c \in Chain |-> NoFile]
    /\ superseded = {}
    /\ mode = [r \in Run |-> "none"]
    /\ files = [r \in Run |-> {}]
    /\ at = [r \in Run |-> [c \in Chain |-> "idle"]]
    /\ mind = [r \in Run |-> [c \in Chain |-> Blank]]
    /\ send = Resting

DeployStep(r, c) ==
    \/ Describe(r, c) \/ Own(r, c)
    \/ JudgeStatus(r, c) \/ Plan(r, c) \/ Unlink(r, c)
    \/ WriteUnsigned(r, c) \/ Written(r, c)
    \/ BuildDirect(r, c) \/ Preflight(r, c) \/ Submit(r, c) \/ Mined(r, c)

Next ==
    \/ \E r \in Run : Start(r) \/ End(r) \/ Die(r)
    \/ \E r \in Run, c \in Chain : DeployStep(r, c)
    \/ SendStart \/ SendSign \/ SendSubmit \/ SendDies
    \/ \E cmd \in send.todo : SendStatus(cmd) \/ SendPreflight(cmd)
    \/ \E cmd \in wire : Arrive(cmd) \/ Lose(cmd)
    \/ \E cmd \in pool : Land(cmd)
    \/ \E c \in Chain : Copycat(c)
    \/ Tick

Spec == Init /\ [][Next]_vars

--------------------------------------------------------------------------------
(* Properties. *)

\* What is on the chains, on disk and in the processes is what the code can make
\* it, and every command is dated by a time its chain has reached.
Steps ==
    {"idle", "describe", "own", "status", "time", "unlink", "build", "preflight", "write", "poll"}
      \cup Over

TypeOK ==
    /\ now \in 0..TimeBound
    /\ holder \in [Chain -> Cmd \cup {Free, Copy}]
    /\ failed \subseteq Cmd /\ wire \subseteq Cmd /\ pool \subseteq Cmd
    /\ path \in [Chain -> Cmd \cup {NoFile} \cup Run]
    /\ superseded \subseteq Cmd
    /\ mode \in [Run -> Mode \cup {"none"}]
    /\ files \in [Run -> SUBSET Cmd]
    /\ at \in [Run -> [Chain -> Steps]]
    /\ mind \in [Run -> [Chain ->
          [who : {"available", "ours", "lost"}, file : Cmd \cup {NoFile} \cup Run,
           seen : {"none", "success", "failure"}, held : BOOLEAN]]]
    /\ send \in [step : {"idle", "status", "preflight"}, todo : SUBSET Cmd, items : SUBSET Cmd]

\* A command that may land, or has landed, keeps its file, the only proof that the
\* chain is the operator's: through crashes between a copy and a removal, or inside a
\* write.  It holds of one run at a time; of overlapping runs the code says the same
\* and does not keep it (deploy.ts:61-63, 79, lib.ts:482-484).
ProofIsNeverLost ==
    wire \cup pool \cup failed \cup {holder[c] : c \in {d \in Chain : holder[d] \in Cmd}} \subseteq OnDisk

\* Where the operator's command took a name, the file that proves it is on disk: a
\* later run needs it, "so none is ever overwritten or deleted" (deploy.ts:61-63, 79).
HeldIsProven == \A c \in Chain : holder[c] \in Cmd => holder[c] \in OnDisk

\* No step takes a deploy file off the disk: it stays at its chain's path or lies in
\* superseded/, wherever a run dies, one run at a time (deploy.ts:12, 61-63).
NoFileVanishes == [][OnDisk \subseteq OnDisk']_vars

\* A chain never has two commands that can still take its name: while one can,
\* nothing is regenerated for its chain (deploy.ts:12-14).
Live(cmd) == CanLand(cmd) /\ holder[cmd.chain] = Free

OneLiveCommand ==
    \A f, g \in OnDisk : f.chain = g.chain /\ Live(f) /\ Live(g) => f = g

\* The ceremony is a race for each chain's name in which the operator's tickets are its
\* deploy files that can still land: it never holds two for a chain, it makes one only
\* where it has none, and what takes a name is one of them or a copy
\* (deploy.ts:8-15, send-signed.ts:130-131).
TicketsOf(c) == {f \in OnDisk : f.chain = c /\ Live(f)}

Race == INSTANCE NameRace WITH
    Ticket <- Cmd, tickets <- [c \in Chain |-> TicketsOf(c)]

ImplementsRace == Race!Spec

\* What was moved aside can no longer take its chain's name, although its status was
\* looked up before its chain's time, and both before it was moved (deploy.ts:12-15).
SupersededIsDead == \A f \in superseded : ~Live(f)

\* The operator's own commands never compete for a name: one that is mined and
\* fails lost to a copy (send-signed.ts:130-131, 199).
LosesOnlyToACopy == \A cmd \in failed : holder[cmd.chain] = Copy

\* A chain is reported ours only where a command of the operator's landed, and
\* LOST only where none did (deploy.ts:8-10).
ReportedOurs(r, c) == at[r][c] = "untouched"
OursIsOurs == \A r \in Run, c \in Chain : ReportedOurs(r, c) => holder[c] \in Cmd
LostIsNotOurs == \A r \in Run, c \in Chain : at[r][c] = "lost" => holder[c] = Copy

\* No file is written for a chain that already carried the module when its turn
\* came (deploy.ts:8-10).
HeldGetsNoFile ==
    \A r \in Run, c \in Chain :
        at[r][c] \in {"write", "written", "poll", "deployed"} => ~mind[r][c].held
=============================================================================
