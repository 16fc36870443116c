--------------------------------- MODULE Relay ----------------------------------
(***************************************************************************)
(* Command files nobody vouches for.  ts/src/send-signed.ts signs, checks  *)
(* and submits the files it is named, and lib.ts judges whose module a     *)
(* chain carries from the files in the deploy directory; both rest on the  *)
(* checks of lib.ts:249-447.  DeployCeremony takes every file for one the  *)
(* deploy tool wrote; here a file is whatever it is.                       *)
(*                                                                         *)
(* Abstractions.  A command is a record of what the checks tell apart:     *)
(* "ours" is the value this run expects of a field, and `extra` says that  *)
(* the text carries anything else that the builder does not write.  A      *)
(* command is its own request key, so a hash is only right or wrong.  A    *)
(* run is given files of the deploy directory, as the glob does; the code  *)
(* takes any path, judges what lies elsewhere alike, and does not keep it  *)
(* as proof.  The reasons of a refusal, fees, gas and the host are left    *)
(* out, and one clock stands for every chain's time.                       *)
(***************************************************************************)
EXTENDS Naturals

CONSTANTS
    Chain,
    NoChain,        \* a chain id that is none of 0-19
    Free,           \* a module name nobody holds
    Offered,        \* the command files there are
    Ttl,            \* how long a command can land after its creation
    TimeBound       \* bound on the chains' time

Side == {"ours", "another"}
Code == {"module", "definition", "other"}

\* form: exactly the JSON the tools write, another JSON text, or none.  atNode: the
\* code the node reads in it, the same as here only where the form is exact.
Cmd == [form : {"exact", "loose", "none"}, chain : Chain \cup {NoChain}, network : Side,
        payer : Side, signer : Side, signers : {"one", "more"}, scope : {"gas", "wider"},
        code : Code, atNode : Code, ns : Side, limit : Side, price : Side,
        created : 0..TimeBound, ttl : Side, extra : BOOLEAN]

\* sigs: every slot is filled and verifies, some slot is empty, some does not verify.
File == [cmd : Cmd, hashed : BOOLEAN, sigs : {"none", "good", "bad"}]

ASSUME ChainAssumption == NoChain \notin Chain
ASSUME FreeAssumption == Free \notin Cmd
ASSUME OfferedAssumption ==
    /\ Offered \subseteq File
    /\ \A f \in Offered : f.cmd.form = "exact" => f.cmd.atNode = f.cmd.code
ASSUME TimeAssumption == Ttl \in Nat /\ TimeBound \in Nat

VARIABLES
    now,            \* the chains' time
    holder,         \* per chain: the command that deployed the module there
    done, failed,   \* commands mined as successes, and as failures
    dir,            \* the deploy directory
    run,            \* the send-signed run
    signed,         \* the commands the gas key has signed
    sent,           \* what runs submitted, and with --gas-key or not
    heard           \* the bodies that runs without --send gave the node

chainVars == <<now, holder, done, failed>>
vars == <<chainVars, dir, run, signed, sent, heard>>

--------------------------------------------------------------------------------
(* The checks. *)

\* buildUnsignedGasOnly, from the fields that may differ between two runs.
Build(s) ==
    [form |-> "exact", chain |-> s.chain, network |-> "ours",
     payer |-> s.payer, signer |-> s.signer, signers |-> "one", scope |-> "gas",
     code |-> "module", atNode |-> "module", ns |-> "ours", limit |-> s.limit,
     price |-> s.price, created |-> s.created, ttl |-> s.ttl, extra |-> FALSE]

IsJson(cmd) == cmd.form # "none"            \* mutant: any JSON text will do
IsExact(cmd) == cmd.form = "exact"

\* fileChain: the file can be judged at all, and its chain is cmd.chain.
FileOK(f) == f.hashed /\ IsExact(f.cmd) /\ f.cmd.chain # NoChain

ContentOK(cmd) == cmd.ns = "ours"

CommandKind(cmd) == IF cmd.code = "module" THEN "module" ELSE "other"

\* relayKind: what may be carried for another, of either kind.
Relayable(cmd) ==
    /\ IsExact(cmd)
    /\ CommandKind(cmd) = "module" => ContentOK(cmd)
    /\ cmd.code # "definition"

InWindow(cmd) == cmd.created <= now /\ now <= cmd.created + Ttl

\* Mutant: what is skipped must still be in its window.
SpendableInWindow(cmd, withGasKey) ==
    /\ Relayable(cmd)
    /\ withGasKey => CommandKind(cmd) = "module" /\ InWindow(cmd)

\* spentKind: what a run may find on chain and skip.
Spendable(cmd, withGasKey) ==
    Relayable(cmd) /\ (withGasKey => CommandKind(cmd) = "module")

\* Mutant: no rebuild at the end.
SignableNoRebuild(f) ==
    LET cmd == f.cmd IN
    /\ IsExact(cmd) /\ cmd.network = "ours" /\ FileOK(f)
    /\ cmd.payer = "ours" /\ cmd.signers = "one" /\ cmd.signer = "ours"
    /\ cmd.scope = "gas" /\ cmd.price = "ours" /\ InWindow(cmd)
    /\ cmd.code = "module" /\ ContentOK(cmd) /\ cmd.limit = "ours"

\* signGasSlot: the gas key signs the deploy's own command and nothing else.
Signable(f) ==
    LET cmd == f.cmd IN
    /\ IsExact(cmd) /\ cmd.network = "ours" /\ FileOK(f)
    /\ cmd.payer = "ours" /\ cmd.signers = "one" /\ cmd.signer = "ours"
    /\ cmd.scope = "gas" /\ cmd.price = "ours" /\ InWindow(cmd)
    /\ cmd.code = "module" /\ ContentOK(cmd) /\ cmd.limit = "ours"
    /\ cmd = Build([chain |-> cmd.chain, payer |-> "ours", signer |-> "ours", limit |-> "ours",
                    price |-> "ours", created |-> cmd.created, ttl |-> "ours"])

\* verifySigned: signed elsewhere, every slot.
Verified(f) ==
    f.cmd.form # "none" /\ f.cmd.network = "ours" /\ f.hashed /\ f.sigs = "good"

\* Mutant: the file as it is, signatures and all.
UnsignedForwarded(f) == f

UnsignedBody(f) == [f EXCEPT !.sigs = "none"]

Request(f, send) == IF send THEN f ELSE UnsignedBody(f)

\* Mutant: the module's code and namespace are proof enough.
ProvesByContent(f) ==
    /\ FileOK(f) /\ f.cmd.network = "ours"
    /\ Relayable(f.cmd) /\ CommandKind(f.cmd) = "module"

\* proofChain: the file speaks for the chain it names.
Proves(f) ==
    /\ FileOK(f) /\ f.cmd.network = "ours"
    /\ Relayable(f.cmd) /\ CommandKind(f.cmd) = "module"
    /\ f.cmd = Build(f.cmd)

ProofKeys(c) == {f.cmd : f \in {g \in dir : Proves(g) /\ g.cmd.chain = c}}

Ownership(c) ==
    IF holder[c] = Free THEN "available"
    ELSE IF ProofKeys(c) \cap done # {} THEN "ours" ELSE "lost"

--------------------------------------------------------------------------------
(* The chains. *)

CanLand(cmd) == InWindow(cmd) /\ cmd.network = "ours" /\ cmd.form # "none" /\ cmd.chain # NoChain

\* The node reads the module only into the name of its namespace.
TakesTheName(cmd) == cmd.atNode = "module" /\ cmd.ns = "ours"

\* What the node makes of a command, simulated or mined.
Passes(cmd) == CanLand(cmd) /\ (TakesTheName(cmd) => holder[cmd.chain] = Free)

Land(cmd) ==
    /\ CanLand(cmd) /\ cmd \notin done \cup failed
    /\ IF Passes(cmd) THEN done' = done \cup {cmd} /\ UNCHANGED failed
                      ELSE failed' = failed \cup {cmd} /\ UNCHANGED done
    /\ holder' = IF TakesTheName(cmd) /\ Passes(cmd)
                 THEN [holder EXCEPT ![cmd.chain] = cmd] ELSE holder
    /\ UNCHANGED <<now, dir, run, signed, sent, heard>>

\* A submitted command lands.  Anyone else lands what they can sign, or what is
\* signed already: it matters if it takes the name, or if its file is at hand.
SentLands == \E s \in sent : Land(s.cmd)

StrangerLands ==
    \E f \in Offered :
        /\ f.cmd.signer = "another" \/ f.sigs = "good"
        /\ f \in dir \/ (TakesTheName(f.cmd) /\ Passes(f.cmd))
        /\ Land(f.cmd)

Tick ==
    /\ now < TimeBound
    /\ now' = now + 1
    /\ UNCHANGED <<holder, done, failed, dir, run, signed, sent, heard>>

--------------------------------------------------------------------------------
(* A send-signed run.  It ends at the first thing it refuses, and until it     *)
(* submits it has only asked.                                                  *)

Resting == [step |-> "idle", withGasKey |-> FALSE, send |-> FALSE, todo |-> {}, items |-> {}]

\* Files of the directory are read and judged, every one before the node is asked
\* anything.
Load ==
    /\ run.step = "idle"
    /\ \E named \in SUBSET dir \ {{}}, withGasKey, send \in BOOLEAN :
         /\ \A f \in named : FileOK(f)
         /\ run' = [step |-> "status", withGasKey |-> withGasKey, send |-> send,
                    todo |-> named, items |-> {}]
    /\ UNCHANGED <<chainVars, dir, signed, sent, heard>>

\* statusDecision: what is on chain is skipped if this run would have sent it.
Skip(f) ==
    /\ run.step = "status" /\ f \in run.todo
    /\ f.cmd \in done /\ Spendable(f.cmd, run.withGasKey)
    /\ run' = [run EXCEPT !.todo = @ \ {f}]
    /\ UNCHANGED <<chainVars, dir, signed, sent, heard>>

Pend(f) ==
    /\ run.step = "status" /\ f \in run.todo
    /\ f.cmd \notin done \cup failed
    /\ run' = [run EXCEPT !.todo = @ \ {f}, !.items = @ \cup {f}]
    /\ UNCHANGED <<chainVars, dir, signed, sent, heard>>

\* No two module commands for a chain, and no other command twice.
OnePerChain(items) ==
    \A f, g \in items :
        /\ f.cmd.chain = g.cmd.chain /\ CommandKind(f.cmd) = CommandKind(g.cmd)
        /\ CommandKind(f.cmd) = "other" => f.cmd = g.cmd
        => f = g

Accepts(f) == IF run.withGasKey THEN Signable(f) ELSE Verified(f) /\ Relayable(f.cmd)

\* Every pending file is signed, or its signatures verified.
Sign ==
    LET items == IF run.withGasKey THEN {[f EXCEPT !.sigs = "good"] : f \in run.items}
                                   ELSE run.items IN
    /\ run.step = "status" /\ run.todo = {} /\ run.items # {}
    /\ \A f \in run.items : Accepts(f)
    /\ OnePerChain(items)
    /\ run' = [run EXCEPT !.step = "preflight", !.todo = items, !.items = items]
    /\ signed' = IF run.withGasKey THEN signed \cup {f.cmd : f \in items} ELSE signed
    /\ UNCHANGED <<chainVars, dir, sent, heard>>

\* The node is sent one body, and what it makes of it may stop the run.
Preflight(f) ==
    /\ run.step = "preflight" /\ f \in run.todo
    /\ heard' = IF run.send THEN heard ELSE heard \cup {Request(f, run.send)}
    /\ run' = IF Passes(f.cmd) THEN [run EXCEPT !.todo = @ \ {f}] ELSE Resting
    /\ UNCHANGED <<chainVars, dir, signed, sent>>

Submit ==
    /\ run.step = "preflight" /\ run.todo = {} /\ run.send
    /\ sent' = sent \cup {[cmd |-> f.cmd, withGasKey |-> run.withGasKey] : f \in run.items}
    /\ run' = Resting
    /\ UNCHANGED <<chainVars, dir, signed, heard>>

\* A refusal, an unanswered lookup, an interrupt, or the end of a check.
End ==
    /\ run.step # "idle"
    /\ run' = Resting
    /\ UNCHANGED <<chainVars, dir, signed, sent, heard>>

--------------------------------------------------------------------------------

Init ==
    /\ now = 0
    /\ holder = [c \in Chain |-> Free]
    /\ done = {} /\ failed = {}
    /\ \E f, g \in Offered : dir = {f, g}
    /\ run = Resting
    /\ signed = {} /\ sent = {} /\ heard = {}

Next ==
    \/ SentLands \/ StrangerLands \/ Tick
    \/ Load \/ Sign \/ Submit \/ End
    \/ \E f \in run.todo : Skip(f) \/ Pend(f) \/ Preflight(f)

Spec == Init /\ [][Next]_vars

--------------------------------------------------------------------------------
(* Properties. *)

\* A chain is called the operator's only where the module was carried by exactly the
\* deploy's payload: the same code landed with writes of its own, a wider signature or
\* another field is never taken for ours, even when its file lies in the deploy
\* directory and its command succeeded (lib.ts:392-395, 404-411).
CarriesThePayload(cmd) ==
    /\ cmd.atNode = "module" /\ cmd.ns = "ours" /\ ~cmd.extra
    /\ cmd.signers = "one" /\ cmd.scope = "gas"

OwnershipIsEarned ==
    \A c \in Chain : Ownership(c) = "ours" => CarriesThePayload(holder[c])

\* Whatever the gas key signs and the chain accepts proves the chain is the operator's:
\* the guards that sign a file and those that read it as proof are two separate lists
\* (lib.ts:280-316 and 412-427), and a file that only the first accepts would lose the
\* chain it deployed.  It is said of files of the deploy directory.
SignedIsOurs == \A c \in Chain : holder[c] \in signed => Ownership(c) = "ours"

\* The node reads in every submitted command the code that was judged here, which is
\* this checkout's module in this namespace or defines nothing (lib.ts:346-350).
RelayedIsJudged ==
    \A s \in sent :
        /\ s.cmd.atNode = s.cmd.code /\ s.cmd.atNode # "definition"
        /\ s.cmd.atNode = "module" => s.cmd.ns = "ours"

\* Nothing signed leaves the machine without --send, whatever the files carry
\* (send-signed.ts:17-18, lib.ts:318-330).
ChecksLeakNothing == \A body \in heard : body.sigs = "none"

\* Re-running after a partial session is safe however long ago it was: a run of the
\* same mode skips every command that landed, and does not stop at it
\* (send-signed.ts:27-29).
RerunSkipsWhatLanded ==
    \A s \in sent : s.cmd \in done => Spendable(s.cmd, s.withGasKey)
=============================================================================
