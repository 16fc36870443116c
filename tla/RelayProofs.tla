------------------------------ MODULE RelayProofs ------------------------------
(***************************************************************************)
(* Theorems about Relay for any chains, files and clocks.                  *)
(***************************************************************************)
EXTENDS Relay, TLAPS

--------------------------------------------------------------------------------
(* The invariant.                                                            *)

\* A command that passed every check of a run of this mode.
Judged(cmd, withGasKey) ==
    /\ cmd \in Cmd /\ cmd.atNode = cmd.code
    /\ Spendable(cmd, withGasKey)

\* The deploy's own payload for some chain, and its file is in the directory.
Vouched(cmd) ==
    \E f \in dir : f.cmd = cmd /\ Proves(f)

Run == [step : {"idle", "status", "preflight"}, withGasKey : BOOLEAN, send : BOOLEAN,
        todo : SUBSET File, items : SUBSET File]

RunOK ==
    /\ run \in Run
    /\ run.step = "status" => run.todo \subseteq dir /\ run.items \subseteq dir
    /\ run.step = "preflight" =>
         run.todo \subseteq run.items /\ \A f \in run.items : Judged(f.cmd, run.withGasKey)

\* One command has the name, and it is there for whoever asks.
HolderOK ==
    /\ holder \in [Chain -> Cmd \cup {Free}]
    /\ done \subseteq Cmd
    /\ \A c \in Chain : holder[c] # Free => holder[c] \in done /\ holder[c].chain = c
    /\ \A cmd \in done : TakesTheName(cmd) => cmd.chain \in Chain /\ holder[cmd.chain] = cmd

RelayOK ==
    /\ dir \subseteq Offered
    /\ RunOK
    /\ HolderOK
    /\ \A cmd \in signed : cmd \in Cmd /\ Vouched(cmd)
    /\ \A s \in sent : Judged(s.cmd, s.withGasKey)
    /\ ChecksLeakNothing

--------------------------------------------------------------------------------
(* What the checks establish.                                                *)

LEMMA FileFields == ASSUME NEW f \in File
                    PROVE  /\ f.cmd \in Cmd
                           /\ [f EXCEPT !.sigs = "good"] \in File /\ [f EXCEPT !.sigs = "good"].cmd = f.cmd
                           /\ UnsignedBody(f).sigs = "none"
BY DEF File, UnsignedBody

\* The gas key signs nothing its own proof would not accept.
LEMMA SignableProves ==
    ASSUME NEW f \in File, Signable(f)
    PROVE  Proves(f) /\ Spendable(f.cmd, TRUE)
<1> DEFINE own == [chain |-> f.cmd.chain, payer |-> "ours", signer |-> "ours", limit |-> "ours",
                   price |-> "ours", created |-> f.cmd.created, ttl |-> "ours"]
<1>1. /\ FileOK(f) /\ f.cmd.network = "ours" /\ IsExact(f.cmd)
      /\ f.cmd.code = "module" /\ ContentOK(f.cmd)
      /\ f.cmd = Build(own)
  BY DEF Signable
<1>2. Relayable(f.cmd) /\ CommandKind(f.cmd) = "module"
  BY <1>1 DEF Relayable, CommandKind
<1>3. /\ f.cmd.payer = "ours" /\ f.cmd.signer = "ours" /\ f.cmd.limit = "ours"
      /\ f.cmd.price = "ours" /\ f.cmd.ttl = "ours"
  BY <1>1 DEF Build
<1>4. Build(f.cmd) = Build(own)
  BY <1>3 DEF Build
<1> QED
  BY <1>1, <1>2, <1>4 DEF Proves, Spendable

LEMMA AcceptsJudged ==
    ASSUME dir \subseteq Offered, RunOK, NEW f \in dir, Accepts(f)
    PROVE  Judged(f.cmd, run.withGasKey) /\ (run.withGasKey => Proves(f))
<1>1. f \in File /\ f \in Offered /\ f.cmd \in Cmd
  BY OfferedAssumption, FileFields
<1>2. CASE run.withGasKey
  <2>1. Signable(f)
    BY <1>2 DEF Accepts
  <2>2. Proves(f) /\ Spendable(f.cmd, TRUE)
    BY <1>1, <2>1, SignableProves
  <2>3. f.cmd.atNode = f.cmd.code
    BY <1>1, <2>2, OfferedAssumption DEF Spendable, Relayable, IsExact
  <2> QED
    BY <1>1, <1>2, <2>2, <2>3 DEF Judged, Spendable
<1>3. CASE ~run.withGasKey
  <2>1. Relayable(f.cmd)
    BY <1>3 DEF Accepts
  <2>2. f.cmd.atNode = f.cmd.code
    BY <1>1, <2>1, OfferedAssumption DEF Relayable, IsExact
  <2> QED
    BY <1>1, <1>3, <2>1, <2>2 DEF Judged, Spendable
<1> QED
  BY <1>2, <1>3

--------------------------------------------------------------------------------
(* The steps.                                                                *)

LEMMA RestingOK == Resting \in Run /\ Resting.step = "idle" /\ Resting.todo = {} /\ Resting.items = {}
BY DEF Resting, Run

LEMMA LandOK ==
    ASSUME HolderOK, NEW cmd \in Cmd, Land(cmd)
    PROVE  HolderOK'
<1>1. CASE TakesTheName(cmd) /\ Passes(cmd)
  <2>1. /\ done' = done \cup {cmd} /\ holder' = [holder EXCEPT ![cmd.chain] = cmd]
        /\ cmd.chain \in Chain /\ holder[cmd.chain] = Free
    BY <1>1 DEF Land, Passes, CanLand, Cmd
  <2>2. \A d \in done : TakesTheName(d) => d.chain # cmd.chain
    BY <2>1, FreeAssumption DEF HolderOK
  <2>3. holder' \in [Chain -> Cmd \cup {Free}]
    BY <2>1 DEF HolderOK
  <2>4. \A c \in Chain : holder'[c] # Free => holder'[c] \in done' /\ holder'[c].chain = c
    BY <2>1 DEF HolderOK
  <2>5. \A d \in done' : TakesTheName(d) => d.chain \in Chain /\ holder'[d.chain] = d
    BY <2>1, <2>2 DEF HolderOK
  <2> QED
    BY <2>1, <2>3, <2>4, <2>5 DEF HolderOK, TakesTheName
<1>2. CASE ~(TakesTheName(cmd) /\ Passes(cmd))
  <2>1. holder' = holder /\ (done' = done \/ (done' = done \cup {cmd} /\ Passes(cmd)))
    BY <1>2 DEF Land
  <2>2. done' = done \/ (done' = done \cup {cmd} /\ ~TakesTheName(cmd))
    BY <1>2, <2>1
  <2> QED
    BY <2>1, <2>2 DEF HolderOK, TakesTheName
<1> QED
  BY <1>1, <1>2

\* What the run does to the rest: nothing, but for what it signs, sends or asks.
LEMMA RunAlone ==
    ASSUME RelayOK, RunOK', UNCHANGED <<chainVars, dir, signed, sent, heard>>
    PROVE  RelayOK'
BY DEF RelayOK, HolderOK, Vouched, ChecksLeakNothing, chainVars

LEMMA NextOK == RelayOK /\ [Next]_vars => RelayOK'
<1> SUFFICES ASSUME RelayOK, [Next]_vars PROVE RelayOK'
  OBVIOUS
<1>0. dir \subseteq Offered /\ dir \subseteq File /\ RunOK
  BY OfferedAssumption DEF RelayOK
<1>1. ASSUME NEW cmd \in Cmd, Land(cmd) PROVE RelayOK'
  <2>1. HolderOK'
    BY <1>1, LandOK DEF RelayOK
  <2> QED
    BY <1>1, <2>1 DEF Land, RelayOK, RunOK, Vouched, ChecksLeakNothing
<1>2. CASE SentLands
  <2>1. PICK s \in sent : Land(s.cmd)
    BY <1>2 DEF SentLands
  <2>2. s.cmd \in Cmd
    BY DEF RelayOK, Judged
  <2> QED
    BY <1>1, <2>1, <2>2
<1>3. CASE StrangerLands
  <2>1. PICK f \in Offered : Land(f.cmd)
    BY <1>3 DEF StrangerLands
  <2>2. f.cmd \in Cmd
    BY OfferedAssumption, FileFields
  <2> QED
    BY <1>1, <2>1, <2>2
<1>4. CASE Tick
  BY <1>4 DEF Tick, RelayOK, RunOK, HolderOK, Vouched, ChecksLeakNothing
<1>5. CASE Load
  <2>1. PICK named \in SUBSET dir, withGasKey \in BOOLEAN, send \in BOOLEAN :
          run' = [step |-> "status", withGasKey |-> withGasKey, send |-> send,
                  todo |-> named, items |-> {}]
    BY <1>5 DEF Load
  <2>2. UNCHANGED <<chainVars, dir, signed, sent, heard>>
    BY <1>5 DEF Load
  <2>3. RunOK'
    BY <1>0, <2>1, <2>2 DEF RunOK, Run
  <2> QED
    BY <2>2, <2>3, RunAlone
<1>6. CASE Sign
  <2> DEFINE items == IF run.withGasKey THEN {[f EXCEPT !.sigs = "good"] : f \in run.items} ELSE run.items
  <2>1. /\ run.step = "status" /\ \A f \in run.items : Accepts(f)
        /\ run' = [run EXCEPT !.step = "preflight", !.todo = items, !.items = items]
        /\ signed' = IF run.withGasKey THEN signed \cup {f.cmd : f \in items} ELSE signed
        /\ UNCHANGED <<chainVars, dir, sent, heard>>
    BY <1>6 DEF Sign
  <2>2. run.items \subseteq dir /\ run.items \subseteq File
    BY <1>0, <2>1 DEF RunOK
  <2>3. \A f \in run.items : Judged(f.cmd, run.withGasKey) /\ (run.withGasKey => Proves(f))
    BY <1>0, <2>1, <2>2, AcceptsJudged
  <2>4. \A f \in items : f \in File /\ \E g \in run.items : g.cmd = f.cmd
    BY <2>2, FileFields
  <2> HIDE DEF items
  <2>5. PICK mode \in BOOLEAN : mode = run.withGasKey
    BY <1>0 DEF RunOK, Run
  <2>6. /\ run' \in Run /\ run'.step = "preflight" /\ run'.todo = items /\ run'.items = items
        /\ run'.withGasKey = mode
    <3>1. run \in Run /\ items \in SUBSET File
      BY <1>0, <2>4 DEF RunOK
    <3> QED
      BY <2>1, <2>5, <3>1 DEF Run
  <2>7. \A f \in items : Judged(f.cmd, mode) /\ (mode => Vouched(f.cmd))
    BY <2>2, <2>3, <2>4, <2>5 DEF Vouched
  <2>8. RunOK'
    BY <2>6, <2>7 DEF RunOK, Judged, Spendable, Relayable, CommandKind, IsExact, ContentOK
  <2>9. \A cmd \in signed' : cmd \in Cmd /\ Vouched(cmd)
    BY <2>1, <2>5, <2>7 DEF RelayOK, Judged
  <2> QED
    BY <2>1, <2>8, <2>9 DEF RelayOK, HolderOK, Vouched, ChecksLeakNothing, chainVars
<1>7. CASE Submit
  <2>1. /\ run.step = "preflight" /\ run' = Resting
        /\ sent' = sent \cup {[cmd |-> f.cmd, withGasKey |-> run.withGasKey] : f \in run.items}
        /\ UNCHANGED <<chainVars, dir, signed, heard>>
    BY <1>7 DEF Submit
  <2>2. \A s \in sent' : Judged(s.cmd, s.withGasKey)
    BY <1>0, <2>1 DEF RelayOK, RunOK
  <2>3. RunOK'
    BY <2>1, RestingOK DEF RunOK
  <2> QED
    BY <2>1, <2>2, <2>3 DEF RelayOK, HolderOK, Vouched, ChecksLeakNothing, chainVars
<1>8. CASE End
  <2>1. RunOK'
    BY <1>8, RestingOK DEF End, RunOK
  <2> QED
    BY <1>8, <2>1, RunAlone DEF End
<1>9. ASSUME NEW f \in run.todo, Skip(f) \/ Pend(f) PROVE RelayOK'
  <2>1. UNCHANGED <<chainVars, dir, signed, sent, heard>>
    BY <1>9 DEF Skip, Pend
  <2>2. /\ run.step = "status"
        /\ \/ run' = [run EXCEPT !.todo = @ \ {f}]
           \/ run' = [run EXCEPT !.todo = @ \ {f}, !.items = @ \cup {f}]
    BY <1>9 DEF Skip, Pend
  <2>3. run \in Run /\ run.todo \subseteq dir /\ run.items \subseteq dir /\ f \in dir /\ f \in File
    BY <1>0, <2>2 DEF RunOK
  <2>4. CASE run' = [run EXCEPT !.todo = @ \ {f}]
    <3>1. run' \in Run /\ run'.step = "status" /\ run'.todo = run.todo \ {f} /\ run'.items = run.items
      BY <2>2, <2>3, <2>4 DEF Run
    <3>2. RunOK'
      BY <2>1, <2>3, <3>1 DEF RunOK
    <3> QED
      BY <2>1, <3>2, RunAlone
  <2>5. CASE run' = [run EXCEPT !.todo = @ \ {f}, !.items = @ \cup {f}]
    <3>1. /\ run' \in Run /\ run'.step = "status" /\ run'.todo = run.todo \ {f}
          /\ run'.items = run.items \cup {f}
      BY <2>2, <2>3, <2>5 DEF Run
    <3>2. RunOK'
      BY <2>1, <2>3, <3>1 DEF RunOK
    <3> QED
      BY <2>1, <3>2, RunAlone
  <2> QED
    BY <2>2, <2>4, <2>5
<1>10. ASSUME NEW f \in run.todo, Preflight(f) PROVE RelayOK'
  <2>1. /\ run.step = "preflight" /\ UNCHANGED <<chainVars, dir, signed, sent>>
        /\ heard' = IF run.send THEN heard ELSE heard \cup {Request(f, run.send)}
        /\ run' = IF Passes(f.cmd) THEN [run EXCEPT !.todo = @ \ {f}] ELSE Resting
    BY <1>10 DEF Preflight
  <2>2. ChecksLeakNothing'
    <3>1. f \in File
      BY <1>0 DEF RunOK, Run
    <3>2. UnsignedBody(f).sigs = "none"
      BY <3>1, FileFields
    <3>3. \A body \in heard' : body \in heard \/ body = UnsignedBody(f)
      BY <2>1 DEF Request
    <3> QED
      BY <3>2, <3>3 DEF RelayOK, ChecksLeakNothing
  <2>3. RunOK'
    <3>1. CASE run' = Resting
      BY <3>1, RestingOK DEF RunOK
    <3>2. CASE run' = [run EXCEPT !.todo = @ \ {f}]
      BY <1>0, <2>1, <3>2 DEF RunOK, Run
    <3> QED
      BY <2>1, <3>1, <3>2
  <2> QED
    BY <2>1, <2>2, <2>3 DEF RelayOK, HolderOK, Vouched, chainVars
<1>11. CASE UNCHANGED vars
  BY <1>11 DEF vars, chainVars, RelayOK, RunOK, HolderOK, Vouched, ChecksLeakNothing
<1> QED
  BY <1>2, <1>3, <1>4, <1>5, <1>6, <1>7, <1>8, <1>9, <1>10, <1>11 DEF Next

LEMMA InitOK == Init => RelayOK
<1> SUFFICES ASSUME Init PROVE RelayOK
  OBVIOUS
<1>1. dir \subseteq Offered /\ done = {} /\ signed = {} /\ sent = {} /\ heard = {}
  BY DEF Init
<1>2. RunOK
  BY RestingOK DEF Init, RunOK
<1>3. HolderOK
  BY DEF Init, HolderOK
<1> QED
  BY <1>1, <1>2, <1>3 DEF RelayOK, ChecksLeakNothing

--------------------------------------------------------------------------------
(* The theorems.                                                             *)

\* Nothing signed leaves the machine before --send (send-signed.ts:17-18).
THEOREM ChecksLeak == Spec => []ChecksLeakNothing
<1>1. RelayOK => ChecksLeakNothing
  BY DEF RelayOK
<1> QED
  BY <1>1, InitOK, NextOK, PTL DEF Spec

\* What is submitted was judged as the node reads it (lib.ts:346-350).
THEOREM RelayedJudged == Spec => []RelayedIsJudged
<1>1. RelayOK => RelayedIsJudged
  BY DEF RelayOK, Judged, Spendable, Relayable, ContentOK, CommandKind, Cmd, Code, RelayedIsJudged
<1> QED
  BY <1>1, InitOK, NextOK, PTL DEF Spec

\* What landed is skipped by the next run of the same mode (send-signed.ts:27-29).
THEOREM RerunSkips == Spec => []RerunSkipsWhatLanded
<1>1. RelayOK => RerunSkipsWhatLanded
  BY DEF RelayOK, Judged, RerunSkipsWhatLanded
<1> QED
  BY <1>1, InitOK, NextOK, PTL DEF Spec

\* What the gas key signed and the chain took is proof the chain is the operator's
\* (lib.ts:280-316, 412-427).
THEOREM SignedOurs == Spec => []SignedIsOurs
<1>1. ASSUME RelayOK, NEW c \in Chain, holder[c] \in signed PROVE Ownership(c) = "ours"
  <2>1. holder[c] # Free /\ holder[c] \in done /\ holder[c].chain = c
    BY <1>1, FreeAssumption DEF RelayOK, HolderOK
  <2>2. PICK f \in dir : f.cmd = holder[c] /\ Proves(f)
    BY <1>1 DEF RelayOK, Vouched
  <2>3. holder[c] \in ProofKeys(c)
    BY <2>1, <2>2 DEF ProofKeys
  <2> QED
    BY <2>1, <2>3 DEF Ownership
<1>2. RelayOK => SignedIsOurs
  BY <1>1 DEF SignedIsOurs
<1> QED
  BY <1>2, InitOK, NextOK, PTL DEF Spec

\* A chain is called the operator's only where exactly the deploy's payload carried the
\* module: a successful command that takes the name is the one that holds it
\* (lib.ts:392-395, 404-411).
THEOREM OwnershipEarned == Spec => []OwnershipIsEarned
<1>1. ASSUME RelayOK, NEW c \in Chain, Ownership(c) = "ours" PROVE CarriesThePayload(holder[c])
  <2>1. PICK cmd \in ProofKeys(c) : cmd \in done
    BY <1>1 DEF Ownership
  <2>2. PICK f \in dir : f.cmd = cmd /\ Proves(f) /\ cmd.chain = c
    BY <2>1 DEF ProofKeys
  <2>3. ContentOK(cmd) /\ cmd = Build(cmd)
    BY <2>2 DEF Proves, Relayable
  <2>4. CarriesThePayload(cmd) /\ TakesTheName(cmd)
    BY <2>3 DEF Build, ContentOK, CarriesThePayload, TakesTheName
  <2>5. holder[c] = cmd
    BY <1>1, <2>1, <2>2, <2>4 DEF RelayOK, HolderOK
  <2> QED
    BY <2>4, <2>5
<1>2. RelayOK => OwnershipIsEarned
  BY <1>1 DEF OwnershipIsEarned
<1> QED
  BY <1>2, InitOK, NextOK, PTL DEF Spec
=============================================================================
