------------------------------ MODULE BlockHistory ------------------------------
(***************************************************************************)
(* The Pact module pact/modules/block-history.pact on one chain that may   *)
(* reorganise.                                                             *)
(*                                                                         *)
(* A chain is the sequence of its closed blocks; transactions run in the   *)
(* open block, whose height is Len(chain), and (chain-data) shows them the *)
(* block before it.  The database is what the open block has made of the   *)
(* state the closed blocks left behind; `base` keeps that state for every  *)
(* height, because a reorganisation goes back to one of them.              *)
(*                                                                         *)
(* Abstractions.  A row key is the height itself: the padded decimal of    *)
(* lines 102-107 is a bijection on the accepted heights (module RowKey).   *)
(* A header is a hash and a time.  The chain-id, the documentation strings *)
(* and the text of the errors are left out.  A reorganisation that jumps   *)
(* to a longer fork is a Reorg followed by the Mine steps of that fork, so *)
(* readers also see the prefixes in between.                               *)
(***************************************************************************)
EXTENDS Integers, Sequences

CONSTANTS
    Hash,           \* block hashes
    NoHash,         \* the empty string
    Time,           \* block creation times
    Epoch,          \* the time `latest` gives before anything is recorded
    Sender,         \* gas-paying accounts
    NoRow,          \* a key with no row in a table
    MaxHeight,      \* MAX-HEIGHT, the first height that has no key
    Plantings,      \* the table contents a deploy transaction may leave behind
    Depth,          \* confirmations after which a block is final
    TipBound        \* bound on the number of closed blocks

VARIABLES
    chain,          \* the closed blocks of this fork: Seq(Header)
    world,          \* the database as the open block sees it
    base,           \* base[i]: the database when the block of height i - 1 opened
    settled,        \* how many blocks no reorganisation can undo any more
    accepted        \* the rows an off-chain reader has acted on

vars == <<chain, world, base, settled, accepted>>

Key == 0..(MaxHeight - 1)
Header == [hash : Hash, time : Time]
Row == [hash : Hash \cup {NoHash}, time : Time, by : Sender]
LatestRow == [height : Int, hash : Hash \cup {NoHash}, time : Time \cup {Epoch}]
Table == [Key -> Row \cup {NoRow}]

\* What a transaction that deploys the module may leave in the two tables.
Planting == [attested : Table, latest : LatestRow \cup {NoRow}]
EmptyTables == [attested |-> [k \in Key |-> NoRow], latest |-> NoRow]

\* The database: whether the module is deployed, its two tables, and two
\* histories the properties need: what the deploy transaction left in the tables
\* and the heights of the ATTESTED events of this fork, in order.
World == [deployed : BOOLEAN, attested : Table, latest : LatestRow \cup {NoRow},
          planted : Planting, events : Seq(Key)]

ASSUME HashAssumption == NoHash \notin Hash
ASSUME RowAssumption == NoRow \notin Row /\ NoRow \notin LatestRow
ASSUME MaxHeightAssumption == MaxHeight \in Nat
ASSUME PlantingsAssumption == Plantings \subseteq Planting
ASSUME DepthAssumption == Depth \in Nat
ASSUME TipBoundAssumption == TipBound \in Nat

--------------------------------------------------------------------------------
(* The engine's (chain-data), as a transaction of the open block sees it. *)

BlockHeight == Len(chain)
PrevBlockHash == IF chain = <<>> THEN NoHash ELSE chain[Len(chain)].hash
PrevBlockTime == chain[Len(chain)].time

--------------------------------------------------------------------------------
(* The reads.  GetAttested aborts where it gives NoRow. *)

KeyInRange(height) == height >= 0 /\ height < MaxHeight

GetAttested(w, height) ==
    IF KeyInRange(height) THEN w.attested[height] ELSE NoRow

HasAttested(w, height) ==
    GetAttested(w, height) # NoRow /\ GetAttested(w, height).hash # NoHash

Latest(w) ==
    IF w.latest = NoRow THEN [height |-> -1, hash |-> NoHash, time |-> Epoch]
                        ELSE w.latest

--------------------------------------------------------------------------------
(* Deploying. *)

\* Governance is not evaluated on a first deploy and fails ever after.
GovernanceHolds == TRUE             \* mutant: an upgrade is possible
GOVERNANCE == FALSE

\* The transaction that installs the module creates its tables and may write
\* to them.  Installing it again is an upgrade, which GOVERNANCE decides.
Deploy ==
    /\ world.deployed => GOVERNANCE
    /\ \E p \in Plantings :
         world' = [deployed |-> TRUE,
                   attested |-> p.attested,
                   latest   |-> p.latest,
                   planted  |-> p,
                   events   |-> <<>>]
    /\ UNCHANGED <<chain, base, settled, accepted>>

--------------------------------------------------------------------------------
(* attest. *)

\* The enforces of attest and of key: outside them the transaction aborts.
Enforced == BlockHeight > 0 /\ PrevBlockHash # NoHash /\ KeyInRange(BlockHeight - 1)

NothingIsADuplicate == FALSE        \* mutant: a second call reaches the insert
AlreadyRecorded == Enforced /\ HasAttested(world, BlockHeight - 1)

\* insert refuses a key that has a row, so a planted row with an empty hash
\* makes the transaction abort.
RecordableByWrite ==                \* mutant: write in place of insert
    Enforced /\ ~HasAttested(world, BlockHeight - 1)

Recordable ==
    /\ Enforced
    /\ ~HasAttested(world, BlockHeight - 1)
    /\ world.attested[BlockHeight - 1] = NoRow

Aborts == world.deployed /\ ~AlreadyRecorded /\ ~Recordable

\* Mutants: the row goes under the open block's own height; `latest` is only
\* written where there was none.
RecordedOwnHeight(w, by) ==
    LET h == BlockHeight IN
    [w EXCEPT
        !.attested[h] = [hash |-> PrevBlockHash, time |-> PrevBlockTime, by |-> by],
        !.latest = [height |-> h, hash |-> PrevBlockHash, time |-> PrevBlockTime],
        !.events = Append(@, h)]

RecordedLatestOnce(w, by) ==
    LET h == BlockHeight - 1 IN
    [w EXCEPT
        !.attested[h] = [hash |-> PrevBlockHash, time |-> PrevBlockTime, by |-> by],
        !.latest = IF @ = NoRow
                   THEN [height |-> h, hash |-> PrevBlockHash, time |-> PrevBlockTime] ELSE @,
        !.events = Append(@, h)]

Recorded(w, by) ==
    LET h == BlockHeight - 1 IN
    [w EXCEPT
        !.attested[h] = [hash |-> PrevBlockHash, time |-> PrevBlockTime, by |-> by],
        !.latest = [height |-> h, hash |-> PrevBlockHash, time |-> PrevBlockTime],
        !.events = Append(@, h)]

\* Mutant: the event does not wait for the insert.
AttestAlwaysEmits(by) ==
    /\ world.deployed
    /\ world' = IF Recordable THEN Recorded(world, by)
                ELSE IF AlreadyRecorded
                THEN [world EXCEPT !.events = Append(@, BlockHeight - 1)] ELSE world
    /\ UNCHANGED <<chain, base, settled, accepted>>

\* One transaction calling attest.  A call that aborts, or finds the height
\* already recorded, leaves the database as it was.
Attest(by) ==
    /\ world.deployed
    /\ world' = IF Recordable THEN Recorded(world, by) ELSE world
    /\ UNCHANGED <<chain, base, settled, accepted>>

--------------------------------------------------------------------------------
(* The chain and a reader that is not on it. *)

\* The open block is closed and the next one opens.  A block is final once
\* Depth blocks follow it.
Mine ==
    /\ Len(chain) < TipBound
    /\ \E header \in Header : chain' = Append(chain, header)
    /\ base' = Append(base, world)
    /\ settled' = IF Len(chain') - Depth > settled THEN Len(chain') - Depth ELSE settled
    /\ UNCHANGED <<world, accepted>>

\* The chain keeps its first k blocks and forgets the others, with every
\* write their transactions made.  k = Len(chain) drops only the open block.
Reorg(k) ==
    /\ settled <= k
    /\ chain' = SubSeq(chain, 1, k)
    /\ base' = SubSeq(base, 1, k + 1)
    /\ world' = base[k + 1]
    /\ UNCHANGED <<settled, accepted>>

\* An off-chain reader reads the database as the last closed block left it.
Tip == base[Len(base)]

\* The keys whose rows the deploy transaction of w wrote, and those whose rows
\* attest wrote.
PlantedKeys(w) == {h \in Key : w.planted.attested[h] # NoRow}
Witnessed(w) == {h \in Key : w.attested[h] # NoRow} \ PlantedKeys(w)

\* It acts on the row of a height h only when the block that wrote it, the
\* block of height h + 1, is final: a final block h does not suffice.  It leaves
\* aside a row the deploy transaction planted, which a block of any height may
\* have written and nobody vouches for.
ConfirmedOneShort(h) == h < settled     \* mutant: waits for block h only
Confirmed(h) == h + 1 < settled

Accept(h) ==
    /\ Confirmed(h)
    /\ h \in Witnessed(Tip)
    /\ accepted' = accepted \cup {<<h, GetAttested(Tip, h)>>}
    /\ UNCHANGED <<chain, world, base, settled>>

--------------------------------------------------------------------------------

Undeployed == [deployed |-> FALSE, attested |-> EmptyTables.attested,
               latest |-> NoRow, planted |-> EmptyTables, events |-> <<>>]

Init ==
    /\ chain = <<>>
    /\ world = Undeployed
    /\ base = <<Undeployed>>
    /\ settled = 0
    /\ accepted = {}

Next ==
    \/ Deploy
    \/ \E by \in Sender : Attest(by)
    \/ Mine
    \/ \E k \in 0..Len(chain) : Reorg(k)
    \/ \E h \in Key : Accept(h)

Spec == Init /\ [][Next]_vars

--------------------------------------------------------------------------------
(* Properties. *)

TypeOK ==
    /\ chain \in Seq(Header)
    /\ world \in World
    /\ base \in Seq(World)
    /\ Len(base) = Len(chain) + 1
    /\ settled \in 0..Len(chain)
    /\ accepted \subseteq (Key \X Row)

\* Every row attest wrote says what the fork it is read on holds at its height,
\* in the open block and in the state every closed block left behind: rows are
\* unforgeable and fork-consistent (block-history.pact:10-16), whatever was
\* reorganised, planted or attempted before.
RowsMatchFork(w, fork, height) ==
    \A h \in Witnessed(w) :
        /\ h < height
        /\ w.attested[h].hash = fork[h + 1].hash
        /\ w.attested[h].time = fork[h + 1].time

RowsAreForkConsistent ==
    /\ RowsMatchFork(world, chain, Len(chain))
    /\ \A i \in 1..Len(base) : RowsMatchFork(base[i], chain, i - 1)

TopMatches(w) ==
    IF Witnessed(w) = {}
    THEN w.latest = w.planted.latest
    ELSE LET top == Latest(w).height IN
         /\ top \in Witnessed(w)
         /\ \A h \in Witnessed(w) : h <= top
         /\ Latest(w).hash = w.attested[top].hash
         /\ Latest(w).time = w.attested[top].time

\* `latest` is the highest row attest wrote, although it is written without
\* being compared with what was there (lines 128-129): after the first record
\* nothing of a planted `latest` survives, and before it `latest` is what the
\* deploy transaction left, the height -1 of an empty table if it left nothing.
LatestIsHighest == TopMatches(world)

EventsMatch(w) ==
    /\ {w.events[i] : i \in DOMAIN w.events} = Witnessed(w)
    /\ \A i, j \in DOMAIN w.events : i < j => w.events[i] < w.events[j]

\* One ATTESTED event for each row attest wrote, and in the order of their
\* heights, so an event index replays to the table (lines 94-97): a duplicate
\* call, an aborted one and a reorganised one leave no event behind.
OneEventPerRow == EventsMatch(world)

\* attest never aborts, however many recorders call it in whatever block, except
\* at genesis, past the last height that has a key, or on a row with an empty
\* hash that only the deploy transaction can have planted (lines 113-115).
AttestNeverAborts ==
    Aborts =>
        \/ BlockHeight \notin 1..MaxHeight
        \/ BlockHeight - 1 \in PlantedKeys(world)

\* A row an off-chain reader acted on after waiting for the block that wrote it
\* to be final still stands, both at the tip and in the open block (lines 14-16).
AcceptedRowsStand ==
    \A entry \in accepted :
        /\ world.attested[entry[1]] = entry[2]
        /\ Tip.attested[entry[1]] = entry[2]

\* Once the module is deployed a fork only ever gains rows: no transaction
\* rewrites or removes a row, its payer included, and no gap below the block
\* before the open one is ever filled in (lines 18-25).
Reorganises == \E k \in 0..Len(chain) : Reorg(k)

GainsOnlyTheWitnessed ==
    \A h \in Key :
        world'.attested[h] # world.attested[h] =>
            world.attested[h] = NoRow /\ h = Len(chain) - 1

RowsArePermanent == [][world.deployed => GainsOnlyTheWitnessed \/ Reorganises]_vars

\* What the three invariants above rest on: they hold of the open block and of
\* the state every closed block left behind, which a reorganisation goes back to,
\* and planted rows stay as they were planted, so attest never shares a key.
WorldOK(w, fork, height) ==
    /\ RowsMatchFork(w, fork, height)
    /\ TopMatches(w)
    /\ EventsMatch(w)
    /\ \A h \in PlantedKeys(w) : w.attested[h] = w.planted.attested[h]

HistoryOK ==
    /\ WorldOK(world, chain, Len(chain))
    /\ \A i \in 1..Len(base) : WorldOK(base[i], chain, i - 1)

\* The module implements the abstract record: what the rows attest wrote say is
\* exactly what was witnessed, and a reorganisation takes back exactly what the
\* transactions of the abandoned blocks wrote.
Record == INSTANCE BlockRecord WITH
    Capacity <- MaxHeight,
    fork <- chain,
    record <- {<<h, [hash |-> world.attested[h].hash, time |-> world.attested[h].time]>> :
                   h \in Witnessed(world)}

ImplementsRecord == Record!Spec
=============================================================================
