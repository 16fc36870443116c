--------------------------- MODULE BlockHistoryProofs ---------------------------
(***************************************************************************)
(* Theorems about BlockHistory for every set of hashes, times and payers,  *)
(* every last height, every finality depth and every content a deploy      *)
(* transaction may leave in the tables.                                    *)
(***************************************************************************)
EXTENDS BlockHistory, SequenceTheorems, TLAPS

--------------------------------------------------------------------------------
(* Types. *)

LEMMA UndeployedType == Undeployed \in World
  BY DEF Undeployed, World, EmptyTables, Table, Planting

\* What a recording attest writes is well typed when its enforces pass.
LEMMA RecordedType ==
    ASSUME TypeOK, Recordable, NEW by \in Sender
    PROVE  Recorded(world, by) \in World
<1> DEFINE h == BlockHeight - 1
           header == chain[Len(chain)]
<1>1. h \in Key /\ Len(chain) \in 1..Len(chain)
  BY MaxHeightAssumption DEF TypeOK, Recordable, Enforced, KeyInRange, Key, BlockHeight
<1>2. header \in Header
  BY <1>1, ElementOfSeq DEF TypeOK
<1>3. header.hash = PrevBlockHash /\ header.hash \in Hash /\ header.time = PrevBlockTime /\ header.time \in Time
  BY <1>1, <1>2 DEF PrevBlockHash, PrevBlockTime, Header, Recordable, Enforced, BlockHeight
<1> DEFINE row == [hash |-> PrevBlockHash, time |-> PrevBlockTime, by |-> by]
           top == [height |-> h, hash |-> PrevBlockHash, time |-> PrevBlockTime]
<1>4. row \in Row \cup {NoRow} /\ top \in LatestRow
  BY <1>1, <1>3 DEF Row, LatestRow, Key
<1>5. Append(world.events, h) \in Seq(Key)
  BY <1>1, AppendProperties DEF TypeOK, World
<1> HIDE DEF h, row, top
<1>6. [world.attested EXCEPT ![h] = row] \in Table
  BY <1>1, <1>4 DEF TypeOK, World, Table
<1>7. Recorded(world, by) =
        [world EXCEPT !.attested = [world.attested EXCEPT ![h] = row],
                      !.latest = top, !.events = Append(world.events, h)]
  BY <1>1 DEF Recorded, h, row, top, TypeOK, World, Table
<1> QED
  BY <1>4, <1>5, <1>6, <1>7 DEF TypeOK, World

LEMMA InitType == Init => TypeOK
  BY UndeployedType DEF Init, TypeOK

LEMMA NextType == TypeOK /\ [Next]_vars => TypeOK'
<1> SUFFICES ASSUME TypeOK, [Next]_vars PROVE TypeOK'
  OBVIOUS
<1>1. CASE Deploy
  <2> PICK p \in Plantings : world' = [deployed |-> TRUE, attested |-> p.attested,
                              latest |-> p.latest, planted |-> p, events |-> <<>>]
    BY <1>1 DEF Deploy
  <2> world' \in World
    BY PlantingsAssumption DEF World, Planting
  <2> QED
    BY <1>1 DEF Deploy, TypeOK
<1>2. CASE \E by \in Sender : Attest(by)
  <2> PICK by \in Sender : Attest(by)
    BY <1>2
  <2> world' \in World
    BY RecordedType DEF Attest, TypeOK
  <2> QED
    BY DEF Attest, TypeOK
<1>3. CASE Mine
  <2> PICK header \in Header : chain' = Append(chain, header)
    BY <1>3 DEF Mine
  <2>1. chain' \in Seq(Header) /\ Len(chain') = Len(chain) + 1
    BY AppendProperties DEF TypeOK
  <2>2. base' \in Seq(World) /\ Len(base') = Len(base) + 1
    BY <1>3, AppendProperties DEF Mine, TypeOK
  <2>3. Len(chain) \in Nat
    BY LenProperties DEF TypeOK
  <2>4. settled' \in 0..Len(chain')
    BY <1>3, <2>1, <2>3, DepthAssumption DEF Mine, TypeOK
  <2> QED
    BY <1>3, <2>1, <2>2, <2>4 DEF Mine, TypeOK
<1>4. CASE \E k \in 0..Len(chain) : Reorg(k)
  <2> PICK k \in 0..Len(chain) : Reorg(k)
    BY <1>4
  <2>1. Len(chain) \in Nat /\ Len(base) = Len(chain) + 1
    BY LenProperties DEF TypeOK
  <2>2. chain' \in Seq(Header) /\ Len(chain') = k
    <3>1. \A i \in 1..k : chain[i] \in Header
      BY <2>1, ElementOfSeq DEF TypeOK
    <3> QED
      BY <2>1, <3>1, SubSeqProperties DEF Reorg
  <2>3. base' \in Seq(World) /\ Len(base') = k + 1 /\ world' \in World
    <3>1. \A i \in 1..(k + 1) : base[i] \in World
      BY <2>1, ElementOfSeq DEF TypeOK
    <3> QED
      BY <2>1, <3>1, SubSeqProperties DEF Reorg
  <2> QED
    BY <2>1, <2>2, <2>3 DEF Reorg, TypeOK
<1>5. CASE \E h \in Key : Accept(h)
  <2> PICK h \in Key : Accept(h)
    BY <1>5
  <2>1. Len(base) \in 1..Len(base)
    BY LenProperties DEF TypeOK
  <2>2. Tip \in World
    BY <2>1, ElementOfSeq DEF TypeOK, Tip
  <2>3. GetAttested(Tip, h) \in Row
    BY <2>2, MaxHeightAssumption DEF Accept, Witnessed, GetAttested, KeyInRange, Key, World, Table
  <2> QED
    BY <2>3 DEF Accept, TypeOK
<1>6. CASE UNCHANGED vars
  BY <1>6 DEF vars, TypeOK
<1> QED
  BY <1>1, <1>2, <1>3, <1>4, <1>5, <1>6 DEF Next

\* In every reachable state the database, the states kept for the closed blocks
\* and the accepted rows are what the schemas say (block-history.pact:75-89).
THEOREM TypeCorrect == Spec => []TypeOK
  BY InitType, NextType, PTL DEF Spec

--------------------------------------------------------------------------------
(* The history of a fork. *)

\* A database that is right about a fork is right about every fork with the same
\* first blocks.
LEMMA SamePrefix ==
    ASSUME NEW w, NEW f, NEW g, NEW n \in Nat,
           WorldOK(w, f, n), \A j \in 1..n : g[j] = f[j]
    PROVE  WorldOK(w, g, n)
<1> SUFFICES ASSUME NEW h \in Witnessed(w)
             PROVE  g[h + 1] = f[h + 1]
  BY DEF WorldOK, RowsMatchFork
<1> h \in Nat /\ h < n
  BY MaxHeightAssumption DEF WorldOK, RowsMatchFork, Witnessed, Key
<1> QED
  OBVIOUS

\* A block that closes leaves the database right about a longer fork.
LEMMA Older ==
    ASSUME NEW w, NEW f, NEW n \in Nat, WorldOK(w, f, n)
    PROVE  WorldOK(w, f, n + 1)
  BY MaxHeightAssumption DEF WorldOK, RowsMatchFork, Witnessed, Key

\* A database attest has not written to is right about every fork.
LEMMA Fresh ==
    ASSUME NEW w, NEW f, NEW n,
           w.attested = w.planted.attested, w.latest = w.planted.latest, w.events = <<>>
    PROVE  WorldOK(w, f, n)
<1> Witnessed(w) = {}
  BY DEF Witnessed, PlantedKeys
<1> QED
  BY DEF WorldOK, RowsMatchFork, TopMatches, EventsMatch

\* The row a recording attest writes is the highest one, and the only change.
LEMMA RecordedOK ==
    ASSUME TypeOK, HistoryOK, Recordable, NEW by \in Sender
    PROVE  WorldOK(Recorded(world, by), chain, Len(chain))
<1> DEFINE n == Len(chain)
           h == n - 1
           w == Recorded(world, by)
           row == [hash |-> PrevBlockHash, time |-> PrevBlockTime, by |-> by]
           e == world.events
<1>1. n \in Nat /\ n > 0 /\ h \in Key /\ world.attested[h] = NoRow
  BY MaxHeightAssumption, LenProperties DEF TypeOK, Recordable, Enforced, KeyInRange, Key, BlockHeight
<1>2. /\ PrevBlockHash = chain[n].hash
      /\ PrevBlockTime = chain[n].time
      /\ row \in Row
  <2>1. chain[n] \in Header
    BY <1>1, ElementOfSeq DEF TypeOK
  <2> QED
    BY <1>1, <2>1 DEF PrevBlockHash, PrevBlockTime, Header, Row
<1>3. WorldOK(world, chain, n)
  BY DEF HistoryOK
<1>4. /\ w.attested = [world.attested EXCEPT ![h] = row]
      /\ w.latest = [height |-> h, hash |-> PrevBlockHash, time |-> PrevBlockTime]
      /\ w.events = Append(e, h)
      /\ w.planted = world.planted
  BY DEF Recorded, TypeOK, World, BlockHeight
<1>5. world.attested \in Table /\ e \in Seq(Key)
  BY DEF TypeOK, World
<1> HIDE DEF w
<1>6. h \notin PlantedKeys(w) /\ PlantedKeys(w) = PlantedKeys(world)
  BY <1>1, <1>3, <1>4 DEF WorldOK, PlantedKeys
<1>7. Witnessed(w) = Witnessed(world) \cup {h}
  BY <1>1, <1>2, <1>4, <1>5, <1>6, RowAssumption DEF Witnessed, Table
<1>8. \A k \in Witnessed(world) : k \in Nat /\ k < h
  BY <1>1, <1>3, MaxHeightAssumption DEF WorldOK, RowsMatchFork, Witnessed, Key
<1>9. RowsMatchFork(w, chain, n)
  BY <1>1, <1>2, <1>3, <1>4, <1>5, <1>7, <1>8 DEF WorldOK, RowsMatchFork, Table
<1>10. TopMatches(w)
  <2>1. Latest(w) = w.latest
    BY <1>1, <1>2, <1>4, RowAssumption DEF Latest, LatestRow, Row, Key
  <2> QED
    BY <1>1, <1>2, <1>4, <1>5, <1>7, <1>8, <2>1 DEF TopMatches, Table
<1>11. EventsMatch(w)
  <2>1. /\ Len(e) \in Nat /\ DOMAIN e = 1..Len(e)
        /\ w.events \in Seq(Key) /\ Len(w.events) = Len(e) + 1
        /\ \A i \in 1..Len(e) : w.events[i] = e[i]
        /\ w.events[Len(e) + 1] = h
    BY <1>1, <1>4, <1>5, AppendProperties, LenProperties
  <2>2. DOMAIN w.events = 1..(Len(e) + 1)
    BY <2>1, LenProperties
  <2>3. EventsMatch(world)
    BY <1>3 DEF WorldOK
  <2>4. {w.events[i] : i \in DOMAIN w.events} = Witnessed(w)
    <3>1. DOMAIN w.events = DOMAIN e \cup {Len(e) + 1}
      BY <2>1, <2>2
    <3>2. (\A i \in DOMAIN e : w.events[i] = e[i]) /\ w.events[Len(e) + 1] = h
      BY <2>1
    <3>3. {w.events[i] : i \in DOMAIN w.events} = {e[i] : i \in DOMAIN e} \cup {h}
      BY <3>1, <3>2, ZenonT(30)
    <3> QED
      BY <1>7, <2>3, <3>3, Zenon DEF EventsMatch
  <2>5. ASSUME NEW i \in DOMAIN w.events, NEW j \in DOMAIN w.events, i < j
        PROVE  w.events[i] < w.events[j]
    <3>1. i \in DOMAIN e /\ e[i] \in Witnessed(world)
      BY <2>1, <2>2, <2>3, <2>5 DEF EventsMatch
    <3>2. CASE j \in DOMAIN e
      BY <2>1, <2>3, <2>5, <3>1, <3>2 DEF EventsMatch
    <3>3. CASE j = Len(e) + 1
      BY <1>8, <2>1, <3>1, <3>3
    <3> QED
      BY <2>1, <2>2, <2>5, <3>2, <3>3
  <2> QED
    BY <2>4, <2>5 DEF EventsMatch
<1>12. \A k \in PlantedKeys(w) : w.attested[k] = w.planted.attested[k]
  BY <1>1, <1>3, <1>4, <1>5, <1>6 DEF WorldOK, PlantedKeys, Table
<1> QED
  BY <1>9, <1>10, <1>11, <1>12 DEF WorldOK, w

LEMMA InitHistory == Init => HistoryOK
<1> SUFFICES ASSUME Init PROVE HistoryOK
  OBVIOUS
<1>1. WorldOK(Undeployed, chain, 0)
  BY Fresh DEF Undeployed, EmptyTables
<1> QED
  BY <1>1 DEF Init, HistoryOK

LEMMA NextHistory == TypeOK /\ HistoryOK /\ [Next]_vars => HistoryOK'
<1> SUFFICES ASSUME TypeOK, HistoryOK, [Next]_vars PROVE HistoryOK'
  OBVIOUS
<1> USE DEF HistoryOK
<1>0. Len(chain) \in Nat /\ Len(base) = Len(chain) + 1
  BY LenProperties DEF TypeOK
<1>1. CASE Deploy
  <2>1. WorldOK(world', chain, Len(chain))
    BY <1>1, Fresh DEF Deploy
  <2> QED
    BY <1>1, <2>1 DEF Deploy
<1>2. CASE \E by \in Sender : Attest(by)
  <2> PICK by \in Sender : Attest(by)
    BY <1>2
  <2>1. WorldOK(world', chain, Len(chain))
    BY RecordedOK DEF Attest
  <2> QED
    BY <2>1 DEF Attest
<1>3. CASE Mine
  <2> PICK header \in Header : chain' = Append(chain, header)
    BY <1>3 DEF Mine
  <2>1. Len(chain') = Len(chain) + 1 /\ \A j \in 1..Len(chain) : chain'[j] = chain[j]
    BY AppendProperties DEF TypeOK
  <2>2. /\ Len(base') = Len(base) + 1
        /\ \A i \in 1..Len(base) : base'[i] = base[i]
        /\ base'[Len(base) + 1] = world
    BY <1>3, AppendProperties DEF Mine, TypeOK
  <2>3. WorldOK(world, chain', Len(chain))
    BY <1>0, <2>1, SamePrefix
  <2>4. WorldOK(world', chain', Len(chain'))
    BY <1>0, <1>3, <2>1, <2>3, Older DEF Mine
  <2>5. ASSUME NEW i \in 1..Len(base') PROVE WorldOK(base'[i], chain', i - 1)
    <3>1. CASE i \in 1..Len(base)
      <4>1. WorldOK(base[i], chain, i - 1) /\ i - 1 \in Nat
        BY <1>0, <3>1
      <4>2. \A j \in 1..(i - 1) : chain'[j] = chain[j]
        BY <1>0, <2>1, <3>1
      <4> QED
        BY <2>2, <3>1, <4>1, <4>2, SamePrefix
    <3>2. CASE i = Len(base) + 1
      BY <1>0, <1>3, <2>1, <2>2, <2>4, <3>2 DEF Mine
    <3> QED
      BY <1>0, <2>2, <3>1, <3>2
  <2> QED
    BY <2>4, <2>5
<1>4. CASE \E k \in 0..Len(chain) : Reorg(k)
  <2> PICK k \in 0..Len(chain) : Reorg(k)
    BY <1>4
  <2>1. Len(chain') = k /\ \A j \in 1..k : chain'[j] = chain[j]
    <3>1. \A j \in 1..k : chain[j] \in Header
      BY <1>0, ElementOfSeq DEF TypeOK
    <3> QED
      BY <1>0, <3>1, SubSeqProperties DEF Reorg
  <2>2. Len(base') = k + 1 /\ \A i \in 1..(k + 1) : base'[i] = base[i]
    <3>1. \A i \in 1..(k + 1) : base[i] \in World
      BY <1>0, ElementOfSeq DEF TypeOK
    <3> QED
      BY <1>0, <3>1, SubSeqProperties DEF Reorg
  <2>3. ASSUME NEW i \in 1..(k + 1) PROVE WorldOK(base[i], chain', i - 1)
    <3>1. WorldOK(base[i], chain, i - 1) /\ i - 1 \in Nat
      BY <1>0
    <3> QED
      BY <1>0, <2>1, <3>1, SamePrefix
  <2>4. WorldOK(world', chain', Len(chain'))
    BY <1>0, <2>1, <2>3 DEF Reorg
  <2> QED
    BY <2>2, <2>3, <2>4
<1>5. CASE \E h \in Key : Accept(h)
  BY <1>5 DEF Accept
<1>6. CASE UNCHANGED vars
  BY <1>6 DEF vars
<1> QED
  BY <1>1, <1>2, <1>3, <1>4, <1>5, <1>6 DEF Next

\* The inductive invariant: the open block and every closed block left the
\* database right about its own fork, so a reorganisation returns to a right one.
THEOREM HistoryCorrect == Spec => []HistoryOK
<1>1. Init => TypeOK /\ HistoryOK
  BY InitType, InitHistory
<1>2. TypeOK /\ HistoryOK /\ [Next]_vars => (TypeOK /\ HistoryOK)'
  BY NextType, NextHistory
<1> QED
  BY <1>1, <1>2, PTL DEF Spec

\* Rows are unforgeable and fork-consistent (block-history.pact:10-16).
THEOREM ForkConsistency == Spec => []RowsAreForkConsistent
<1>1. HistoryOK => RowsAreForkConsistent
  BY DEF HistoryOK, WorldOK, RowsAreForkConsistent
<1> QED
  BY <1>1, HistoryCorrect, PTL

\* The unconditional write of `latest` leaves the highest record there
\* (block-history.pact:128-132).
THEOREM LatestCorrect == Spec => []LatestIsHighest
<1>1. HistoryOK => LatestIsHighest
  BY DEF HistoryOK, WorldOK, LatestIsHighest
<1> QED
  BY <1>1, HistoryCorrect, PTL

\* The events of a fork are its rows in order (block-history.pact:94-97, 133).
THEOREM EventsCorrect == Spec => []OneEventPerRow
<1>1. HistoryOK => OneEventPerRow
  BY DEF HistoryOK, WorldOK, OneEventPerRow
<1> QED
  BY <1>1, HistoryCorrect, PTL

\* attest aborts only where no record is possible (block-history.pact:113-115).
THEOREM AttestTotal == Spec => []AttestNeverAborts
<1>1. TypeOK /\ HistoryOK => AttestNeverAborts
  <2> SUFFICES ASSUME TypeOK, HistoryOK, Aborts, BlockHeight \in 1..MaxHeight
               PROVE  BlockHeight - 1 \in PlantedKeys(world)
    BY DEF AttestNeverAborts
  <2> DEFINE n == Len(chain)
             h == n - 1
  <2>1. n \in 1..n /\ h \in Key /\ h < MaxHeight /\ h >= 0
    BY MaxHeightAssumption DEF BlockHeight, Key
  <2>2. chain[n] \in Header /\ chain # <<>>
    BY <2>1, ElementOfSeq, EmptySeq DEF TypeOK
  <2>3. PrevBlockHash # NoHash
    BY <2>2, HashAssumption DEF PrevBlockHash, Header
  <2>4. Enforced
    BY <2>1, <2>3 DEF Enforced, KeyInRange, BlockHeight
  <2>5. world.attested[h] # NoRow /\ world.attested[h].hash = NoHash
    BY <2>1, <2>4 DEF Aborts, AlreadyRecorded, Recordable, HasAttested, GetAttested, KeyInRange, BlockHeight
  <2>6. ASSUME h \in Witnessed(world) PROVE FALSE
    <3>1. world.attested[h].hash = chain[n].hash
      BY <2>1, <2>6 DEF HistoryOK, WorldOK, RowsMatchFork
    <3> QED
      BY <2>2, <2>5, <3>1, HashAssumption DEF Header
  <2> QED
    BY <2>1, <2>5, <2>6 DEF Witnessed, BlockHeight
<1> QED
  BY <1>1, TypeCorrect, HistoryCorrect, PTL

\* No step of a fork rewrites, removes or backfills a row
\* (block-history.pact:18-25).
THEOREM RowsPermanent == Spec => RowsArePermanent
<1>1. TypeOK /\ [Next]_vars => [world.deployed => GainsOnlyTheWitnessed \/ Reorganises]_vars
  <2> SUFFICES ASSUME TypeOK, Next, world.deployed
               PROVE  GainsOnlyTheWitnessed \/ Reorganises
    OBVIOUS
  <2>1. CASE Deploy
    BY <2>1 DEF Deploy, GOVERNANCE
  <2>2. ASSUME NEW by \in Sender, Attest(by) PROVE GainsOnlyTheWitnessed
    BY <2>2 DEF Attest, Recordable, Recorded, GainsOnlyTheWitnessed, TypeOK, World, Table, BlockHeight
  <2>3. CASE Mine
    BY <2>3 DEF Mine, GainsOnlyTheWitnessed
  <2>4. CASE \E k \in 0..Len(chain) : Reorg(k)
    BY <2>4 DEF Reorganises
  <2>5. CASE \E h \in Key : Accept(h)
    BY <2>5 DEF Accept, GainsOnlyTheWitnessed
  <2> QED
    BY <2>1, <2>2, <2>3, <2>4, <2>5 DEF Next
<1> QED
  BY <1>1, TypeCorrect, PTL DEF Spec, RowsArePermanent

--------------------------------------------------------------------------------
(* When a row was written, across the states a reorganisation may go back to. *)

\* The saved states and, after them, the open block: one per height a block opens at.
StateAt(i) == IF i <= Len(base) THEN base[i] ELSE world
States == 1..(Len(base) + 1)

\* The row of h is written while the block of height h + 1 is open: no earlier state
\* has it, and if any state has it, all the later ones do.
RowsWrittenOnce ==
    \A j \in States : \A h \in Witnessed(StateAt(j)) :
        /\ h + 3 <= j
        /\ \A i \in (h + 3)..(Len(base) + 1) :
             h \in Witnessed(StateAt(i)) /\ StateAt(i).attested[h] = StateAt(j).attested[h]

NoRowsUndeployed == ~world.deployed => Witnessed(world) = {}

SavedUndeployed == \A i \in 1..Len(base) : ~base[i].deployed => Witnessed(base[i]) = {}

\* What the reader acted on is in every state from the one it was written in.
AcceptedAreWritten ==
    \A entry \in accepted :
        /\ entry[1] + 1 < settled
        /\ \A i \in (entry[1] + 3)..(Len(base) + 1) :
             entry[1] \in Witnessed(StateAt(i)) /\ StateAt(i).attested[entry[1]] = entry[2]

WrittenOK == RowsWrittenOnce /\ NoRowsUndeployed /\ SavedUndeployed /\ AcceptedAreWritten

LEMMA HeightsAreNatural ==
    ASSUME TypeOK
    PROVE  /\ Len(chain) \in Nat /\ Len(base) = Len(chain) + 1
           /\ settled \in Nat /\ settled <= Len(chain)
           /\ \A entry \in accepted : entry[1] \in Nat
           /\ \A j : \A h \in Witnessed(StateAt(j)) : h \in Nat
<1>1. Key \subseteq Nat
  BY MaxHeightAssumption DEF Key
<1>2. \A entry \in accepted : entry[1] \in Key
  BY DEF TypeOK
<1>3. \A j : \A h \in Witnessed(StateAt(j)) : h \in Key
  BY DEF Witnessed
<1>4. \A entry \in accepted : entry[1] \in Nat
  BY <1>1, <1>2
<1>5. \A j : \A h \in Witnessed(StateAt(j)) : h \in Nat
  BY <1>1, <1>3
<1>6. /\ Len(chain) \in Nat /\ Len(base) = Len(chain) + 1
      /\ settled \in Nat /\ settled <= Len(chain)
  BY LenProperties DEF TypeOK
<1> QED
  BY <1>4, <1>5, <1>6

LEMMA InitWritten == Init => WrittenOK
<1> SUFFICES ASSUME Init PROVE WrittenOK
  OBVIOUS
<1>1. Witnessed(Undeployed) = {} /\ Len(base) = 1 /\ base[1] = Undeployed /\ world = Undeployed /\ accepted = {}
  BY DEF Init, Undeployed, Witnessed, EmptyTables
<1> QED
  BY <1>1 DEF WrittenOK, RowsWrittenOnce, NoRowsUndeployed, SavedUndeployed, AcceptedAreWritten, StateAt, States

LEMMA NextWritten == TypeOK /\ HistoryOK /\ WrittenOK /\ [Next]_vars => WrittenOK'
<1> SUFFICES ASSUME TypeOK, HistoryOK, WrittenOK, [Next]_vars PROVE WrittenOK'
  OBVIOUS
<1>0. /\ Len(chain) \in Nat /\ Len(base) = Len(chain) + 1
      /\ settled \in Nat /\ settled <= Len(chain)
      /\ \A entry \in accepted : entry[1] \in Nat
      /\ \A j : \A h \in Witnessed(StateAt(j)) : h \in Nat
  BY HeightsAreNatural
<1>1. CASE Deploy
  <2>1. Witnessed(world) = {} /\ Witnessed(world') = {} /\ UNCHANGED <<base, settled, accepted>> /\ world'.deployed
    BY <1>1 DEF Deploy, GOVERNANCE, WrittenOK, NoRowsUndeployed, Witnessed, PlantedKeys
  <2>2. StateAt(Len(base) + 1) = world
    BY <1>0 DEF StateAt
  <2>3. \A j \in States : Witnessed(StateAt(j)) = {}
    <3> SUFFICES ASSUME NEW j \in States, NEW h \in Witnessed(StateAt(j)) PROVE FALSE
      OBVIOUS
    <3> h + 3 <= j /\ h \in Nat /\ j <= Len(base) + 1
      BY <1>0 DEF WrittenOK, RowsWrittenOnce, States
    <3> Len(base) + 1 \in (h + 3)..(Len(base) + 1)
      BY <1>0 DEF States
    <3> h \in Witnessed(StateAt(Len(base) + 1))
      BY DEF WrittenOK, RowsWrittenOnce
    <3> QED
      BY <2>1, <2>2
  <2>4. accepted = {}
    <3> SUFFICES ASSUME NEW entry \in accepted PROVE FALSE
      OBVIOUS
    <3> entry[1] \in Nat /\ entry[1] + 3 <= Len(base) + 1
      BY <1>0 DEF WrittenOK, AcceptedAreWritten
    <3> entry[1] \in Witnessed(StateAt(Len(base) + 1))
      BY <1>0 DEF WrittenOK, AcceptedAreWritten
    <3> QED
      BY <2>1, <2>2
  <2>5. \A j \in States : Witnessed(StateAt(j)') = {}
    BY <2>1, <2>3 DEF StateAt
  <2> QED
    BY <2>1, <2>4, <2>5 DEF WrittenOK, RowsWrittenOnce, NoRowsUndeployed, SavedUndeployed, AcceptedAreWritten, States, StateAt
<1>2. CASE \E by \in Sender : Attest(by)
  <2> PICK by \in Sender : Attest(by)
    BY <1>2
  <2>0. CASE ~Recordable
    BY <2>0 DEF Attest, WrittenOK, RowsWrittenOnce, NoRowsUndeployed, SavedUndeployed, AcceptedAreWritten, States, StateAt
  <2>1. CASE Recordable
    <3> DEFINE b == Len(chain) - 1
               top == Len(base) + 1
    <3>1. /\ world' = Recorded(world, by) /\ world.deployed /\ world'.deployed
          /\ UNCHANGED <<base, settled, accepted>>
      BY <2>1 DEF Attest, Recorded, TypeOK, World
    <3>2. b \in Key /\ b \in Nat /\ b + 3 = top
      BY <1>0, <2>1, MaxHeightAssumption DEF Recordable, Enforced, KeyInRange, Key, BlockHeight
    <3>3. Witnessed(world') \subseteq Witnessed(world) \cup {b}
      BY <3>1, <3>2 DEF Recorded, BlockHeight, TypeOK, World, Table, Witnessed, PlantedKeys
    <3>4. \A h \in Witnessed(world) : h # b /\ h \in Witnessed(world') /\ world'.attested[h] = world.attested[h]
      <4> world.attested[b] = NoRow
        BY <2>1 DEF Recordable, BlockHeight
      <4> QED
        BY <3>1, <3>2 DEF Recorded, BlockHeight, TypeOK, World, Table, Witnessed, PlantedKeys
    <3>5. /\ \A j \in States : j # top => StateAt(j)' = StateAt(j)
          /\ StateAt(top) = world /\ StateAt(top)' = world' /\ top' = top /\ States' = States
      BY <1>0, <3>1 DEF StateAt, States
    <3>6. RowsWrittenOnce'
      <4> SUFFICES ASSUME NEW j \in States, NEW h \in Witnessed(StateAt(j)')
                   PROVE  /\ h + 3 <= j
                          /\ \A i \in (h + 3)..top :
                               h \in Witnessed(StateAt(i)') /\ StateAt(i)'.attested[h] = StateAt(j)'.attested[h]
        BY <3>1, <3>5 DEF RowsWrittenOnce
      <4>1. CASE j = top /\ h = b
        <5>1. \A i \in (h + 3)..top : i = top
          BY <1>0, <3>2, <4>1
        <5> QED
          BY <3>2, <4>1, <5>1
      <4>2. CASE ~(j = top /\ h = b)
        <5>1. h \in Witnessed(StateAt(j)) /\ StateAt(j)'.attested[h] = StateAt(j).attested[h]
          BY <3>3, <3>4, <3>5, <4>2
        <5>2. h + 3 <= j /\ h \in Nat
          BY <1>0, <5>1 DEF WrittenOK, RowsWrittenOnce
        <5>3. ASSUME NEW i \in (h + 3)..top
              PROVE  h \in Witnessed(StateAt(i)') /\ StateAt(i)'.attested[h] = StateAt(j)'.attested[h]
          <6>1. i \in States
            BY <1>0, <5>2, <5>3 DEF States
          <6>2. h \in Witnessed(StateAt(i)) /\ StateAt(i).attested[h] = StateAt(j).attested[h]
            BY <5>1, <5>3 DEF WrittenOK, RowsWrittenOnce
          <6> QED
            BY <3>4, <3>5, <5>1, <6>1, <6>2
        <5> QED
          BY <5>2, <5>3
      <4> QED
        BY <4>1, <4>2
    <3>7. AcceptedAreWritten'
      <4> SUFFICES ASSUME NEW entry \in accepted, NEW i \in (entry[1] + 3)..top
                   PROVE  entry[1] \in Witnessed(StateAt(i)') /\ StateAt(i)'.attested[entry[1]] = entry[2]
        BY <3>1, <3>5 DEF WrittenOK, AcceptedAreWritten
      <4>1. entry[1] \in Nat /\ i \in States
        BY <1>0 DEF States
      <4>2. entry[1] \in Witnessed(StateAt(i)) /\ StateAt(i).attested[entry[1]] = entry[2]
        BY DEF WrittenOK, AcceptedAreWritten
      <4> QED
        BY <3>4, <3>5, <4>1, <4>2
    <3> QED
      BY <3>1, <3>6, <3>7 DEF WrittenOK, NoRowsUndeployed, SavedUndeployed
  <2> QED
    BY <2>0, <2>1
<1>3. CASE Mine
  <2> PICK n \in Nat : n = Len(base)
    BY <1>0
  <2>1. /\ Len(base') = Len(base) + 1
        /\ \A i \in 1..Len(base) : base'[i] = base[i]
        /\ base'[Len(base) + 1] = world
        /\ UNCHANGED <<world, accepted>>
    BY <1>3, AppendProperties DEF Mine, TypeOK
  <2>2. settled <= settled'
    BY <1>0, <1>3, DepthAssumption, AppendProperties DEF Mine, TypeOK
  <2>3. \A j \in States : StateAt(j)' = StateAt(j)
    BY <1>0, <2>1 DEF StateAt, States
  <2>4. /\ StateAt(n + 2)' = world /\ StateAt(n + 1) = world
        /\ States' = States \cup {n + 2} /\ n + 1 \in States
    BY <1>0, <2>1 DEF StateAt, States
  <2>5. RowsWrittenOnce'
    <3> SUFFICES ASSUME NEW j \in States', NEW h \in Witnessed(StateAt(j)')
                 PROVE  /\ h + 3 <= j
                        /\ \A i \in (h + 3)..(n + 2) :
                             h \in Witnessed(StateAt(i)') /\ StateAt(i)'.attested[h] = StateAt(j)'.attested[h]
      BY <1>0, <2>1 DEF RowsWrittenOnce
    <3> PICK k \in States : k <= j /\ StateAt(j)' = StateAt(k)
      <4>1. CASE j = n + 2
        <5> n + 1 <= j
          BY <1>0, <4>1
        <5> QED
          BY <2>4, <4>1
      <4>2. CASE j # n + 2
        <5> j \in States /\ j <= j
          BY <1>0, <2>4, <4>2 DEF States
        <5> QED
          BY <2>3
      <4> QED
        BY <4>1, <4>2
    <3>1. h + 3 <= k /\ h \in Nat
      BY <1>0 DEF WrittenOK, RowsWrittenOnce
    <3>2. ASSUME NEW i \in (h + 3)..(n + 2)
          PROVE  h \in Witnessed(StateAt(i)') /\ StateAt(i)'.attested[h] = StateAt(j)'.attested[h]
      <4> PICK m \in (h + 3)..(n + 1) : StateAt(i)' = StateAt(m)
        <5>1. CASE i = n + 2
          <6> n + 1 \in (h + 3)..(n + 1)
            BY <1>0, <3>1 DEF States
          <6> QED
            BY <2>4, <5>1
        <5>2. CASE i # n + 2
          <6> i \in (h + 3)..(n + 1) /\ i \in States
            BY <1>0, <3>1, <5>2 DEF States
          <6> QED
            BY <2>3
        <5> QED
          BY <5>1, <5>2
      <4> QED
        BY DEF WrittenOK, RowsWrittenOnce
    <3> QED
      BY <1>0, <3>1, <3>2 DEF States
  <2>6. AcceptedAreWritten'
    <3> SUFFICES ASSUME NEW entry \in accepted
                 PROVE  /\ entry[1] + 1 < settled'
                        /\ \A i \in (entry[1] + 3)..(n + 2) :
                             entry[1] \in Witnessed(StateAt(i)') /\ StateAt(i)'.attested[entry[1]] = entry[2]
      BY <1>0, <2>1 DEF AcceptedAreWritten
    <3>1. entry[1] \in Nat /\ entry[1] + 1 < settled
      BY <1>0 DEF WrittenOK, AcceptedAreWritten
    <3>2. ASSUME NEW i \in (entry[1] + 3)..(n + 2)
          PROVE  entry[1] \in Witnessed(StateAt(i)') /\ StateAt(i)'.attested[entry[1]] = entry[2]
      <4> PICK m \in (entry[1] + 3)..(n + 1) : StateAt(i)' = StateAt(m)
        <5>1. CASE i = n + 2
          <6> n + 1 \in (entry[1] + 3)..(n + 1)
            BY <1>0, <3>1 DEF States
          <6> QED
            BY <2>4, <5>1
        <5>2. CASE i # n + 2
          <6> i \in (entry[1] + 3)..(n + 1) /\ i \in States
            BY <1>0, <3>1, <5>2 DEF States
          <6> QED
            BY <2>3
        <5> QED
          BY <5>1, <5>2
      <4> QED
        BY DEF WrittenOK, AcceptedAreWritten
    <3>3. settled' \in Int
      BY <1>0, <1>3, DepthAssumption, AppendProperties DEF Mine, TypeOK
    <3> QED
      BY <1>0, <2>2, <3>1, <3>2, <3>3
  <2>7. SavedUndeployed' /\ NoRowsUndeployed'
    BY <1>0, <2>1 DEF WrittenOK, SavedUndeployed, NoRowsUndeployed
  <2> QED
    BY <2>5, <2>6, <2>7 DEF WrittenOK
<1>4. CASE \E k \in 0..Len(chain) : Reorg(k)
  <2> PICK k \in 0..Len(chain) : Reorg(k)
    BY <1>4
  <2>1. /\ Len(base') = k + 1
        /\ \A i \in 1..(k + 1) : base'[i] = base[i]
        /\ world' = base[k + 1]
        /\ UNCHANGED <<settled, accepted>> /\ settled <= k
    <3>1. \A i \in 1..(k + 1) : base[i] \in World
      BY <1>0, ElementOfSeq DEF TypeOK
    <3> QED
      BY <1>0, <3>1, SubSeqProperties DEF Reorg
  <2>2. /\ \A j \in 1..(k + 1) : StateAt(j)' = StateAt(j) /\ j \in States
        /\ StateAt(k + 2)' = StateAt(k + 1)
        /\ States' = 1..(k + 2)
    BY <1>0, <2>1 DEF StateAt, States
  <2>3. RowsWrittenOnce'
    <3> SUFFICES ASSUME NEW j \in 1..(k + 2), NEW h \in Witnessed(StateAt(j)')
                 PROVE  /\ h + 3 <= j
                        /\ \A i \in (h + 3)..(k + 2) :
                             h \in Witnessed(StateAt(i)') /\ StateAt(i)'.attested[h] = StateAt(j)'.attested[h]
      BY <1>0, <2>1, <2>2 DEF RowsWrittenOnce
    <3> PICK m \in 1..(k + 1) : m <= j /\ StateAt(j)' = StateAt(m)
      BY <1>0, <2>2
    <3>1. h + 3 <= m /\ h \in Nat /\ m \in States
      BY <1>0, <2>2 DEF WrittenOK, RowsWrittenOnce
    <3>2. ASSUME NEW i \in (h + 3)..(k + 2)
          PROVE  h \in Witnessed(StateAt(i)') /\ StateAt(i)'.attested[h] = StateAt(j)'.attested[h]
      <4> PICK l \in (h + 3)..(k + 1) : StateAt(i)' = StateAt(l)
        <5>1. CASE i = k + 2
          BY <1>0, <2>2, <3>1, <5>1
        <5>2. CASE i # k + 2
          BY <1>0, <2>2, <3>1, <5>2
        <5> QED
          BY <5>1, <5>2
      <4>1. l \in (h + 3)..(Len(base) + 1)
        BY <1>0, <3>1
      <4> QED
        BY <3>1, <4>1 DEF WrittenOK, RowsWrittenOnce
    <3> QED
      BY <1>0, <3>1, <3>2
  <2>4. AcceptedAreWritten'
    <3> SUFFICES ASSUME NEW entry \in accepted, NEW i \in (entry[1] + 3)..(k + 2)
                 PROVE  entry[1] \in Witnessed(StateAt(i)') /\ StateAt(i)'.attested[entry[1]] = entry[2]
      BY <1>0, <2>1 DEF WrittenOK, AcceptedAreWritten
    <3>1. entry[1] \in Nat /\ entry[1] + 1 < settled
      BY <1>0 DEF WrittenOK, AcceptedAreWritten
    <3> PICK m \in (entry[1] + 3)..(k + 1) : StateAt(i)' = StateAt(m)
      <4>1. CASE i = k + 2
        BY <1>0, <2>1, <2>2, <3>1, <4>1
      <4>2. CASE i # k + 2
        BY <1>0, <2>2, <3>1, <4>2
      <4> QED
        BY <4>1, <4>2
    <3>2. m \in (entry[1] + 3)..(Len(base) + 1)
      BY <1>0, <3>1
    <3> QED
      BY <3>2 DEF WrittenOK, AcceptedAreWritten
  <2>5. SavedUndeployed' /\ NoRowsUndeployed'
    BY <1>0, <2>1 DEF WrittenOK, SavedUndeployed, NoRowsUndeployed
  <2> QED
    BY <2>3, <2>4, <2>5 DEF WrittenOK
<1>5. CASE \E h \in Key : Accept(h)
  <2> PICK h \in Key : Accept(h)
    BY <1>5
  <2>1. /\ UNCHANGED <<world, base, settled>> /\ h \in Nat /\ h + 1 < settled
        /\ h \in Witnessed(Tip) /\ accepted' = accepted \cup {<<h, Tip.attested[h]>>}
    BY <1>0, MaxHeightAssumption DEF Accept, Confirmed, GetAttested, KeyInRange, Key
  <2>2. Tip = StateAt(Len(base)) /\ Len(base) \in States
    BY <1>0 DEF Tip, StateAt, States
  <2>3. \A i \in (h + 3)..(Len(base) + 1) : h \in Witnessed(StateAt(i)) /\ StateAt(i).attested[h] = Tip.attested[h]
    BY <2>1, <2>2 DEF WrittenOK, RowsWrittenOnce
  <2>4. AcceptedAreWritten'
    BY <2>1, <2>3 DEF WrittenOK, AcceptedAreWritten, StateAt
  <2> QED
    <3>1. \A j : StateAt(j)' = StateAt(j)
      BY <2>1 DEF StateAt
    <3>2. RowsWrittenOnce'
      BY <2>1, <3>1 DEF WrittenOK, RowsWrittenOnce, States
    <3>3. NoRowsUndeployed' /\ SavedUndeployed'
      BY <2>1 DEF WrittenOK, NoRowsUndeployed, SavedUndeployed
    <3> QED
      BY <2>4, <3>2, <3>3 DEF WrittenOK
<1>6. CASE UNCHANGED vars
  BY <1>6, SMTT(30) DEF vars, WrittenOK, RowsWrittenOnce, NoRowsUndeployed, SavedUndeployed, AcceptedAreWritten, States, StateAt
<1> QED
  BY <1>1, <1>2, <1>3, <1>4, <1>5, <1>6 DEF Next

\* The strengthening of the reader's promise: a row is in every state from the one
\* after the block that wrote it opened, and in none before.
THEOREM WrittenCorrect == Spec => []WrittenOK
<1>1. Init => TypeOK /\ HistoryOK /\ WrittenOK
  BY InitType, InitHistory, InitWritten
<1>2. TypeOK /\ HistoryOK /\ WrittenOK /\ [Next]_vars => (TypeOK /\ HistoryOK /\ WrittenOK)'
  BY NextType, NextHistory, NextWritten
<1> QED
  BY <1>1, <1>2, PTL DEF Spec

\* A row a reader acted on, having waited for the block that wrote it to be final,
\* is never taken back (block-history.pact:14-16).
THEOREM AcceptedStand == Spec => []AcceptedRowsStand
<1>1. TypeOK /\ WrittenOK => AcceptedRowsStand
  <2> SUFFICES ASSUME TypeOK, WrittenOK, NEW entry \in accepted
               PROVE  world.attested[entry[1]] = entry[2] /\ Tip.attested[entry[1]] = entry[2]
    BY DEF AcceptedRowsStand
  <2>1. /\ entry[1] \in Nat /\ entry[1] + 1 < settled /\ settled \in Nat
        /\ Len(base) \in Nat /\ settled < Len(base)
    BY HeightsAreNatural DEF WrittenOK, AcceptedAreWritten
  <2>2. \A i \in {Len(base), Len(base) + 1} : StateAt(i).attested[entry[1]] = entry[2]
    BY <2>1 DEF WrittenOK, AcceptedAreWritten
  <2>3. StateAt(Len(base)) = Tip /\ StateAt(Len(base) + 1) = world
    BY <2>1 DEF StateAt, Tip
  <2> QED
    BY <2>2, <2>3
<1> QED
  BY <1>1, TypeCorrect, WrittenCorrect, PTL

--------------------------------------------------------------------------------
(* The refinement. *)

Kept(w) ==
    {<<h, [hash |-> w.attested[h].hash, time |-> w.attested[h].time]>> : h \in Witnessed(w)}

LEMMA InitRefines == Init => Record!Init
  BY DEF Init, Record!Init, Undeployed, Witnessed, EmptyTables

\* Leaving the blocks from k on takes back the rows they wrote and no others.
LEMMA RewindKeeps ==
    ASSUME TypeOK, WrittenOK, NEW k \in 0..Len(chain)
    PROVE  Kept(base[k + 1]) = {entry \in Kept(world) : entry[1] + 1 < k}
<1>0. /\ Len(chain) \in Nat /\ Len(base) = Len(chain) + 1
      /\ \A j : \A h \in Witnessed(StateAt(j)) : h \in Nat
  BY HeightsAreNatural
<1>1. /\ StateAt(k + 1) = base[k + 1] /\ StateAt(Len(base) + 1) = world
      /\ k + 1 \in States /\ Len(base) + 1 \in States
  BY <1>0 DEF StateAt, States
<1>2. \A h \in Witnessed(base[k + 1]) :
        h + 1 < k /\ h \in Witnessed(world) /\ world.attested[h] = base[k + 1].attested[h]
  <2> SUFFICES ASSUME NEW h \in Witnessed(base[k + 1])
               PROVE  h + 1 < k /\ h \in Witnessed(world) /\ world.attested[h] = base[k + 1].attested[h]
    OBVIOUS
  <2>1. h + 3 <= k + 1 /\ h \in Nat
    BY <1>0, <1>1 DEF WrittenOK, RowsWrittenOnce
  <2>2. Len(base) + 1 \in (h + 3)..(Len(base) + 1)
    BY <1>0, <2>1
  <2> QED
    BY <1>0, <1>1, <2>1, <2>2 DEF WrittenOK, RowsWrittenOnce
<1>3. \A h \in Witnessed(world) :
        h + 1 < k => h \in Witnessed(base[k + 1]) /\ world.attested[h] = base[k + 1].attested[h]
  <2> SUFFICES ASSUME NEW h \in Witnessed(world), h + 1 < k
               PROVE  h \in Witnessed(base[k + 1]) /\ world.attested[h] = base[k + 1].attested[h]
    OBVIOUS
  <2>1. k + 1 \in (h + 3)..(Len(base) + 1)
    BY <1>0, <1>1
  <2> QED
    BY <1>1, <2>1 DEF WrittenOK, RowsWrittenOnce
<1> QED
  BY <1>2, <1>3 DEF Kept

\* The recording attest remembers the block before the open one, with its header.
LEMMA AttestRefines ==
    ASSUME TypeOK, HistoryOK, Recordable, NEW by \in Sender, world' = Recorded(world, by)
    PROVE  /\ Len(chain) > 0 /\ Len(chain) - 1 < MaxHeight
           /\ Len(chain) - 1 \notin Witnessed(world)
           /\ Kept(world') = Kept(world) \cup {<<Len(chain) - 1, chain[Len(chain)]>>}
<1> DEFINE n == Len(chain)
           h == n - 1
<1>1. n \in Nat /\ n > 0 /\ h \in Key /\ h < MaxHeight /\ world.attested[h] = NoRow
  BY MaxHeightAssumption, LenProperties DEF TypeOK, Recordable, Enforced, KeyInRange, Key, BlockHeight
<1>2. /\ chain[n] \in Header
      /\ PrevBlockHash = chain[n].hash /\ PrevBlockTime = chain[n].time
  <2>1. chain[n] \in Header
    BY <1>1, ElementOfSeq DEF TypeOK
  <2> QED
    BY <1>1, <2>1 DEF PrevBlockHash, PrevBlockTime
<1>3. chain[n] = [hash |-> chain[n].hash, time |-> chain[n].time]
  BY <1>2 DEF Header
<1>4. h \notin PlantedKeys(world)
  BY <1>1 DEF HistoryOK, WorldOK, PlantedKeys
<1> DEFINE row == [hash |-> PrevBlockHash, time |-> PrevBlockTime, by |-> by]
<1>5. world'.attested = [world.attested EXCEPT ![h] = row] /\ world'.planted = world.planted
  BY DEF Recorded, TypeOK, World, BlockHeight
<1>6. row # NoRow /\ world.attested \in Table /\ row.hash = chain[n].hash /\ row.time = chain[n].time
  BY <1>2, RowAssumption DEF Row, Header, TypeOK, World
<1> HIDE DEF row
<1>7. Witnessed(world') = Witnessed(world) \cup {h}
  BY <1>1, <1>4, <1>5, <1>6 DEF Witnessed, PlantedKeys, Table
<1>8. world'.attested[h] = row /\ \A k \in Witnessed(world) : k # h /\ world'.attested[k] = world.attested[k]
  BY <1>1, <1>5, <1>6 DEF Witnessed, Table
<1> QED
  BY <1>1, <1>3, <1>6, <1>7, <1>8 DEF Kept, Witnessed

LEMMA NextRefines ==
    TypeOK /\ HistoryOK /\ WrittenOK /\ [Next]_vars => [Record!Next]_(Record!vars)
<1> SUFFICES ASSUME TypeOK, HistoryOK, WrittenOK, [Next]_vars PROVE [Record!Next]_(Record!vars)
  OBVIOUS
<1>0. \A w : Kept(w) = {<<h, [hash |-> w.attested[h].hash, time |-> w.attested[h].time]>> : h \in Witnessed(w)}
  BY DEF Kept
<1>1. CASE Deploy
  <2>1. Witnessed(world) = {} /\ Witnessed(world') = {} /\ chain' = chain
    BY <1>1 DEF Deploy, GOVERNANCE, WrittenOK, NoRowsUndeployed, Witnessed, PlantedKeys
  <2> QED
    BY <2>1 DEF Record!vars
<1>2. CASE \E by \in Sender : Attest(by)
  <2> PICK by \in Sender : Attest(by)
    BY <1>2
  <2>1. CASE Recordable
    <3>1. /\ Len(chain) > 0 /\ Len(chain) - 1 < MaxHeight
          /\ Len(chain) - 1 \notin Witnessed(world)
          /\ Kept(world') = Kept(world) \cup {<<Len(chain) - 1, chain[Len(chain)]>>}
      BY <2>1, AttestRefines DEF Attest
    <3>2. Record!Witness
      BY <1>0, <3>1 DEF Record!Witness, Record!Remembered, Attest
    <3> QED
      BY <3>2 DEF Record!Next
  <2>2. CASE ~Recordable
    BY <2>2 DEF Attest, Record!vars
  <2> QED
    BY <2>1, <2>2
<1>3. CASE Mine
  BY <1>3 DEF Mine, Record!Next, Record!Grow
<1>4. CASE \E k \in 0..Len(chain) : Reorg(k)
  <2> PICK k \in 0..Len(chain) : Reorg(k)
    BY <1>4
  <2>1. Kept(world') = {entry \in Kept(world) : entry[1] + 1 < k}
    BY RewindKeeps DEF Reorg
  <2>2. Record!Rewind(k)
    BY <1>0, <2>1 DEF Record!Rewind, Reorg
  <2> QED
    BY <2>2 DEF Record!Next
<1>5. CASE \E h \in Key : Accept(h)
  BY <1>5 DEF Accept, Record!vars
<1>6. CASE UNCHANGED vars
  BY <1>6 DEF vars, Record!vars
<1> QED
  BY <1>1, <1>2, <1>3, <1>4, <1>5, <1>6 DEF Next

\* The module implements the abstract record: attest witnesses, a block that closes
\* grows the fork, a reorganisation rewinds the record exactly, and nothing else
\* changes either (block-history.pact:10-25).
THEOREM Implements == Spec => ImplementsRecord
<1>1. TypeOK /\ HistoryOK /\ WrittenOK /\ [Next]_vars => [Record!Next]_(Record!vars)
  BY NextRefines
<1> QED
  BY <1>1, InitRefines, TypeCorrect, HistoryCorrect, WrittenCorrect, PTL DEF Spec, ImplementsRecord, Record!Spec
=============================================================================
