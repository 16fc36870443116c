------------------------------ MODULE OracleProofs ------------------------------
(***************************************************************************)
(* Theorems about Oracle for any labels, depths, ranges and bounds.        *)
(***************************************************************************)
EXTENDS Oracle, SequenceTheorems, FiniteSetTheorems, TLAPS

--------------------------------------------------------------------------------
(* Ancestors.                                                                *)

Block == Seq(Label)

LEMMA AncestorIs ==
    ASSUME NEW b \in Block, NEW h \in Nat, h <= Len(b)
    PROVE  /\ Ancestor(b, h) \in Block /\ Len(Ancestor(b, h)) = h
           /\ \A i \in 1..h : Ancestor(b, h)[i] = b[i]
<1>1. \A i \in 1..h : b[i] \in Label
  BY ElementOfSeq, LenProperties DEF Block
<1>2. /\ SubSeq(b, 1, h) \in Seq(Label)
      /\ Len(SubSeq(b, 1, h)) = IF 1 <= h THEN h - 1 + 1 ELSE 0
      /\ \A i \in 1..(h - 1 + 1) : SubSeq(b, 1, h)[i] = b[1 + i - 1]
  BY <1>1, SubSeqProperties
<1>3. \A i \in 1..h : i \in 1..(h - 1 + 1) /\ 1 + i - 1 = i
  OBVIOUS
<1> QED
  BY <1>2, <1>3 DEF Ancestor, Block

LEMMA SameBlock ==
    ASSUME NEW a \in Block, NEW b \in Block, Len(a) = Len(b), \A i \in 1..Len(a) : a[i] = b[i]
    PROVE  a = b
BY SeqEqual DEF Block

LEMMA OwnAncestor ==
    ASSUME NEW b \in Block
    PROVE  Len(b) \in Nat /\ Ancestor(b, Len(b)) = b
<1>1. Len(b) \in Nat
  BY LenProperties DEF Block
<1> QED
  BY <1>1, AncestorIs, SameBlock

LEMMA AncestorOfAncestor ==
    ASSUME NEW b \in Block, NEW h \in Nat, NEW k \in Nat, h <= k, k <= Len(b)
    PROVE  Ancestor(Ancestor(b, k), h) = Ancestor(b, h)
<1>1. Len(b) \in Nat /\ h <= Len(b)
  BY LenProperties DEF Block
<1> DEFINE a == Ancestor(b, k)
<1>2. a \in Block /\ Len(a) = k /\ \A i \in 1..k : a[i] = b[i]
  BY AncestorIs
<1> HIDE DEF a
<1>3. /\ Ancestor(a, h) \in Block /\ Len(Ancestor(a, h)) = h
      /\ \A i \in 1..h : Ancestor(a, h)[i] = a[i]
  BY <1>2, AncestorIs
<1>4. /\ Ancestor(b, h) \in Block /\ Len(Ancestor(b, h)) = h
      /\ \A i \in 1..h : Ancestor(b, h)[i] = b[i]
  BY <1>1, AncestorIs
<1>5. Ancestor(a, h) = Ancestor(b, h)
  BY <1>2, <1>3, <1>4, SameBlock
<1> QED
  BY <1>5 DEF a

LEMMA ChildIs ==
    ASSUME NEW b \in Block, NEW label \in Label
    PROVE  /\ Append(b, label) \in Block /\ Len(Append(b, label)) = Len(b) + 1
           /\ Ancestor(Append(b, label), Len(b)) = b
<1>1. /\ Append(b, label) \in Block /\ Len(Append(b, label)) = Len(b) + 1
      /\ \A i \in 1..Len(b) : Append(b, label)[i] = b[i]
  BY AppendProperties DEF Block
<1>2. Len(b) \in Nat
  BY LenProperties DEF Block
<1> DEFINE a == Append(b, label)
<1>3. a \in Block /\ Len(b) <= Len(a) /\ \A i \in 1..Len(b) : a[i] = b[i]
  BY <1>1, <1>2
<1> HIDE DEF a
<1>4. /\ Ancestor(a, Len(b)) \in Block /\ Len(Ancestor(a, Len(b))) = Len(b)
      /\ \A i \in 1..Len(b) : Ancestor(a, Len(b))[i] = a[i]
  BY <1>2, <1>3, AncestorIs
<1>5. Ancestor(a, Len(b)) = b
  BY <1>3, <1>4, SameBlock
<1> QED
  BY <1>1, <1>5 DEF a

\* A shared prefix is a shared ancestor at every height it has.
LEMMA PrefixShares ==
    ASSUME NEW a \in Block, NEW b \in Block, IsPrefix(a, b), NEW h \in Nat, h <= Len(a)
    PROVE  Ancestor(b, h) = Ancestor(a, h)
<1>1. Len(a) \in Nat /\ Len(b) \in Nat /\ Len(a) <= Len(b)
  BY LenProperties DEF Block, IsPrefix
<1>2. Ancestor(a, Len(a)) = Ancestor(b, Len(a))
  BY DEF IsPrefix, Ancestor
<1>3. Ancestor(b, Len(a)) = a
  BY <1>2, OwnAncestor
<1> QED
  BY <1>1, <1>3, AncestorOfAncestor

LEMMA LeastOfTwo ==
    ASSUME NEW a \in Int, NEW b \in Int
    PROVE  Min({a, b}) \in Int /\ Min({a, b}) <= a /\ Min({a, b}) <= b /\ Min({a, b}) \in {a, b}
<1>1. \E x \in {a, b} : \A y \in {a, b} : x <= y
  <2>1. CASE a <= b
    BY <2>1
  <2>2. CASE b <= a
    BY <2>2
  <2> QED
    BY <2>1, <2>2
<1>2. Min({a, b}) \in {a, b} /\ \A y \in {a, b} : Min({a, b}) <= y
  BY <1>1 DEF Min
<1> QED
  BY <1>2

--------------------------------------------------------------------------------
(* The invariant.                                                            *)

NodeOK ==
    /\ known \subseteq Block
    /\ \A b \in known : Len(b) <= Len(tip)
    /\ \A b \in known : \A h \in 0..Len(b) : Ancestor(b, h) \in known
    /\ tip \in known /\ Len(tip) <= TopHeight
    /\ wrong \subseteq Height

RowsRead(end) == DOMAIN rows = lo..end /\ (end < lo \/ end <= hi)

CheckOK ==
    /\ pc \in {"cut", "top", "done"} /\ lo \in Height /\ hi \in (-2)..TopHeight
    /\ pc = "cut" => DOMAIN rows = {} /\ verdict = "none" /\ top = NoBlock /\ fetched = {}
    /\ pc = "top" => verdict = "none" /\ lo <= hi /\ hi + 2 <= Len(tip)
    /\ top = NoBlock \/ (top \in known /\ hi + 2 <= Len(top))
    /\ fetched \subseteq known
    /\ fetched # {} => top # NoBlock /\ Unbroken
    /\ \E end \in Int : RowsRead(end)
    /\ verdict \in {"none", "no data", "fail", "consistent"}

\* With reorganisations no deeper than the cut is kept below the tip, the checked
\* range is the same on every fork the node adopts.
StableOK ==
    /\ pc = "top" =>
         /\ top # NoBlock => \A h \in 0..hi : Ancestor(top, h) = Ancestor(tip, h)
         /\ \A h \in DOMAIN rows : h \notin wrong => rows[h] \in {Missing, Ancestor(tip, h)}
    /\ NoFalseAlarm

LEMMA Heights == Height \subseteq Nat /\ Depth \in Nat /\ TopHeight \in Nat /\ Chunk \in Nat \ {0}
BY BoundAssumption DEF Height

LEMMA LearnNode ==
    ASSUME NodeOK, NEW parent \in known, NEW label \in Label, Learn(parent, label)
    PROVE  /\ NodeOK' /\ known \subseteq known' /\ Len(tip) <= Len(tip')
           /\ Depth <= 2 => \A h \in Nat : h + 2 <= Len(tip) => Ancestor(tip', h) = Ancestor(tip, h)
<1> DEFINE block == Append(parent, label)
<1>1. /\ parent \in Block /\ Len(parent) \in Nat /\ block \in Block /\ Len(block) = Len(parent) + 1
      /\ Ancestor(block, Len(parent)) = parent
      /\ tip \in Block /\ Len(tip) \in Nat
  BY ChildIs, OwnAncestor DEF NodeOK
<1>2. /\ Len(parent) < TopHeight /\ IsPrefix(Ancestor(tip, Len(tip) - Depth), block)
      /\ known' = known \cup {block} /\ tip' = IF Len(block) > Len(tip) THEN block ELSE tip
      /\ UNCHANGED wrong
  BY DEF Learn
<1> HIDE DEF block
<1>3. \A h \in 0..Len(block) : Ancestor(block, h) \in known'
  <2>1. ASSUME NEW h \in 0..Len(block) PROVE Ancestor(block, h) \in known'
    <3>1. CASE h = Len(block)
      BY <1>1, <1>2, <3>1, OwnAncestor
    <3>2. CASE h <= Len(parent)
      <4>1. Ancestor(Ancestor(block, Len(parent)), h) = Ancestor(block, h)
        BY <1>1, <3>2, AncestorOfAncestor
      <4>2. Ancestor(parent, h) \in known
        BY <1>1, <3>2 DEF NodeOK
      <4> QED
        BY <1>1, <1>2, <4>1, <4>2
    <3> QED
      BY <1>1, <3>1, <3>2
  <2> QED
    BY <2>1
<1>4. \A b \in known' : b \in Block /\ Len(b) \in Nat
  BY <1>1, <1>2, OwnAncestor DEF NodeOK
<1>5. NodeOK'
  <2>0. PICK n \in Block : tip' = n /\ n = IF Len(block) > Len(tip) THEN block ELSE tip
    BY <1>1, <1>2
  <2>1. n \in known' /\ Len(n) <= TopHeight /\ wrong' \subseteq Height
    <3>1. n \in known'
      BY <1>2, <2>0 DEF NodeOK
    <3>2. Len(tip) <= TopHeight /\ wrong' \subseteq Height
      BY <1>2 DEF NodeOK, Height
    <3>3. Len(n) <= TopHeight
      BY <1>1, <1>2, <2>0, <3>2, Heights
    <3> QED
      BY <3>1, <3>2, <3>3
  <2>2. \A b \in known' : Len(b) <= Len(n)
    <3>1. Len(tip) <= Len(n) /\ Len(block) <= Len(n) /\ Len(n) \in Nat
      BY <1>1, <2>0
    <3>2. \A b \in known : Len(b) <= Len(n)
      BY <1>1, <1>2, <1>4, <3>1 DEF NodeOK
    <3> QED
      BY <1>2, <3>1, <3>2
  <2>3. \A b \in known' : \A h \in 0..Len(b) : Ancestor(b, h) \in known'
    <3>1. ASSUME NEW b \in known, NEW h \in 0..Len(b) PROVE Ancestor(b, h) \in known'
      BY <1>2, <3>1 DEF NodeOK
    <3> QED
      BY <1>2, <1>3, <3>1
  <2> QED
    BY <1>4, <2>0, <2>1, <2>2, <2>3 DEF NodeOK, Ancestor
<1>6. ASSUME Depth <= 2, NEW h \in Nat, h + 2 <= Len(tip), tip' = block
      PROVE  Ancestor(block, h) = Ancestor(tip, h)
  <2> DEFINE k == Len(tip) - Depth
             a == Ancestor(tip, k)
  <2>1. k \in Nat /\ k <= Len(tip) /\ h <= k
    BY <1>1, <1>6, Heights
  <2>2. a \in Block /\ Len(a) = k /\ IsPrefix(a, block)
    BY <1>1, <1>2, <2>1, AncestorIs
  <2> HIDE DEF a, k
  <2>3. Ancestor(block, h) = Ancestor(a, h)
    BY <1>1, <1>6, <2>1, <2>2, PrefixShares
  <2>4. Ancestor(a, h) = Ancestor(tip, h)
    BY <1>1, <1>6, <2>1, AncestorOfAncestor DEF a
  <2> QED
    BY <2>3, <2>4
<1> QED
  BY <1>1, <1>2, <1>5, <1>6

LEMMA InitOK == Init => NodeOK /\ CheckOK /\ StableOK
<1> SUFFICES ASSUME Init PROVE NodeOK /\ CheckOK /\ StableOK
  OBVIOUS
<1>1. <<>> \in Block /\ Len(<<>>) = 0 /\ Ancestor(<<>>, 0) = <<>>
  BY EmptySeq, OwnAncestor DEF Block
<1>2. wrong \subseteq Height
  BY Heights DEF Init, Height
<1>3. NodeOK
  BY <1>1, <1>2, Heights DEF Init, NodeOK
<1>4. DOMAIN rows = lo..(-1)
  BY DEF Init
<1>5. CheckOK
  BY <1>4, Heights DEF Init, CheckOK, Height, RowsRead
<1>6. StableOK
  BY DEF Init, StableOK, NoFalseAlarm
<1> QED
  BY <1>3, <1>5, <1>6

LEMMA RowsInRange ==
    ASSUME CheckOK
    PROVE  lo \in Nat /\ hi \in Int /\ DOMAIN rows \subseteq lo..hi
<1>1. lo \in Height /\ hi \in (-2)..TopHeight
  BY DEF CheckOK
<1>2. PICK end \in Int : RowsRead(end)
  BY DEF CheckOK
<1>3. lo \in Nat /\ hi \in Int
  BY <1>1, Heights
<1> QED
  BY <1>2, <1>3 DEF RowsRead

\* A request reads on from where the last one ended.
LEMMA RowsReadOn ==
    ASSUME CheckOK, Rows
    PROVE  \E end \in Int :
             /\ lo <= end /\ end <= hi /\ pc = "top" /\ DOMAIN rows' = lo..end
             /\ \A h \in lo..end : (h \in DOMAIN rows /\ rows'[h] = rows[h]) \/ rows'[h] \in RowsAt(h)
             /\ UNCHANGED <<nodeVars, pc, lo, hi, top, fetched, verdict>>
<1>1. lo \in Nat /\ hi \in Int /\ Chunk \in Nat \ {0}
  <2>1. lo \in Height /\ hi \in (-2)..TopHeight
    BY DEF CheckOK
  <2> QED
    BY <2>1, Heights
<1>2. PICK last \in Int : RowsRead(last)
  BY DEF CheckOK
<1>3. Cardinality(DOMAIN rows) = IF lo > last THEN 0 ELSE last - lo + 1
  BY <1>1, <1>2, FS_Interval DEF RowsRead
<1> DEFINE next == NextRow
           end == Min({hi, next + Chunk - 1})
<1>4. next \in Int /\ lo <= next /\ \A h \in Int : lo <= h /\ h < next => h \in DOMAIN rows
  BY <1>1, <1>2, <1>3 DEF RowsRead, NextRow
<1>5. Batch(next, end)
  BY DEF Rows
<1> HIDE DEF next
<1>6. pc = "top" /\ next <= hi
  BY <1>5 DEF Batch
<1>7. PICK full \in Int : full = next + Chunk - 1 /\ next <= full
  BY <1>1, <1>4
<1>8. end \in Int /\ end <= hi /\ (end = hi \/ end = full)
  <2>1. end = Min({hi, full})
    BY <1>7
  <2> HIDE DEF end
  <2>2. hi \in Int
    BY <1>1
  <2> QED
    BY <2>1, <2>2, LeastOfTwo
<1> HIDE DEF end
<1>9. PICK read : /\ \A h \in next..end : read[h] \in RowsAt(h)
                  /\ rows' = [h \in lo..end |-> IF h < next THEN rows[h] ELSE read[h]]
  BY <1>5 DEF Batch
<1>10. \A h \in lo..end : (h \in DOMAIN rows /\ rows'[h] = rows[h]) \/ rows'[h] \in RowsAt(h)
  BY <1>1, <1>4, <1>8, <1>9
<1>11. lo <= end /\ DOMAIN rows' = lo..end
  BY <1>1, <1>4, <1>6, <1>7, <1>8, <1>9
<1>12. UNCHANGED <<nodeVars, pc, lo, hi, top, fetched, verdict>>
  BY <1>5 DEF Batch
<1> QED
  BY <1>6, <1>8, <1>10, <1>11, <1>12

LEMMA LinksKnown ==
    ASSUME NodeOK, top \in known, NEW h \in Nat, h <= Len(top)
    PROVE  Walk(h) \in known /\ Len(Walk(h)) = h /\ Walk(h) \in Block /\ h <= TopHeight
<1>1. top \in Block /\ Len(top) \in Nat /\ Len(tip) \in Nat
  BY OwnAncestor DEF NodeOK
<1>2. Len(top) <= Len(tip) /\ Len(tip) <= TopHeight /\ h \in 0..Len(top)
  BY <1>1 DEF NodeOK
<1> QED
  BY <1>1, <1>2, AncestorIs, Heights DEF NodeOK, Walk

LEMMA NextChecks == NodeOK /\ CheckOK /\ [Next]_vars => NodeOK' /\ CheckOK'
<1> SUFFICES ASSUME NodeOK, CheckOK, [Next]_vars PROVE NodeOK' /\ CheckOK'
  OBVIOUS
<1>0. /\ lo \in Nat /\ hi \in Int /\ Len(tip) \in Nat /\ tip \in Block
      /\ top \in known => top \in Block /\ Len(top) \in Nat
  <2>1. lo \in Nat /\ hi \in Int
    BY RowsInRange
  <2> QED
    BY <2>1, OwnAncestor DEF NodeOK
<1>1. ASSUME NEW parent \in known, NEW label \in Label, Learn(parent, label) PROVE NodeOK' /\ CheckOK'
  <2>1. NodeOK' /\ known \subseteq known' /\ Len(tip) <= Len(tip') /\ Len(tip') \in Nat
    BY <1>1, LearnNode, OwnAncestor DEF NodeOK
  <2>2. UNCHANGED <<wrong, pc, lo, hi, top, fetched, rows, verdict>>
    BY <1>1 DEF Learn
  <2>3. hi + 2 <= Len(tip) => hi + 2 <= Len(tip')
    BY <1>0, <2>1
  <2>4. Unbroken => Unbroken'
    BY <2>2 DEF Unbroken, Walk
  <2> QED
    BY <2>1, <2>2, <2>3, <2>4 DEF CheckOK, RowsRead
<1>2. CASE Cut
  <2>1. /\ pc = "cut" /\ hi' \in (-2)..(Len(tip) - 2) /\ lo' \in Height
        /\ UNCHANGED <<nodeVars, top, fetched, rows>>
        /\ \/ pc' = "done" /\ verdict' \in {"no data", "consistent"}
           \/ ~(hi' < lo') /\ pc' = "top" /\ UNCHANGED verdict
    BY <1>2 DEF Cut, TakeRange
  <2>2. PICK n \in Nat, l \in Nat : n = Len(tip) /\ l = lo'
    BY <1>0, <2>1, Heights
  <2>3. PICK e \in (-2)..(n - 2) : hi' = e /\ n <= TopHeight /\ TopHeight \in Nat
    BY <2>1, <2>2, Heights DEF NodeOK
  <2>4. e \in (-2)..TopHeight /\ e + 2 <= n
    BY <2>3
  <2>5. DOMAIN rows = {} /\ verdict = "none" /\ top = NoBlock /\ fetched = {}
    BY <2>1 DEF CheckOK
  <2>6. (\E end \in Int : RowsRead(end))'
    <3>1. PICK end \in Int : end = l - 1
      OBVIOUS
    <3>2. l..end = {} /\ end < l
      BY <3>1
    <3>3. (RowsRead(end))'
      BY <2>1, <2>2, <2>5, <3>2 DEF RowsRead
    <3> QED
      BY <3>3
  <2>7. NodeOK'
    BY <2>1 DEF NodeOK, nodeVars, Ancestor
  <2>8. CASE pc' = "done" /\ verdict' \in {"no data", "consistent"}
    BY <2>1, <2>2, <2>3, <2>4, <2>5, <2>6, <2>7, <2>8 DEF CheckOK, nodeVars, Height
  <2>9. CASE ~(hi' < lo') /\ pc' = "top" /\ UNCHANGED verdict
    <3>1. pc' = "top" /\ verdict' = "none"
      BY <2>5, <2>9
    <3>2. lo' <= hi' /\ hi' + 2 <= Len(tip')
      BY <2>1, <2>2, <2>3, <2>4, <2>9 DEF nodeVars
    <3> QED
      BY <2>1, <2>3, <2>4, <2>5, <2>6, <2>7, <3>1, <3>2 DEF CheckOK, nodeVars, Height
  <2> QED
    BY <2>1, <2>8, <2>9
<1>3. CASE Top
  <2>1. pc = "top" /\ top = NoBlock /\ top' = tip /\ UNCHANGED <<nodeVars, pc, lo, hi, fetched, rows, verdict>>
    BY <1>3 DEF Top
  <2>2. fetched = {} /\ hi + 2 <= Len(tip) /\ tip \in known
    BY <2>1 DEF CheckOK, NodeOK
  <2>3. NodeOK'
    BY <2>1 DEF NodeOK, nodeVars, Ancestor
  <2> QED
    BY <2>1, <2>2, <2>3 DEF CheckOK, RowsRead, nodeVars
<1>4. CASE Headers
  <2>1. /\ pc = "top" /\ top # NoBlock /\ fetched' = {b \in known : Len(b) \in lo..Len(top)}
        /\ UNCHANGED <<nodeVars, pc, lo, hi, top, rows, verdict>>
    BY <1>4 DEF Headers
  <2>2. top \in known
    BY <2>1 DEF CheckOK
  <2>3. Unbroken'
    <3>1. ASSUME NEW h \in lo..Len(top) PROVE Walk(h) \in fetched'
      BY <1>0, <2>1, <2>2, LinksKnown
    <3> QED
      BY <2>1, <3>1 DEF Unbroken, Walk, Ancestor
  <2>4. NodeOK'
    BY <2>1 DEF NodeOK, nodeVars, Ancestor
  <2> QED
    BY <2>1, <2>3, <2>4 DEF CheckOK, RowsRead, nodeVars
<1>5. CASE Rows
  <2>1. PICK end \in Int :
             /\ lo <= end /\ end <= hi /\ pc = "top" /\ DOMAIN rows' = lo..end
             /\ \A h \in lo..end : (h \in DOMAIN rows /\ rows'[h] = rows[h]) \/ rows'[h] \in RowsAt(h)
             /\ UNCHANGED <<nodeVars, pc, lo, hi, top, fetched, verdict>>
    BY <1>5, RowsReadOn
  <2>2. NodeOK' /\ UNCHANGED <<known, tip, wrong>>
    BY <2>1 DEF NodeOK, nodeVars, Ancestor
  <2>4. RowsRead(end)'
    BY <2>1 DEF RowsRead
  <2>5. (\E n \in Int : RowsRead(n))'
    BY <2>4
  <2>6. Unbroken => Unbroken'
    BY <2>1 DEF Unbroken, Walk, Ancestor
  <2> QED
    BY <2>1, <2>2, <2>5, <2>6 DEF CheckOK
<1>6. CASE Compare
  <2>1. /\ pc = "top" /\ fetched # {} /\ DOMAIN rows = lo..hi /\ pc' = "done"
        /\ UNCHANGED <<nodeVars, lo, hi, top, fetched, rows>>
        /\ verdict' = IF ~ Unbroken THEN "broken"
                      ELSE IF \E h \in lo..hi : rows[h] \notin {Missing, Walk(h)}
                           THEN "fail" ELSE "consistent"
    BY <1>6 DEF Compare
  <2>2. Unbroken /\ top \in known /\ hi + 2 <= Len(top)
    BY <2>1 DEF CheckOK
  <2>3. verdict' \in {"fail", "consistent"}
    BY <2>1, <2>2
  <2>6. NodeOK' /\ Unbroken' /\ UNCHANGED wrong
    BY <2>1, <2>2 DEF NodeOK, nodeVars, Ancestor, Unbroken, Walk
  <2> QED
    BY <2>1, <2>3, <2>6 DEF CheckOK, RowsRead, nodeVars
<1>7. CASE UNCHANGED vars
  BY <1>7 DEF vars, nodeVars, NodeOK, CheckOK, RowsRead, Unbroken, Walk, Ancestor
<1> QED
  BY <1>1, <1>2, <1>3, <1>4, <1>5, <1>6, <1>7 DEF Next

LEMMA NextStable == Depth <= 2 /\ NodeOK /\ CheckOK /\ StableOK /\ [Next]_vars => StableOK'
<1> SUFFICES ASSUME Depth <= 2, NodeOK, CheckOK, StableOK, [Next]_vars PROVE StableOK'
  OBVIOUS
<1>0. /\ lo \in Nat /\ hi \in Int /\ DOMAIN rows \subseteq lo..hi
      /\ (pc = "top" => hi + 2 <= Len(tip))
      /\ (fetched # {} => top # NoBlock)
  BY RowsInRange DEF CheckOK
<1>1. ASSUME NEW parent \in known, NEW label \in Label, Learn(parent, label) PROVE StableOK'
  <2>1. UNCHANGED <<wrong, pc, lo, hi, top, fetched, rows, verdict>>
    BY <1>1 DEF Learn
  <2>2. \A h \in Nat : h + 2 <= Len(tip) => Ancestor(tip', h) = Ancestor(tip, h)
    BY <1>1, LearnNode
  <2>3. Len(tip) \in Nat
    BY OwnAncestor DEF NodeOK
  <2>4. pc = "top" => \A h \in 0..hi : h \in Nat /\ Ancestor(tip', h) = Ancestor(tip, h)
    <3>1. ASSUME pc = "top", NEW h \in 0..hi PROVE h \in Nat /\ h + 2 <= Len(tip)
      BY <1>0, <2>3, <3>1
    <3> QED
      BY <2>2, <3>1
  <2>5. \A h \in DOMAIN rows : h \in 0..hi
    BY <1>0
  <2>6. pc = "top" /\ top # NoBlock => \A h \in 0..hi : Ancestor(top', h) = Ancestor(tip', h)
    BY <2>1, <2>4 DEF StableOK
  <2> QED
    BY <2>1, <2>4, <2>5, <2>6 DEF StableOK, NoFalseAlarm
<1>2. CASE Cut
  <2>1. DOMAIN rows = {} /\ top = NoBlock /\ verdict = "none"
    BY <1>2 DEF Cut, CheckOK
  <2>2. UNCHANGED <<rows, top>> /\ verdict' # "fail"
    BY <1>2, <2>1 DEF Cut, TakeRange
  <2> QED
    BY <2>1, <2>2 DEF StableOK, NoFalseAlarm
<1>3. CASE Top
  BY <1>3 DEF Top, StableOK, NoFalseAlarm, nodeVars, Ancestor
<1>4. CASE Headers
  BY <1>4 DEF Headers, StableOK, NoFalseAlarm, nodeVars, Ancestor
<1>5. CASE Rows
  <2>1. PICK end \in Int :
             /\ lo <= end /\ end <= hi /\ pc = "top" /\ DOMAIN rows' = lo..end
             /\ \A h \in lo..end : (h \in DOMAIN rows /\ rows'[h] = rows[h]) \/ rows'[h] \in RowsAt(h)
             /\ UNCHANGED <<nodeVars, pc, lo, hi, top, fetched, verdict>>
    BY <1>5, RowsReadOn
  <2>2. \A h : h \notin wrong /\ rows'[h] \in RowsAt(h) => rows'[h] \in {Missing, Ancestor(tip, h)}
    BY DEF RowsAt
  <2>3. \A h \in DOMAIN rows' : h \notin wrong => rows'[h] \in {Missing, Ancestor(tip, h)}
    BY <2>1, <2>2 DEF StableOK
  <2> QED
    BY <2>1, <2>3 DEF StableOK, NoFalseAlarm, nodeVars, Ancestor
<1>6. CASE Compare
  <2>1. /\ pc = "top" /\ fetched # {} /\ DOMAIN rows = lo..hi /\ pc' = "done"
        /\ UNCHANGED <<nodeVars, lo, hi, top, fetched, rows>>
        /\ verdict' = "fail" => \E h \in lo..hi : rows[h] \notin {Missing, Walk(h)}
    BY <1>6 DEF Compare
  <2>2. \A h \in lo..hi : h \notin wrong => rows[h] \in {Missing, Walk(h)}
    <3>1. ASSUME NEW h \in lo..hi, h \notin wrong PROVE rows[h] \in {Missing, Walk(h)}
      <4>1. h \in 0..hi /\ top # NoBlock
        BY <1>0, <2>1
      <4> QED
        BY <2>1, <3>1, <4>1 DEF StableOK, Walk
    <3> QED
      BY <3>1
  <2>3. ASSUME verdict' = "fail" PROVE wrong \cap (lo..hi) # {}
    BY <2>1, <2>2, <2>3
  <2> QED
    BY <2>1, <2>3 DEF StableOK, NoFalseAlarm, nodeVars
<1>7. CASE UNCHANGED vars
  BY <1>7 DEF vars, nodeVars, StableOK, NoFalseAlarm, Ancestor
<1> QED
  BY <1>1, <1>2, <1>3, <1>4, <1>5, <1>6, <1>7 DEF Next

\* Forks no deeper than the cut is kept below the tip leave the range of a check that
\* has ended alone as well.
LEMMA NextLasts ==
    (Depth <= 2 /\ NodeOK /\ CheckOK /\ StableOK /\ LastingOK /\ [Next]_vars) => LastingOK'
<1> SUFFICES ASSUME Depth <= 2, NodeOK, CheckOK, StableOK, LastingOK, [Next]_vars, verdict' = "consistent"
             PROVE  hi' + 2 <= Len(tip') /\ \A h \in lo'..hi' : rows'[h] \in {Missing, Ancestor(tip', h)}
  BY DEF LastingOK, VerdictLasts, Ancestor
<1>0. lo \in Nat /\ hi \in Int /\ Len(tip) \in Nat
  BY RowsInRange, OwnAncestor DEF NodeOK
<1>1. ASSUME NEW parent \in known, NEW label \in Label, Learn(parent, label)
      PROVE  hi' + 2 <= Len(tip') /\ \A h \in lo'..hi' : rows'[h] \in {Missing, Ancestor(tip', h)}
  <2>1. /\ UNCHANGED <<lo, hi, rows, verdict>> /\ Len(tip) <= Len(tip') /\ Len(tip') \in Nat
        /\ \A h \in Nat : h + 2 <= Len(tip) => Ancestor(tip', h) = Ancestor(tip, h)
    BY <1>1, LearnNode, OwnAncestor DEF Learn, NodeOK
  <2>2. hi + 2 <= Len(tip) /\ \A h \in lo..hi : rows[h] \in {Missing, Ancestor(tip, h)}
    BY <2>1 DEF LastingOK, VerdictLasts
  <2>3. \A h \in lo..hi : h \in Nat /\ h + 2 <= Len(tip)
    BY <1>0, <2>2
  <2>4. hi + 2 <= Len(tip')
    BY <1>0, <2>1, <2>2
  <2> QED
    BY <2>1, <2>2, <2>3, <2>4
<1>2. CASE Compare
  <2>1. /\ pc = "top" /\ fetched # {} /\ UNCHANGED <<nodeVars, lo, hi, top, rows>>
        /\ \A h \in lo..hi : rows[h] \in {Missing, Walk(h)}
    BY <1>2 DEF Compare
  <2>2. top # NoBlock /\ hi + 2 <= Len(tip)
    BY <2>1 DEF CheckOK
  <2>3. \A h \in lo..hi : Walk(h) = Ancestor(tip, h)
    BY <1>0, <2>1, <2>2 DEF StableOK, Walk
  <2> QED
    BY <2>1, <2>2, <2>3 DEF nodeVars, Ancestor
<1>3. CASE Cut
  <2>1. /\ verdict = "none" /\ hi' \in (-2)..(Len(tip) - 2) /\ lo' \in Height /\ UNCHANGED tip
        /\ hi' < lo' \/ verdict' = verdict
    BY <1>3 DEF Cut, TakeRange, CheckOK, nodeVars
  <2>2. lo'..hi' = {}
    BY <1>0, <2>1, Heights
  <2> QED
    BY <1>0, <2>1, <2>2
<1>4. CASE Top \/ Headers \/ Rows
  BY <1>4 DEF Top, Headers, Rows, Batch, CheckOK
<1>5. CASE UNCHANGED vars
  BY <1>5 DEF vars, nodeVars, LastingOK, VerdictLasts, Ancestor
<1> QED
  BY <1>1, <1>2, <1>3, <1>4, <1>5 DEF Next

--------------------------------------------------------------------------------
(* The theorems.                                                             *)

\* The node's view stays a tree with its tip in it, and the check where checkChain can
\* be (oracle.ts:41-61).
THEOREM TypeCorrect == Spec => []TypeOK
<1>1. NodeOK /\ CheckOK => TypeOK
  <2> SUFFICES ASSUME NodeOK, CheckOK PROVE TypeOK
    OBVIOUS
  <2>1. \A b \in known : b = <<>> \/ Front(b) \in known
    <3>1. ASSUME NEW b \in known, b # <<>> PROVE Front(b) \in known
      <4>1. b \in Block /\ Len(b) \in Nat \ {0}
        BY <3>1, EmptySeq DEF NodeOK, Block
      <4>2. Len(b) - 1 \in 0..Len(b)
        BY <4>1
      <4>3. Ancestor(b, Len(b) - 1) \in known
        BY <4>2 DEF NodeOK
      <4> QED
        BY <4>3 DEF Front, Ancestor
    <3> QED
      BY <3>1
  <2>2. DOMAIN rows \subseteq lo..hi
    BY RowsInRange
  <2>3. verdict \in {"none", "no data", "broken", "fail", "consistent"} /\ top \in known \cup {NoBlock}
    BY DEF CheckOK
  <2> QED
    BY <2>1, <2>2, <2>3 DEF TypeOK, NodeOK, CheckOK
<1> QED
  BY <1>1, InitOK, NextChecks, PTL DEF Spec

\* The walk back from the cut finds every link (lib.ts:627-645).
THEOREM Unbreakable == Spec => []WalkIsUnbroken
<1>1. CheckOK => WalkIsUnbroken
  BY DEF CheckOK, WalkIsUnbroken
<1> QED
  BY <1>1, InitOK, NextChecks, PTL DEF Spec

\* A module that is right is never reported wrong, as long as no reorganisation is
\* deeper than the two blocks the check leaves out (oracle.ts:4, 43, 47, 81).
THEOREM NoAlarm == ASSUME Depth <= 2 PROVE Spec => []NoFalseAlarm
<1>1. StableOK => NoFalseAlarm
  BY DEF StableOK
<1>2. NodeOK /\ CheckOK /\ StableOK /\ [Next]_vars => (NodeOK /\ CheckOK /\ StableOK)'
  BY NextChecks, NextStable
<1> QED
  BY <1>1, <1>2, InitOK, PTL DEF Spec

\* What a consistent verdict says of the rows it read holds of the node's fork, then and
\* on every one it adopts later, as long as none replaces more than two blocks: no row
\* of an orphan passes (oracle.ts:3-4, 6-7, 11-12, 43).
THEOREM VerdictStands == ASSUME Depth <= 2 PROVE Spec => []VerdictLasts
<1>1. Init => LastingOK
  BY DEF Init, LastingOK, VerdictLasts
<1>2. LastingOK => VerdictLasts
  BY DEF LastingOK, VerdictLasts
<1>3. NodeOK /\ CheckOK /\ StableOK /\ LastingOK /\ [Next]_vars => (NodeOK /\ CheckOK /\ StableOK /\ LastingOK)'
  BY NextChecks, NextStable, NextLasts
<1> QED
  BY <1>1, <1>2, <1>3, InitOK, PTL DEF Spec
=============================================================================
