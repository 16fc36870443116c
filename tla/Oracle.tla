--------------------------------- MODULE Oracle ---------------------------------
(***************************************************************************)
(* ts/src/oracle.ts, one chain: the module's rows against the node's       *)
(* canonical headers.  The two are read by several requests, from a chain  *)
(* that grows and reorganises between any two of them.                     *)
(*                                                                         *)
(* A block is the sequence of its ancestors' labels and its own, so a      *)
(* prefix is an ancestor and the length is the height; <<>> is genesis.    *)
(* The node knows the blocks of losing forks too, and takes the longest    *)
(* fork for its own.  What the module holds is what its fork holds, which  *)
(* is what BlockHistory establishes, but for the heights in wrong, whose   *)
(* rows name the block of any fork or of none.                             *)
(*                                                                         *)
(* Left out: the encodings, the block times, which are compared as the     *)
(* hashes are, the row of latest, which is read and printed only, and the  *)
(* pages of a header read: a later page could only bring more orphans.     *)
(* Chains are checked independently.  A request that fails ends the check. *)
(***************************************************************************)
EXTENDS Integers, FiniteSets, SequencesExt

CONSTANTS
    Label,          \* tells the children of a block apart
    Missing, Wrong, \* a row that is not there, and one no fork holds
    NoBlock,
    Depth,          \* how far back a reorganisation goes
    Chunk,          \* how many rows one request reads
    TopHeight,      \* bound on heights
    BlockBound      \* bound on the blocks there ever are

ASSUME BoundAssumption == {Depth, TopHeight, BlockBound} \subseteq Nat /\ Chunk \in Nat \ {0}
ASSUME MarkAssumption ==
    /\ Missing # Wrong
    /\ \A n \in 0..TopHeight : {Missing, Wrong, NoBlock} \cap [1..n -> Label] = {}

VARIABLES
    known,          \* the blocks the node knows
    tip,            \* the last block of its canonical fork
    wrong,          \* heights whose rows need not be their fork's
    pc,             \* the check's progress
    lo, hi,         \* rep.from, rep.to
    top,            \* canonicalHeaders: the cut it walks back from
    fetched,        \* headers(): every block it was served
    rows,           \* moduleRows: the rows read so far
    verdict

nodeVars == <<known, tip, wrong>>
vars == <<nodeVars, pc, lo, hi, top, fetched, rows, verdict>>

Height == 0..TopHeight
Ancestor(b, h) == SubSeq(b, 1, h)

--------------------------------------------------------------------------------
(* The node. *)

\* A block arrives, on the fork of the tip or beside it.
Learn(parent, label) ==
    LET block == Append(parent, label) IN
    /\ Len(parent) < TopHeight
    /\ Cardinality(known) < BlockBound
    /\ block \notin known
    /\ IsPrefix(Ancestor(tip, Len(tip) - Depth), block)
    /\ known' = known \cup {block}
    /\ tip' = IF Len(block) > Len(tip) THEN block ELSE tip
    /\ UNCHANGED <<wrong, pc, lo, hi, top, fetched, rows, verdict>>

\* The row of height h as the open block's fork shows it.  Block h + 1 writes it,
\* if some recorder attested there.  A wrong one may name a block that was orphaned.
RowsAt(h) ==
    IF h \in wrong THEN {Wrong} \cup {b \in known : Len(b) = h}
    ELSE IF h \in 1..(Len(tip) - 1) THEN {Ancestor(tip, h), Missing} ELSE {Missing}

--------------------------------------------------------------------------------
(* The check of one chain. *)

\* checkChain: the range, and its count of heights.  An empty one is not read, and
\* has no data only if the count is 0: below that it passes for consistent.
TakeRange ==
    /\ lo' \in Height
    /\ IF hi' < lo'
       THEN pc' = "done" /\ verdict' = IF hi' - lo' + 1 = 0 THEN "no data" ELSE "consistent"
       ELSE pc' = "top" /\ UNCHANGED verdict
    /\ UNCHANGED <<nodeVars, top, fetched, rows>>

\* Mutant: the last two heights are checked as well.
CutToTheTip ==
    /\ pc = "cut"
    /\ hi' \in (-2)..Len(tip)
    /\ TakeRange

\* main: the cut.  --to may end the range earlier, --from start it anywhere.
Cut ==
    /\ pc = "cut"
    /\ hi' \in (-2)..(Len(tip) - 2)
    /\ TakeRange

\* canonicalHeaders: a cut of its own.
Top ==
    /\ pc = "top" /\ top = NoBlock
    /\ top' = tip
    /\ UNCHANGED <<nodeVars, pc, lo, hi, fetched, rows, verdict>>

\* Mutant: headers are fetched up to the range's end only.
HeadersOfTheRange ==
    /\ pc = "top" /\ top # NoBlock /\ fetched = {}
    /\ fetched' = {b \in known : Len(b) \in lo..hi}
    /\ UNCHANGED <<nodeVars, pc, lo, hi, top, rows, verdict>>

\* headers: all the node knows from the range's start to the cut, orphans too.
Headers ==
    /\ pc = "top" /\ top # NoBlock /\ fetched = {}
    /\ fetched' = {b \in known : Len(b) \in lo..Len(top)}
    /\ UNCHANGED <<nodeVars, pc, lo, hi, top, rows, verdict>>

\* The heights of one request, the next ones not read yet.
Batch(next, end) ==
    /\ pc = "top" /\ next <= hi
    /\ \E read \in [next..end -> UNION {RowsAt(h) : h \in next..end}] :
          /\ \A h \in next..end : read[h] \in RowsAt(h)
          /\ rows' = [h \in lo..end |-> IF h < next THEN rows[h] ELSE read[h]]
    /\ UNCHANGED <<nodeVars, pc, lo, hi, top, fetched, verdict>>

NextRow == lo + Cardinality(DOMAIN rows)

\* moduleRows, beside the headers: one request for each Chunk of heights.
Rows == Batch(NextRow, Min({hi, NextRow + Chunk - 1}))

\* Mutant: the reference of a height is any block served for it.
WalkByHeight(h) == CHOOSE b \in fetched : Len(b) = h

\* The walk from the cut along parent links.
Walk(h) == Ancestor(top, h)

\* The walk needs every link between the cut and the range's start.
Unbroken == \A h \in lo..Len(top) : Walk(h) \in fetched

\* Mutant: a row that names any block it was served passes.
CompareServed ==
    /\ pc = "top" /\ fetched # {} /\ DOMAIN rows = lo..hi
    /\ pc' = "done"
    /\ verdict' = IF ~ Unbroken THEN "broken"
                  ELSE IF \E h \in lo..hi : rows[h] \notin fetched \cup {Missing}
                       THEN "fail" ELSE "consistent"
    /\ UNCHANGED <<nodeVars, lo, hi, top, fetched, rows>>

\* The rows that are there against the walk.
Compare ==
    /\ pc = "top" /\ fetched # {} /\ DOMAIN rows = lo..hi
    /\ pc' = "done"
    /\ verdict' = IF ~ Unbroken THEN "broken"
                  ELSE IF \E h \in lo..hi : rows[h] \notin {Missing, Walk(h)}
                       THEN "fail" ELSE "consistent"
    /\ UNCHANGED <<nodeVars, lo, hi, top, fetched, rows>>

--------------------------------------------------------------------------------
Init ==
    /\ known = {<<>>} /\ tip = <<>>
    /\ wrong \in {{}} \cup {{h} : h \in 1..TopHeight}
    /\ pc = "cut" /\ lo = 0 /\ hi = 0
    /\ top = NoBlock /\ fetched = {} /\ rows = [h \in {} |-> Missing]
    /\ verdict = "none"

Next ==
    \/ \E parent \in known, label \in Label : Learn(parent, label)
    \/ Cut \/ Top \/ Headers \/ Rows \/ Compare

Spec == Init /\ [][Next]_vars

--------------------------------------------------------------------------------
(* Properties. *)

\* The node's view is a tree of blocks with its tip in it, and the check is
\* where checkChain can be.
TypeOK ==
    /\ \A b \in known : b = <<>> \/ Front(b) \in known
    /\ tip \in known /\ \A b \in known : Len(b) <= Len(tip)
    /\ wrong \subseteq Height
    /\ pc \in {"cut", "top", "done"} /\ lo \in Height /\ hi \in (-2)..TopHeight
    /\ top \in known \cup {NoBlock} /\ fetched \subseteq known
    /\ DOMAIN rows \subseteq lo..hi
    /\ verdict \in {"none", "no data", "broken", "fail", "consistent"}

\* A module that is right is never reported to disagree with the node, although
\* rows and headers are read at different times (oracle.ts:4, 43, 47, 81).
NoFalseAlarm == verdict = "fail" => wrong \cap (lo..hi) # {}

\* The walk finds every parent link: an arrival between the cut and the header
\* reads never breaks it (lib.ts:627-645).
WalkIsUnbroken == verdict # "broken"

\* What a consistent verdict says of the rows it read stays so: each is of the fork the
\* node adopts, now and later.  A row that names an orphan, or no block, is found, since
\* the rows are held against the walk, and what is adopted later shares the range, which
\* ends two blocks below the cut (oracle.ts:3-4, 6-7, 11-12, 43, 81).
VerdictLasts ==
    verdict = "consistent" => \A h \in lo..hi : rows[h] \in {Missing, Ancestor(tip, h)}

\* What that rests on: the node's fork keeps reaching two blocks past the range.
LastingOK == verdict = "consistent" => hi + 2 <= Len(tip) /\ VerdictLasts

\* A check that inspected nothing says so: "3 = zero heights inspected", not
\* "0 = every recorded row matches the node" (oracle.ts:12).
ConsistentInspects == verdict = "consistent" => lo <= hi
=============================================================================
