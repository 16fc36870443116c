------------------------------ MODULE BlockRecord ------------------------------
(***************************************************************************)
(* What the block-history module promises, with no transaction, table or   *)
(* capability in sight: the history of one chain is a fork that grows and  *)
(* may be rewound, and the record remembers some of the blocks of that     *)
(* fork.  A block can be remembered only while the very next block is      *)
(* being built, and whatever is remembered is what the fork holds.         *)
(*                                                                         *)
(* The fork is the sequence of closed blocks: fork[h + 1] is the block of  *)
(* height h, and the block under construction has height Len(fork).        *)
(***************************************************************************)
EXTENDS Naturals, Sequences

CONSTANTS
    Header,     \* what the record keeps of a block: its hash and its time
    Capacity    \* heights at or above it have no place in the record

VARIABLES
    fork,       \* the closed blocks of the current fork
    record      \* the remembered blocks: a set of <<height, header>> pairs

vars == <<fork, record>>

Remembered == {entry[1] : entry \in record}

Init == fork = <<>> /\ record = {}

\* The block under construction is closed: from now on its height can be
\* remembered, and the height before it no longer can.
Grow ==
    /\ \E header \in Header : fork' = Append(fork, header)
    /\ UNCHANGED record

\* A transaction of the block under construction remembers the block before it.
Witness ==
    LET h == Len(fork) - 1 IN
    /\ Len(fork) > 0
    /\ h < Capacity
    /\ h \notin Remembered
    /\ record' = record \cup {<<h, fork[Len(fork)]>>}
    /\ UNCHANGED fork

\* The chain leaves this fork.  The first k blocks are kept, and with them
\* what their own transactions remembered, the heights h with h + 1 < k.
Rewind(k) ==
    /\ fork' = SubSeq(fork, 1, k)
    /\ record' = {entry \in record : entry[1] + 1 < k}

Next == Grow \/ Witness \/ \E k \in 0..Len(fork) : Rewind(k)

Spec == Init /\ [][Next]_vars
=============================================================================
