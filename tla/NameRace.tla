------------------------------- MODULE NameRace -------------------------------
(***************************************************************************)
(* What the deploy ceremony promises, with no file, run or network in      *)
(* sight.  On every chain one name is raced for.  The operator enters with *)
(* one ticket at a time, and not before the last one has run out; others   *)
(* may take the name whenever it is free.  The name goes to a ticket that  *)
(* is in play or to a copy, and stays there.                               *)
(***************************************************************************)
CONSTANTS
    Chain,
    Ticket,         \* what the operator can take a name with
    Free, Copy

VARIABLES
    holder,         \* per chain: who holds the name
    tickets         \* per chain: the operator's tickets that can still take it

vars == <<holder, tickets>>

Init ==
    /\ holder = [c \in Chain |-> Free]
    /\ tickets = [c \in Chain |-> {}]

\* The operator enters the race of a chain where it has no ticket.
Enter(c) ==
    /\ holder[c] = Free
    /\ tickets[c] = {}
    /\ \E t \in Ticket : tickets' = [tickets EXCEPT ![c] = {t}]
    /\ UNCHANGED holder

\* A race is won, by the operator's ticket or by a copy, and is over.
Win(c, winner) ==
    /\ holder[c] = Free
    /\ holder' = [holder EXCEPT ![c] = winner]
    /\ tickets' = [tickets EXCEPT ![c] = {}]

\* Time passes: on any of the chains, tickets run out.
Expire ==
    /\ tickets' \in [Chain -> SUBSET Ticket]
    /\ \A c \in Chain : tickets'[c] \subseteq tickets[c]
    /\ UNCHANGED holder

Next ==
    \/ \E c \in Chain : Enter(c) \/ Win(c, Copy) \/ \E t \in tickets[c] : Win(c, t)
    \/ Expire

Spec == Init /\ [][Next]_vars
=============================================================================
