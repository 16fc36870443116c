-------------------------------- MODULE MCRelay ---------------------------------
(***************************************************************************)
(* A small instance of Relay: the file the deploy tool writes, the same    *)
(* signed, and files that differ from them in one field, or in the two     *)
(* that go together in a loose text.                                       *)
(***************************************************************************)
EXTENDS Relay

CONSTANTS c1, c2

Own(c) == Build([chain |-> c, payer |-> "ours", signer |-> "ours", limit |-> "ours",
                 price |-> "ours", created |-> 0, ttl |-> "ours"])

Strangers == [Own(c1) EXCEPT !.payer = "another", !.signer = "another"]

Rejected(cmd) ==
    {[cmd EXCEPT !.network = "another"], [cmd EXCEPT !.chain = NoChain],
     [cmd EXCEPT !.limit = "another"], [cmd EXCEPT !.form = "none"]}

Altered(cmd) ==
    {[cmd EXCEPT !.scope = "wider"], [cmd EXCEPT !.ns = "another"],
     [cmd EXCEPT !.ttl = "another"], [cmd EXCEPT !.extra = TRUE],
     [cmd EXCEPT !.code = "other", !.atNode = "other"],
     [cmd EXCEPT !.form = "loose", !.atNode = "definition"],
     [cmd EXCEPT !.form = "loose", !.code = "other"]}

Written(cmd) == [cmd |-> cmd, hashed |-> TRUE, sigs |-> "none"]
Signed(cmd) == [cmd |-> cmd, hashed |-> TRUE, sigs |-> "good"]

SomeFiles ==
    {Written(Own(c1)), Written(Own(c2)), Signed(Own(c1)), Signed(Strangers),
     [Signed(Own(c1)) EXCEPT !.hashed = FALSE], [Signed(Strangers) EXCEPT !.sigs = "bad"],
     Signed([Strangers EXCEPT !.code = "definition", !.atNode = "definition"])}
        \cup {Written(cmd) : cmd \in Altered(Own(c1)) \cup Rejected(Own(c1))}
        \cup {Signed(cmd) : cmd \in Altered(Strangers)}
=============================================================================
