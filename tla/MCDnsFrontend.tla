--------------------------- MODULE MCDnsFrontend ----------------------------
(* DnsFrontend for TLC: two UDP clients, one of them a relay, and a TCP    *)
(* connection, a relay's or nobody's; queries the policy denies, answers   *)
(* and lets pass, two of them with one id, and messages at the limits of   *)
(* Query::parse.                                                           *)
EXTENDS DnsFrontend

CONSTANTS
  u1, u2, t1  \* clients

Name(labels) == Spelling(labels, FALSE, 0)

Blocked == Name(<<"ads", "test">>)
Plain   == Name(<<"ok", "test">>)

MCExecute(program, ctx) ==
  LET Bool(b) == IF b THEN "true" ELSE "false"
  IN  CASE program = "listed" -> Bool(blocked_by(ctx, "ads"))
        [] program = "local"  -> Bool(ctx.hostname = LocalName)

MCEngine ==
  [rules |-> <<[program |-> "listed", verdict |-> "Deny"],
               [program |-> "local",  verdict |-> "Allow"]>>,
   blocklists |-> [l \in {"ads"} |-> [exact |-> {}, suffixes |-> {Blocked, Name(<<"d">>)}]],
   default_verdict |-> "Passthrough"]

Uid(u) == [uid |-> u, gid |-> None, pid |-> None]

MCTransport == [c \in Clients |-> IF c = t1 THEN "Tcp" ELSE "Udp"]

\* u1 has closed its socket before it is looked for; u2 is nscd, and so is
\* t1, if it is still there to be found.
MCIdentities ==
  [c \in Clients |-> CASE c = u1 -> {unknown} [] c = u2 -> {Uid(9)} [] c = t1 -> {unknown, Uid(9)}]

\* A query whose labels end at these offsets, and nothing after the class.
Query(id, ends, name, qtype) ==
  [id |-> id, len |-> (IF ends = <<>> THEN 12 ELSE ends[Len(ends)]) + 5,
   qr |-> FALSE, qdcount |-> 1, ends |-> ends, name |-> name, qtype |-> qtype]

AskBlocked == Query(1, <<16, 22>>, [Blocked EXCEPT !.upper = TRUE, !.dots = 1], TYPE_A)
AskPlain   == Query(2, <<15, 20>>, Plain, TYPE_AAAA)
\* Another question that happens to have the id of AskPlain.
SameId     == Query(2, <<16, 21>>, Name(<<"www", "test">>), TYPE_AAAA)
AskLocal   == Query(4, <<20, 26>>, LocalName, TYPE_A)
\* Labels of 63, 63, 63 and 62 octets: 255 with their length octets.
Longest    == Query(5, <<76, 140, 204, 267>>, Name(<<"a", "b", "c", "d">>), TYPE_A)
\* 508 octets of labels with their length octets.
TooLong    == Query(6, <<76, 140, 204, 268, 292, 356, 420, 484, 520>>, Name(<<"a", "b", "c", "e">>), TYPE_A)

MCSends ==
  [c \in Clients |-> CASE c = u1 -> {AskLocal}
                       [] c = u2 -> {AskPlain, SameId, Longest, TooLong}
                       [] c = t1 -> {AskBlocked}]
=============================================================================
