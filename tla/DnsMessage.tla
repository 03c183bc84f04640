----------------------------- MODULE DnsMessage -----------------------------
(***************************************************************************)
(* DNS messages as src/dns.rs reads and writes them: Query::parse and the  *)
(* replies the front-end makes itself.  A message is its length, its id,   *)
(* the header fields parse looks at, the offsets at which the labels of    *)
(* its first name end (the walk over length octets, up to the closing zero *)
(* or wherever the walk runs out), and what the question says.             *)
(***************************************************************************)
EXTENDS Policy

TYPE_A    == 1
TYPE_AAAA == 28

HEADER_LEN == 12

WireMessages == [len : Nat, id : Nat, qr : BOOLEAN, qdcount : Nat,
                 ends : Seq(Nat), name : Hostnames, qtype : Nat]

\* Where the walk stands after i labels.
LabelEnd(m, i) == IF i = 0 THEN HEADER_LEN ELSE m.ends[i]

\* The length octet of label i.
LabelLen(m, i) == m.ends[i] - LabelEnd(m, i - 1) - 1

\* Mutant: no bound on the name's length.
LabelFits_unbounded(m, i) ==
  /\ LabelLen(m, i) <= 63
  /\ m.ends[i] <= m.len

\* One round of parse's loop succeeds: no compression pointer, the label is
\* inside the message, the name so far has at most 255 octets.
LabelFits(m, i) ==
  /\ LabelLen(m, i) <= 63
  /\ m.ends[i] <= m.len
  /\ m.ends[i] - HEADER_LEN <= 255

\* Past the closing zero, the type and the class.
QuestionEnd(m) == LabelEnd(m, Len(m.ends)) + 1 + 4

\* Query::parse accepts: a query with exactly one question, wholly there.
Parses(m) ==
  /\ m.len >= HEADER_LEN
  /\ ~m.qr
  /\ m.qdcount = 1
  /\ \A i \in 1 .. Len(m.ends) : LabelFits(m, i)
  /\ QuestionEnd(m) <= m.len

\* The name respond hands to the policy: lower-cased labels joined by dots
\* (a last label may itself end in dots), "." for no labels.
PolicyName(m) == IF m.ends = <<>> THEN Root ELSE [m.name EXCEPT !.upper = FALSE]

(***************************************************************************)
(* Replies: the id they carry, their code, the question they are about     *)
(* (None if they have none), their answers and their length.  "relayed" is *)
(* whatever the upstream server answered.                                  *)
(***************************************************************************)

Asks(m) == [name |-> m.name, qtype |-> m.qtype]

DnsReplies ==
  [id : Nat, rcode : {"NOERROR", "NXDOMAIN", "SERVFAIL", "FORMERR", "relayed"},
   about : [name : Hostnames, qtype : Nat] \cup {None}, ancount : Nat, len : Nat]

\* Header and question echoed, then the answers.
response(m, rcode, ancount, bytes) ==
  [id |-> m.id, rcode |-> rcode, about |-> Asks(m), ancount |-> ancount,
   len |-> QuestionEnd(m) + bytes]

nxdomain(m) == response(m, "NXDOMAIN", 0, 0)
servfail(m) == response(m, "SERVFAIL", 0, 0)

\* Those of the addresses that are of the type asked for; none, for other
\* types.
Matching(m, addrs) ==
  {i \in 1 .. Len(addrs) : \/ addrs[i] = "v4" /\ m.qtype = TYPE_A
                           \/ addrs[i] = "v6" /\ m.qtype = TYPE_AAAA}

\* Twelve octets per record and the address: 4 of A, 16 of AAAA.
dns_answer(m, addrs) ==
  LET n == Cardinality(Matching(m, addrs))
  IN  response(m, "NOERROR", n, n * (12 + IF m.qtype = TYPE_A THEN 4 ELSE 16))

\* The id is echoed when there is one.
formerr(m) ==
  [id |-> IF m.len >= 2 THEN m.id ELSE 0, rcode |-> "FORMERR", about |-> None,
   ancount |-> 0, len |-> HEADER_LEN]
=============================================================================
