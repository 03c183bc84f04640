---------------------------- MODULE MCLookupStack ----------------------------
(* LookupStack for TLC: two programs of different users, one of which may   *)
(* look up a blocked name, in every configuration of the front-ends.       *)
EXTENDS LookupStack

CONSTANTS p1, p2  \* programs

Blocked == Spelling(<<"ads", "test">>, FALSE, 0)
Ordinary == Spelling(<<"www", "test">>, FALSE, 0)

\* Program p2 may look up blocked names; nobody else may, nscd included.
MCExecute(program, ctx) ==
  LET Bool(b) == IF b THEN "true" ELSE "false"
  IN  CASE program = "exempt" -> Bool(ctx.uid = 2)
        [] program = "listed" -> Bool(blocked_by(ctx, "ads"))
        [] program = "local"  -> Bool(ctx.hostname = LocalName)

MCEngine ==
  [rules |-> <<[program |-> "local",  verdict |-> "Allow"],
               [program |-> "exempt", verdict |-> "Passthrough"],
               [program |-> "listed", verdict |-> "Deny"]>>,
   blocklists |-> [l \in {"ads"} |-> [exact |-> {Blocked}, suffixes |-> {}]],
   default_verdict |-> "Passthrough"]

Cred(u) == [uid |-> u, gid |-> u, pid |-> 100 + u]

MCCreds == [p \in {p1, p2, Nscd} |-> CASE p = p1 -> Cred(1) [] p = p2 -> Cred(2) [] OTHER -> Cred(9)]

MCNames == {Blocked, Ordinary, LocalName}
OneName == {Blocked}

AllConfigs ==
  [nscd : BOOLEAN, nss : BOOLEAN, dns : BOOLEAN, identify_processes : BOOLEAN,
   nscd_user : {None, 9}]

\* The DNS front-end behind the NSS module alone.
Hole(c) == c.nss /\ c.dns /\ ~c.nscd /\ c.nscd_user # None

HoleConfigs == {c \in AllConfigs : Hole(c)}
=============================================================================
