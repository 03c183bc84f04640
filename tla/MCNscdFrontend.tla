--------------------------- MODULE MCNscdFrontend ---------------------------
(* NscdFrontend for TLC: a policy of a few rules, requests of every kind    *)
(* the code tells apart, and the replies, whole and broken, of a real nscd. *)
EXTENDS NscdFrontend

CONSTANTS
  c1, c2, c3  \* clients

Name(labels) == Spelling(labels, FALSE, 0)

Blocked   == Name(<<"ads", "test">>)
BlockedUp == [Blocked EXCEPT !.upper = TRUE, !.dots = 1]
Plain     == Name(<<"ok", "test">>)

MCNameLen(name) == IF name = LocalName THEN 13 ELSE 8

\* Client c2 may look up blocked names; nobody else may.
MCExecute(program, ctx) ==
  LET Bool(b) == IF b THEN "true" ELSE "false"
  IN  CASE program = "exempt" -> Bool(ctx.uid = 2 /\ blocked_by(ctx, "ads"))
        [] program = "listed" -> Bool(blocked_by(ctx, "ads"))
        [] program = "local"  -> Bool(ctx.hostname = LocalName)

MCEngine ==
  [rules |-> <<[program |-> "exempt", verdict |-> "Passthrough"],
               [program |-> "listed", verdict |-> "Deny"],
               [program |-> "local",  verdict |-> "Allow"]>>,
   blocklists |-> [l \in {"ads"} |-> [exact |-> {}, suffixes |-> {Blocked}]],
   default_verdict |-> "Passthrough"]

Cred(u) == [uid |-> u, gid |-> u, pid |-> 100 + u]

\* The kernel tells who c1 and c2 are; for c3 it cannot.
MCPeer ==
  [c \in Clients |-> CASE c = c1 -> Cred(1) [] c = c2 -> Cred(2) [] OTHER -> None]

Message(ty, name) == [version |-> VERSION, ty |-> ty, key_len |-> 9, name |-> name]

GetPwByName == 0

\* Every kind of request, well-formed or not.
AllMessages ==
  {Message(GetAi, BlockedUp), Message(GetHostByName, Plain),
   Message(GetHostByNameV6, LocalName), Message(GetPwByName, None),
   [Message(GetAi, Plain) EXCEPT !.version = 1],
   [Message(GetAi, Plain) EXCEPT !.key_len = MAX_KEY_LEN + 1],
   [Message(GetAi, None) EXCEPT !.key_len = 0]}

FewMessages == {Message(GetAi, BlockedUp), Message(GetHostByName, Plain),
                Message(GetPwByName, None)}

Sent(len, words) == [len |-> len, words |-> words, alias_len |-> 9]

\* One IPv4 address: 4 bytes, a family byte, a name of 9 bytes with its NUL.
AiWords(f)  == <<VERSION, f, 1, 4, 9, 0, 0, 0>>
\* A name of 9 bytes, one IPv4 address, some aliases.
HstWords(f, aliases) == <<VERSION, f, 9, aliases, AF_INET, 4, 1, 0>>

AiGood  == Sent(38, AiWords(1))
HstGood == Sent(45, HstWords(1, 0))

\* The last is too large for the socket buffer.
MCReplies ==
  {AiGood, HstGood,
   Sent(24, AiWords(0)), Sent(32, HstWords(-1, 0)),        \* not found, not served
   Sent(0, AiWords(1)), Sent(37, AiWords(1)),              \* cut short
   Sent(44, HstWords(1, 0)),
   Sent(38, <<1, 1, 1, 4, 9, 0, 0, 0>>),                   \* wrong version
   Sent(58, HstWords(1, 1)),                               \* an alias of 9 bytes
   Sent(300000, AiWords(1))}

FewReplies == {HstGood, Sent(24, AiWords(-1)), Sent(44, HstWords(1, 0))}

\* The alias arrives, or only two of its bytes.
AliasReplies == {Sent(58, HstWords(1, 1)), Sent(51, HstWords(1, 1))}
=============================================================================
