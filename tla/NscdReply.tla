----------------------------- MODULE NscdReply -----------------------------
(***************************************************************************)
(* Requests and replies of the nscd protocol, version 2 (src/nscd.rs).     *)
(*                                                                         *)
(* A reply is abstracted to what the code and glibc's client look at: the  *)
(* number of bytes, the 32-bit integers at the front (six for a GETAI      *)
(* reply, eight for a GETHOSTBYNAME one) and, which only glibc's client    *)
(* reads, the total length of the aliases as the body announces it.        *)
(***************************************************************************)
EXTENDS Policy

CONSTANT NameLen(_)  \* external: str::len of a spelling, in bytes

VERSION        == 2
MAX_KEY_LEN    == 1024
HEADER_LEN     == 12
AI_HEADER_LEN  == 24
HST_HEADER_LEN == 32

HOST_NOT_FOUND == 1
TRY_AGAIN      == 2
NO_DATA        == 4

AF_INET  == 2
AF_INET6 == 10

\* request_type of nscd-client.h, in declaration order: 0 .. 21.
RequestTypes  == 0 .. 21
GetHostByName   == 4
GetHostByNameV6 == 5
GetAi           == 14

is_host_lookup(ty) == ty \in {GetHostByName, GetHostByNameV6, GetAi}

(***************************************************************************)
(* Building replies.  Addresses are "v4" or "v6".                          *)
(***************************************************************************)

address_family(addr) == IF addr = "v4" THEN AF_INET ELSE AF_INET6
address_len(family)  == IF family = AF_INET6 THEN 16 ELSE 4

\* How many of the addresses are of a family.
CountOf(addrs, family) ==
  Cardinality({i \in 1 .. Len(addrs) : address_family(addrs[i]) = family})

\* The number of bytes of the packed addresses.
PackedLen(addrs) == 4 * CountOf(addrs, AF_INET) + 16 * CountOf(addrs, AF_INET6)

Replies == [len : Nat, words : Seq(Int), alias_len : Nat]

\* A reply of the daemon's own; it never has aliases.
Bytes(len, words) == [len |-> len, words |-> words, alias_len |-> 0]

ai_reply(found, error, canonLen, addrs) ==
  LET canon == IF found = 1 THEN canonLen + 1 ELSE 0
      body  == IF found = 1 THEN PackedLen(addrs) + Len(addrs) + canon ELSE 0
  IN  Bytes(AI_HEADER_LEN + body,
            <<VERSION, found, Len(addrs), PackedLen(addrs), canon, error>>)

ai_not_found(error)    == ai_reply(0, error, 0, <<>>)
ai_found(canon, addrs) == ai_reply(1, 0, NameLen(canon), addrs)

\* With count addresses, all of the one family.
hst_reply(found, error, nameLen, family, count) ==
  IF found = 1
  THEN Bytes(HST_HEADER_LEN + nameLen + 1 + count * address_len(family),
             <<VERSION, 1, nameLen + 1, 0, family, address_len(family), count, error>>)
  ELSE Bytes(HST_HEADER_LEN, <<VERSION, found, 0, 0, -1, -1, 0, error>>)

hst_not_found(error) == hst_reply(0, error, 0, -1, 0)

\* hst_found together with the NO_DATA its caller puts in place of None.
hst_found(name, family, addrs) ==
  IF CountOf(addrs, family) = 0
  THEN hst_not_found(NO_DATA)
  ELSE hst_reply(1, 0, NameLen(name), family, CountOf(addrs, family))

not_found(ty, error) ==
  IF ty = GetAi THEN ai_not_found(error) ELSE hst_not_found(error)

found(ty, name, addrs) ==
  CASE ty = GetAi         -> ai_found(name, addrs)
    [] ty = GetHostByName -> hst_found(name, AF_INET, addrs)
    [] OTHER              -> hst_found(name, AF_INET6, addrs)

(***************************************************************************)
(* Checking the replies of the real nscd.                                  *)
(***************************************************************************)

\* The integer at byte 4 * (i - 1), when the reply is long enough to hold it.
HasWord(reply, i) == reply.len >= 4 * i

valid_ai_body(reply) ==
  LET naddrs   == reply.words[3]
      addrslen == reply.words[4]
      canonlen == reply.words[5]
  IN  /\ naddrs >= 0 /\ addrslen >= 0 /\ canonlen >= 0
      /\ reply.len = AI_HEADER_LEN + naddrs + addrslen + canonlen

\* The alias strings come last and their lengths are inside the body, so a
\* lower bound is all the header gives.
valid_hst_body(reply) ==
  LET name_len    == reply.words[3]
      aliases_cnt == reply.words[4]
      length      == reply.words[6]
      addr_cnt    == reply.words[7]
  IN  /\ name_len >= 0 /\ aliases_cnt >= 0 /\ addr_cnt >= 0
      /\ length \in {4, 16}
      /\ reply.len >= HST_HEADER_LEN + name_len + aliases_cnt * 4 + addr_cnt * length

\* Mutant: no length check; any reply with a positive header passes.
valid_host_reply_no_length(ty, reply) ==
  /\ HasWord(reply, 2)
  /\ reply.words[1] = VERSION
  /\ reply.len >= IF ty = GetAi THEN AI_HEADER_LEN ELSE HST_HEADER_LEN
  /\ reply.words[2] \in {0, 1}

valid_host_reply(ty, reply) ==
  /\ HasWord(reply, 2)
  /\ reply.words[1] = VERSION
  /\ reply.len >= IF ty = GetAi THEN AI_HEADER_LEN ELSE HST_HEADER_LEN
  /\ \/ reply.words[2] = 0
     \/ /\ reply.words[2] = 1
        /\ IF ty = GetAi THEN valid_ai_body(reply) ELSE valid_hst_body(reply)

(***************************************************************************)
(* What glibc's client makes of a reply (nscd_getai.c, nscd_gethst_r.c):   *)
(* a short header, found = -1 or a body shorter than announced mean that   *)
(* there is no nscd to ask, and the next lookups bypass it.                *)
(***************************************************************************)

\* The bytes of a positive reply, as its header and the alias lengths that
\* follow the name announce them.
AnnouncedLen(ty, reply) ==
  IF ty = GetAi
  THEN AI_HEADER_LEN + reply.words[3] + reply.words[4] + reply.words[5]
  ELSE HST_HEADER_LEN + reply.words[3] + reply.words[4] * 4
         + reply.words[7] * reply.words[6]
         + (IF reply.words[4] > 0 THEN reply.alias_len ELSE 0)

TakenAsNoNscd(ty, reply) ==
  \/ reply.len < (IF ty = GetAi THEN AI_HEADER_LEN ELSE HST_HEADER_LEN)
  \/ reply.words[1] # VERSION
  \/ reply.words[2] = -1
  \/ reply.words[2] = 1 /\ reply.len < AnnouncedLen(ty, reply)
=============================================================================
