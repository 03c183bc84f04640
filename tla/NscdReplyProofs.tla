-------------------------- MODULE NscdReplyProofs --------------------------
(* Facts about the replies of src/nscd.rs, for every name, every list of    *)
(* addresses and every reply of the real nscd.                             *)
EXTENDS NscdReply, FiniteSetTheorems, TLAPS

\* A list of addresses has so many of each family.
LEMMA CountType ==
  ASSUME NEW addrs \in Seq({"v4", "v6"}), NEW family
  PROVE  CountOf(addrs, family) \in Nat
<1> DEFINE S == {i \in 1 .. Len(addrs) : address_family(addrs[i]) = family}
<1>1. IsFiniteSet(1 .. Len(addrs))
  BY FS_Interval
<1>2. IsFiniteSet(S)
  BY <1>1, FS_Subset
<1> QED
  BY <1>2, FS_CardinalityType DEF CountOf

\* The packed addresses have a length.
LEMMA PackedType ==
  ASSUME NEW addrs \in Seq({"v4", "v6"})
  PROVE  PackedLen(addrs) \in Nat
<1>1. CountOf(addrs, AF_INET) \in Nat /\ CountOf(addrs, AF_INET6) \in Nat
  BY CountType
<1> QED
  BY <1>1 DEF PackedLen

\* The parts of a reply put together from them.
LEMMA BytesParts ==
  ASSUME NEW len \in Nat, NEW words \in Seq(Int)
  PROVE  /\ Bytes(len, words) \in Replies
         /\ Bytes(len, words).len = len
         /\ Bytes(len, words).words = words
BY DEF Bytes, Replies

\* A negative reply of the daemon (not_found) is well-formed, would pass its
\* own check and never reads "no nscd here" to glibc.
THEOREM NotFoundIsAnAnswer ==
  ASSUME NEW ty, NEW error \in Int
  PROVE  /\ not_found(ty, error) \in Replies
         /\ valid_host_reply(ty, not_found(ty, error))
         /\ ~TakenAsNoNscd(ty, not_found(ty, error))
<1> DEFINE r == not_found(ty, error)
<1>1. CASE ty = GetAi
  <2> DEFINE w == <<VERSION, 0, 0, PackedLen(<<>>), 0, error>>
  <2>1. r = Bytes(AI_HEADER_LEN, w)
    BY <1>1 DEF not_found, ai_not_found, ai_reply, AI_HEADER_LEN
  <2>2. <<>> \in Seq({"v4", "v6"})
    OBVIOUS
  <2>3. PackedLen(<<>>) \in Nat
    BY <2>2, PackedType
  <2>4. w \in Seq(Int) /\ w[1] = VERSION /\ w[2] = 0
    BY <2>3 DEF VERSION
  <2> HIDE DEF w
  <2>5. r \in Replies /\ r.len = AI_HEADER_LEN /\ r.words = w
    BY <2>1, <2>4, BytesParts DEF AI_HEADER_LEN
  <2> HIDE DEF r
  <2>6. valid_host_reply(ty, r) /\ ~TakenAsNoNscd(ty, r)
    BY <1>1, <2>4, <2>5 DEF valid_host_reply, TakenAsNoNscd, HasWord, AI_HEADER_LEN
  <2> QED
    BY <2>5, <2>6 DEF r
<1>2. CASE ty # GetAi
  <2> DEFINE w == <<VERSION, 0, 0, 0, -1, -1, 0, error>>
  <2>1. r = Bytes(HST_HEADER_LEN, w)
    BY <1>2 DEF not_found, hst_not_found, hst_reply
  <2>2. w \in Seq(Int) /\ w[1] = VERSION /\ w[2] = 0
    BY DEF VERSION
  <2> HIDE DEF w
  <2>3. r \in Replies /\ r.len = HST_HEADER_LEN /\ r.words = w
    BY <2>1, <2>2, BytesParts DEF HST_HEADER_LEN
  <2> HIDE DEF r
  <2>4. valid_host_reply(ty, r) /\ ~TakenAsNoNscd(ty, r)
    BY <1>2, <2>2, <2>3 DEF valid_host_reply, TakenAsNoNscd, HasWord, HST_HEADER_LEN
  <2> QED
    BY <2>3, <2>4 DEF r
<1> QED
  BY <1>1, <1>2

\* A positive GETAI reply of the daemon (ai_found): the lengths in its header
\* add up to the bytes that follow.
LEMMA AiFoundIsAnAnswer ==
  ASSUME NEW name, NameLen(name) \in Nat, NEW addrs \in Seq({"v4", "v6"})
  PROVE  /\ ai_found(name, addrs) \in Replies
         /\ valid_host_reply(GetAi, ai_found(name, addrs))
         /\ ~TakenAsNoNscd(GetAi, ai_found(name, addrs))
<1> DEFINE r == ai_found(name, addrs)
           n == Len(addrs)
           p == PackedLen(addrs)
           k == NameLen(name) + 1
<1>1. n \in Nat /\ p \in Nat /\ k \in Nat
  BY PackedType
<1>2. r = Bytes(AI_HEADER_LEN + (p + n + k), <<VERSION, 1, n, p, k, 0>>)
  BY DEF ai_found, ai_reply
<1> HIDE DEF r, n, p, k
<1>3. AI_HEADER_LEN + (p + n + k) \in Nat /\ <<VERSION, 1, n, p, k, 0>> \in Seq(Int)
  BY <1>1 DEF AI_HEADER_LEN, VERSION
<1>4. /\ r \in Replies /\ r.len = AI_HEADER_LEN + (p + n + k)
      /\ r.words = <<VERSION, 1, n, p, k, 0>>
  BY <1>2, <1>3, BytesParts
<1>5. valid_host_reply(GetAi, r) /\ ~TakenAsNoNscd(GetAi, r)
  BY <1>1, <1>4 DEF valid_host_reply, valid_ai_body, TakenAsNoNscd, AnnouncedLen,
       HasWord, AI_HEADER_LEN
<1> QED
  BY <1>4, <1>5 DEF r

\* The same of a GETHOSTBYNAME reply with so many addresses of one family.
LEMMA HstFoundIsAnAnswer ==
  ASSUME NEW nameLen \in Nat, NEW family \in {AF_INET, AF_INET6}, NEW count \in Nat,
         NEW ty, ty # GetAi
  PROVE  /\ hst_reply(1, 0, nameLen, family, count) \in Replies
         /\ valid_host_reply(ty, hst_reply(1, 0, nameLen, family, count))
         /\ ~TakenAsNoNscd(ty, hst_reply(1, 0, nameLen, family, count))
<1> DEFINE r == hst_reply(1, 0, nameLen, family, count)
           a == address_len(family)
<1>1. a \in {4, 16} /\ family \in Int
  BY DEF address_len, AF_INET, AF_INET6
<1> DEFINE len == HST_HEADER_LEN + nameLen + 1 + count * a
           w   == <<VERSION, 1, nameLen + 1, 0, family, a, count, 0>>
<1>2. r = Bytes(len, w)
  BY DEF hst_reply
<1> HIDE DEF r, a
<1>3. count * a \in Nat
  BY <1>1
<1>4. /\ len \in Nat /\ w \in Seq(Int)
      /\ w[1] = VERSION /\ w[2] = 1
      /\ w[3] = nameLen + 1 /\ w[4] = 0 /\ w[6] = a /\ w[7] = count
  BY <1>1, <1>3 DEF HST_HEADER_LEN, VERSION
<1> HIDE DEF w
<1>5. r \in Replies /\ r.len = len /\ r.words = w
  BY <1>2, <1>4, BytesParts
<1>6. len >= HST_HEADER_LEN
  BY <1>3 DEF HST_HEADER_LEN
<1>7. HST_HEADER_LEN + (nameLen + 1) + 0 * 4 + count * a + 0 = len
  BY <1>3 DEF HST_HEADER_LEN
<1>8. /\ r.words[3] = nameLen + 1 /\ r.words[4] = 0 /\ r.words[6] = a /\ r.words[7] = count
      /\ ~(0 > 0)
  BY <1>4, <1>5
<1>9. valid_hst_body(r)
  <2>1. len >= HST_HEADER_LEN + (nameLen + 1) + 0 * 4 + count * a
    BY <1>3 DEF HST_HEADER_LEN
  <2>2. nameLen + 1 >= 0 /\ 0 >= 0 /\ count >= 0
    OBVIOUS
  <2> QED
    BY <1>1, <1>5, <1>8, <2>1, <2>2, Zenon DEF valid_hst_body
<1>10. AnnouncedLen(ty, r) = len
  BY <1>7, <1>8, Zenon DEF AnnouncedLen
<1> HIDE DEF len
<1>11. valid_host_reply(ty, r)
  BY <1>4, <1>5, <1>6, <1>9 DEF valid_host_reply, HasWord, HST_HEADER_LEN
<1>12. ~TakenAsNoNscd(ty, r)
  BY <1>4, <1>5, <1>6, <1>10 DEF TakenAsNoNscd, HST_HEADER_LEN
<1> QED
  BY <1>5, <1>11, <1>12 DEF r

\* Whatever addresses the daemon has for a name, of either family or of the
\* one that was not asked for, its reply (found) is an answer to glibc.
THEOREM FoundIsAnAnswer ==
  ASSUME NEW ty, NEW name, NameLen(name) \in Nat, NEW addrs \in Seq({"v4", "v6"})
  PROVE  /\ found(ty, name, addrs) \in Replies
         /\ valid_host_reply(ty, found(ty, name, addrs))
         /\ ~TakenAsNoNscd(ty, found(ty, name, addrs))
<1>1. CASE ty = GetAi
  BY <1>1, AiFoundIsAnAnswer DEF found, GetAi, GetHostByName
<1>2. CASE ty # GetAi
  <2>1. PICK family \in {AF_INET, AF_INET6} :
          found(ty, name, addrs) = hst_found(name, family, addrs)
    BY <1>2 DEF found
  <2>2. CountOf(addrs, family) \in Nat
    BY CountType
  <2>3. CASE CountOf(addrs, family) = 0
    <3>1. found(ty, name, addrs) = not_found(ty, NO_DATA)
      BY <1>2, <2>1, <2>3 DEF hst_found, not_found
    <3> QED
      BY <3>1, NotFoundIsAnAnswer DEF NO_DATA
  <2>4. CASE CountOf(addrs, family) # 0
    BY <1>2, <2>1, <2>2, <2>4, HstFoundIsAnAnswer DEF hst_found
  <2> QED
    BY <2>3, <2>4
<1> QED
  BY <1>1, <1>2

\* What valid_host_reply lets through is an answer to glibc, except that the
\* aliases of a GETHOSTBYNAME reply are taken on trust.
THEOREM ValidIsAnAnswer ==
  ASSUME NEW ty, NEW r \in Replies, Len(r.words) = 8, valid_host_reply(ty, r),
         ty # GetAi => r.words[4] <= 0
  PROVE  ~TakenAsNoNscd(ty, r)
<1>1. /\ r.len \in Nat
      /\ \A i \in 1 .. 8 : r.words[i] \in Int
  BY DEF Replies
<1>2. CASE ty = GetAi
  BY <1>1, <1>2 DEF valid_host_reply, valid_ai_body, TakenAsNoNscd, AnnouncedLen, HasWord,
       AI_HEADER_LEN
<1>3. CASE ty # GetAi
  BY <1>1, <1>3 DEF valid_host_reply, valid_hst_body, TakenAsNoNscd, AnnouncedLen, HasWord,
       HST_HEADER_LEN
<1> QED
  BY <1>2, <1>3
=============================================================================
