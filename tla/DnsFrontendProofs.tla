------------------------- MODULE DnsFrontendProofs --------------------------
(***************************************************************************)
(* The DNS front-end, for any number of clients on both transports, any    *)
(* messages, any policy and whatever the network makes of the exchange     *)
(* with the upstream server.                                               *)
(***************************************************************************)
EXTENDS DnsFrontend, FiniteSetTheorems, TLAPS

(***************************************************************************)
(* The inductive invariant follows a task from the message it reads to the *)
(* reply it writes.                                                        *)
(***************************************************************************)

\* The stages at which a task holds a permit, and the tasks that do.
Holding == {"read"} \cup Working

Busy(t) == {c \in Clients : Transport[c] = t /\ pc[c] \in Holding}

\* The question as PolicyGate sees it, once the caller is known.
Asked(c) == [msg |-> msg[c], caller |-> caller[c]]

UdpMessages == UNION {Sends[c] : c \in {d \in Clients : Transport[d] = "Udp"}}

\* The queries an answer from upstream may be about.
Heard(c) ==
  {msg[c]} \cup
  IF Transport[c] = "Tcp" THEN {} ELSE {d.about : d \in {e \in flight : e.port = via[c]}}

HeardAnswers(c) == {UpstreamAnswer(m) : m \in {n \in Heard(c) : n.id = msg[c].id}}

\* What was read is what this client sent.
OwnMessage(c) ==
  /\ inbox[c] # None => inbox[c] \in Sends[c]
  /\ msg[c] # None => msg[c] \in Sends[c]
  /\ Transport[c] = "Udp" => pc[c] # "read" /\ (pc[c] = "queued" => inbox[c] # None)
  /\ pc[c] \in Working \/ caller[c] # None \/ reply[c] # None => msg[c] # None

\* Only what parses is judged, only what may be forwarded is forwarded, once.
OwnProgress(c) ==
  /\ pc[c] \in {"identify", "forward", "await"} => Parses(msg[c]) /\ reply[c] = None
  /\ pc[c] = "identify" => caller[c] = None
  /\ pc[c] \in {"identify", "forward"} => via[c] = None
  /\ pc[c] \in {"forward", "await"} => caller[c] # None /\ GateMayForward(Asked(c))
  /\ pc[c] = "await" => via[c] # None
  /\ pc[c] = "write" => reply[c] # None

\* A reply refuses a message that did not parse, or is one its question
\* admits.
OwnReply(c) ==
  reply[c] # None =>
    \/ reply[c] = formerr(msg[c]) /\ caller[c] = None
    \/ /\ caller[c] # None /\ Parses(msg[c])
       /\ \/ reply[c] \in GateOwnAnswers(Asked(c))
          \/ via[c] # None /\ reply[c] \in HeardAnswers(c)

TaskInv(c) == OwnMessage(c) /\ OwnProgress(c) /\ OwnReply(c)

\* Only UDP queries leave datagrams behind.
FlightInv == \A d \in flight : d.about \in UdpMessages

IInv == TypeOK /\ SlotsConserved /\ FlightInv /\ \A c \in Clients : TaskInv(c)

-----------------------------------------------------------------------------
(* Messages and replies.                                                   *)

\* What a client sends is a message as parse sees one.
LEMMA SentMessages ==
  ASSUME NEW c \in Clients, NEW m \in Sends[c]
  PROVE  m \in Messages /\ m \in WireMessages /\ m # None
BY MessagesAssumption DEF Messages

\* The walk over the labels of a message stays in the naturals.
LEMMA QuestionEndType ==
  ASSUME NEW m \in WireMessages
  PROVE  QuestionEnd(m) \in Nat /\ Len(m.ends) \in Nat
<1>1. m.ends \in Seq(Nat)
  BY DEF WireMessages
<1>2. Len(m.ends) \in Nat /\ \A i \in 1 .. Len(m.ends) : m.ends[i] \in Nat
  BY <1>1
<1>3. Len(m.ends) = 0 \/ m.ends[Len(m.ends)] \in Nat
  BY <1>2
<1> QED
  BY <1>2, <1>3 DEF QuestionEnd, LabelEnd, HEADER_LEN

\* Query::parse bounds the question: 12 octets of header, 255 of name, the
\* closing zero, type and class.
LEMMA QuestionBound ==
  ASSUME NEW m \in WireMessages, Parses(m)
  PROVE  QuestionEnd(m) <= 272 /\ QuestionEnd(m) <= m.len
<1>1. Len(m.ends) \in Nat /\ m.ends \in Seq(Nat)
  BY QuestionEndType DEF WireMessages
<1>2. CASE Len(m.ends) = 0
  BY <1>2 DEF Parses, QuestionEnd, LabelEnd, HEADER_LEN
<1>3. CASE Len(m.ends) # 0
  <2>1. Len(m.ends) \in 1 .. Len(m.ends) /\ m.ends[Len(m.ends)] \in Nat
    BY <1>1, <1>3
  <2>2. m.ends[Len(m.ends)] - HEADER_LEN <= 255
    BY <2>1 DEF Parses, LabelFits
  <2> QED
    BY <1>3, <2>1, <2>2 DEF Parses, QuestionEnd, LabelEnd, HEADER_LEN
<1> QED
  BY <1>2, <1>3

\* The daemon's own records have one address at most.
LEMMA LocalCount ==
  ASSUME NEW m, NEW name
  PROVE  Cardinality(Matching(m, upstream_resolve(name))) \in 0 .. 1
<1> DEFINE addrs == upstream_resolve(name)
<1>1. Len(addrs) \in 0 .. 1
  BY DEF upstream_resolve
<1>2. Matching(m, addrs) \subseteq {1}
  BY <1>1 DEF Matching
<1>3. IsFiniteSet({1}) /\ Cardinality({1}) = 1
  BY FS_Singleton
<1>4. /\ IsFiniteSet(Matching(m, addrs))
      /\ Cardinality(Matching(m, addrs)) <= Cardinality({1})
  BY <1>2, <1>3, FS_Subset
<1>5. Cardinality(Matching(m, addrs)) \in Nat
  BY <1>4, FS_CardinalityType
<1> QED
  BY <1>3, <1>4, <1>5

\* A reply made of header and question is a reply, and carries the id and
\* the question of its query.
LEMMA ResponseType ==
  ASSUME NEW m \in WireMessages, NEW rcode \in {"NOERROR", "NXDOMAIN", "SERVFAIL"},
         NEW ancount \in Nat, NEW bytes \in Nat
  PROVE  /\ response(m, rcode, ancount, bytes) \in DnsReplies
         /\ response(m, rcode, ancount, bytes).rcode = rcode
         /\ response(m, rcode, ancount, bytes).id = m.id
         /\ response(m, rcode, ancount, bytes).about = Asks(m)
         /\ response(m, rcode, ancount, bytes).len = QuestionEnd(m) + bytes
<1>1. QuestionEnd(m) + bytes \in Nat
  BY QuestionEndType
<1>2. m.id \in Nat /\ Asks(m) \in [name : Hostnames, qtype : Nat]
  BY DEF WireMessages, Asks
<1> QED
  BY <1>1, <1>2 DEF response, DnsReplies

\* What GateOwnAnswers admits is a reply to that very question, and short.
LEMMA OwnAnswerType ==
  ASSUME NEW m \in WireMessages, NEW q, q.msg = m, NEW a \in GateOwnAnswers(q)
  PROVE  /\ a \in DnsReplies /\ a.rcode \notin {"FORMERR", "relayed"}
         /\ a.id = m.id /\ a.about = Asks(m)
         /\ a.len <= QuestionEnd(m) + 28
<1>1. QuestionEnd(m) \in Nat
  BY QuestionEndType
<1>2. \E rcode \in {"NOERROR", "NXDOMAIN", "SERVFAIL"}, n \in Nat, bytes \in 0 .. 28 :
        a = response(m, rcode, n, bytes)
  <2>1. CASE a = nxdomain(m) \/ a = servfail(m)
    BY <2>1 DEF nxdomain, servfail
  <2>2. CASE a = dns_answer(m, upstream_resolve(PolicyName(m)))
    <3> DEFINE n == Cardinality(Matching(m, upstream_resolve(PolicyName(m))))
               bytes == n * (12 + IF m.qtype = TYPE_A THEN 4 ELSE 16)
    <3>1. n \in 0 .. 1
      BY LocalCount
    <3>2. bytes \in 0 .. 28
      BY <3>1
    <3>3. a = response(m, "NOERROR", n, bytes)
      BY <2>2 DEF dns_answer
    <3> QED
      BY <3>1, <3>2, <3>3
  <2> QED
    BY <2>1, <2>2 DEF GateOwnAnswers
<1>3. PICK rcode \in {"NOERROR", "NXDOMAIN", "SERVFAIL"}, n \in Nat, bytes \in 0 .. 28 :
        a = response(m, rcode, n, bytes)
  BY <1>2
<1>4. /\ a \in DnsReplies /\ a.rcode = rcode /\ a.id = m.id /\ a.about = Asks(m)
      /\ a.len = QuestionEnd(m) + bytes
  BY <1>3, ResponseType
<1> QED
  BY <1>1, <1>4

\* What the upstream server answers to a message is a reply with its id.
LEMMA UpstreamAnswerType ==
  ASSUME NEW m \in WireMessages
  PROVE  /\ UpstreamAnswer(m) \in DnsReplies /\ UpstreamAnswer(m).rcode = "relayed"
         /\ UpstreamAnswer(m).id = m.id /\ UpstreamAnswer(m).about = Asks(m)
<1>1. m.id \in Nat /\ Asks(m) \in [name : Hostnames, qtype : Nat]
  BY DEF WireMessages, Asks
<1> QED
  BY <1>1 DEF UpstreamAnswer, DnsReplies

\* formerr is a reply without a question.
LEMMA FormerrType ==
  ASSUME NEW m \in WireMessages
  PROVE  /\ formerr(m) \in DnsReplies /\ formerr(m).rcode = "FORMERR"
         /\ formerr(m).about = None /\ formerr(m).len = 12
<1>1. (IF m.len >= 2 THEN m.id ELSE 0) \in Nat
  BY DEF WireMessages
<1> QED
  BY <1>1 DEF formerr, DnsReplies, HEADER_LEN

\* What is heard from upstream is about messages.
LEMMA HeardMessages ==
  ASSUME FlightInv, NEW c \in Clients, msg[c] \in Sends[c], NEW m \in Heard(c)
  PROVE  m \in Messages /\ m \in WireMessages
<1>1. CASE m = msg[c]
  BY <1>1, SentMessages
<1>2. CASE m \in UdpMessages
  BY <1>2, SentMessages DEF UdpMessages
<1> QED
  BY <1>1, <1>2 DEF Heard, FlightInv

-----------------------------------------------------------------------------
(* A step of one client leaves the others alone.                           *)

\* Nothing that TaskInv speaks of changes for d.
Same(d) ==
  /\ inbox'[d] = inbox[d] /\ pc'[d] = pc[d] /\ msg'[d] = msg[d]
  /\ caller'[d] = caller[d] /\ via'[d] = via[d] /\ reply'[d] = reply[d]

\* A task that changes nothing of another's leaves the other's share of the
\* invariant alone.
LEMMA Frame ==
  ASSUME NEW d \in Clients, TaskInv(d), Same(d), flight \subseteq flight'
  PROVE  TaskInv(d)'
<1>0. Heard(d) \subseteq Heard(d)'
  BY DEF Same, Heard
<1>1. Asked(d)' = Asked(d) /\ HeardAnswers(d) \subseteq HeardAnswers(d)'
  BY <1>0 DEF Same, Asked, HeardAnswers, UpstreamAnswer, Asks
<1>2. OwnMessage(d)'
  BY DEF TaskInv, OwnMessage, Same
<1>3. OwnProgress(d)'
  BY <1>1 DEF TaskInv, OwnProgress, Same
<1>4. OwnReply(d)'
  BY <1>1 DEF TaskInv, OwnReply, Same
<1> QED
  BY <1>2, <1>3, <1>4 DEF TaskInv

-----------------------------------------------------------------------------
(* Permits.                                                                *)

\* There are finitely many tasks, so their number counts permits.
LEMMA BusyFinite ==
  ASSUME NEW t
  PROVE  IsFiniteSet(Busy(t)) /\ Cardinality(Busy(t)) \in Nat
<1>1. IsFiniteSet(Busy(t))
  BY ClientsAssumption, FS_Subset DEF Busy
<1> QED
  BY <1>1, FS_CardinalityType

\* The permit a loop holds.
Held(t) == IF loop[t] = "acquire" THEN 0 ELSE 1

\* SlotsConserved, in these terms.
LEMMA SlotsSum ==
  SlotsConserved <=>
    \A t \in Transports : slots[t] + Held(t) + Cardinality(Busy(t)) = MaxConnections
BY DEF SlotsConserved, Held, Busy, Holding

\* A task that goes from stage to stage, or a client on its way to one,
\* neither takes a permit nor gives one back.
LEMMA SlotsStay ==
  ASSUME TypeOK, SlotsConserved, NEW c \in Clients, NEW l,
         pc' = [pc EXCEPT ![c] = l], pc[c] \in Holding <=> l \in Holding,
         UNCHANGED <<loop, slots>>
  PROVE  SlotsConserved'
<1>1. \A d \in Clients : pc'[d] = IF d = c THEN l ELSE pc[d]
  BY DEF TypeOK
<1>2. ASSUME NEW t \in Transports PROVE Busy(t)' = Busy(t)
  BY <1>1 DEF Busy
<1> QED
  BY <1>2 DEF SlotsConserved, Busy, Holding

\* The loop of c's transport hands its permit to the task of c.
LEMMA SlotsHanded ==
  ASSUME TypeOK, SlotsConserved, NEW c \in Clients, NEW l \in Holding,
         pc' = [pc EXCEPT ![c] = l], pc[c] \notin Holding,
         loop[Transport[c]] = "take",
         loop' = [loop EXCEPT ![Transport[c]] = "acquire"],
         slots' = slots
  PROVE  SlotsConserved'
<1>1. Transport[c] \in Transports
  BY ClientsAssumption
<1>2. \A d \in Clients : pc'[d] = IF d = c THEN l ELSE pc[d]
  BY DEF TypeOK
<1>3. ASSUME NEW t \in Transports
      PROVE  (slots[t] + Held(t) + Cardinality(Busy(t)) = MaxConnections)'
  <2>1. /\ slots[t] \in Nat /\ Held(t) \in {0, 1} /\ Cardinality(Busy(t)) \in Nat
        /\ slots[t] + Held(t) + Cardinality(Busy(t)) = MaxConnections
    BY SlotsSum, BusyFinite DEF TypeOK, Held
  <2>2. CASE t = Transport[c]
    <3>1. Busy(t)' = Busy(t) \cup {c} /\ c \notin Busy(t)
      BY <1>2, <2>2 DEF Busy
    <3>2. Cardinality(Busy(t)') = Cardinality(Busy(t)) + 1
      BY <3>1, BusyFinite, FS_AddElement
    <3>3. Held(t) = 1 /\ Held(t)' = 0
      BY <1>1, <2>2 DEF Held, TypeOK
    <3> QED
      BY <2>1, <3>2, <3>3
  <2>3. CASE t # Transport[c]
    <3>1. Busy(t)' = Busy(t)
      BY <1>2, <2>3 DEF Busy
    <3>2. Held(t)' = Held(t)
      BY <1>1, <2>3 DEF Held, TypeOK
    <3> QED
      BY <2>1, <3>1, <3>2
  <2> QED
    BY <2>2, <2>3
<1>4. \A t \in Transports : (slots[t] + Held(t) + Cardinality(Busy(t)) = MaxConnections)'
  BY <1>3
<1> QED
  BY <1>4 DEF SlotsConserved, Held, Busy, Holding

\* A task that ends gives its permit back to the semaphore it is from.
LEMMA SlotsFreed ==
  ASSUME TypeOK, SlotsConserved, NEW c \in Clients, pc[c] \in Holding,
         Finish(c), loop' = loop
  PROVE  SlotsConserved' /\ slots' \in [Transports -> 0 .. MaxConnections]
<1>1. Transport[c] \in Transports
  BY ClientsAssumption
<1>2. /\ \A d \in Clients : pc'[d] = IF d = c THEN "idle" ELSE pc[d]
      /\ slots' = [slots EXCEPT ![Transport[c]] = @ + 1]
  BY DEF TypeOK, Finish, Goto, SlotsOf
<1>3. ASSUME NEW t \in Transports
      PROVE  /\ (slots[t] + Held(t) + Cardinality(Busy(t)) = MaxConnections)'
             /\ slots'[t] \in 0 .. MaxConnections
  <2>1. /\ slots[t] \in Nat /\ Held(t) \in {0, 1} /\ Cardinality(Busy(t)) \in Nat
        /\ slots[t] + Held(t) + Cardinality(Busy(t)) = MaxConnections
    BY SlotsSum, BusyFinite DEF TypeOK, Held
  <2>2. Held(t)' = Held(t)
    BY DEF Held
  <2>3. CASE t = Transport[c]
    <3>1. Busy(t)' = Busy(t) \ {c} /\ c \in Busy(t)
      BY <1>2, <2>3 DEF Busy, Holding, Working
    <3>2. Cardinality(Busy(t)') = Cardinality(Busy(t)) - 1
      BY <3>1, BusyFinite, FS_RemoveElement
    <3>3. Cardinality(Busy(t)') \in Nat
      BY <3>1, BusyFinite, FS_Subset, FS_CardinalityType
    <3>4. slots'[t] = slots[t] + 1
      BY <1>1, <1>2, <2>3 DEF TypeOK
    <3> QED
      BY <2>1, <2>2, <3>2, <3>3, <3>4, ClientsAssumption
  <2>4. CASE t # Transport[c]
    <3>1. Busy(t)' = Busy(t)
      BY <1>2, <2>4 DEF Busy
    <3>2. slots'[t] = slots[t]
      BY <1>1, <1>2, <2>4 DEF TypeOK
    <3> QED
      BY <2>1, <2>2, <3>1, <3>2, ClientsAssumption
  <2> QED
    BY <2>3, <2>4
<1>4. \A t \in Transports : (slots[t] + Held(t) + Cardinality(Busy(t)) = MaxConnections)'
  BY <1>3
<1>5. SlotsConserved'
  BY <1>4 DEF SlotsConserved, Held, Busy, Holding
<1>6. slots' \in [Transports -> 0 .. MaxConnections]
  BY <1>2, <1>3 DEF TypeOK
<1> QED
  BY <1>5, <1>6

-----------------------------------------------------------------------------
(* Clients and the loops.                                                  *)

\* A query arrives, a connection is opened, or a client of one sends, stops
\* reading or leaves: no task is at work for it, and what one left behind is
\* kept or forgotten.
LEMMA ClientInv ==
  ASSUME IInv, NEW c \in Clients,
         Approach(c) \/ Send(c) \/ \E how \in {"stalled", "gone"} : Turn(c, how)
  PROVE  IInv'
<1> USE DEF IInv
<1>1. /\ UNCHANGED <<loop, slots, flight>>
      /\ \/ UNCHANGED <<inbox, pc, msg, caller, via, reply>>
         \/ Forget(c) /\ pc[c] \in {"idle", "read"}
  BY DEF Approach, Send, Turn, taskVars
<1>2. /\ \/ pc' = pc
         \/ pc[c] = "idle" /\ pc' = [pc EXCEPT ![c] = "queued"]
      /\ \/ inbox' = inbox /\ (pc' = pc \/ Transport[c] = "Tcp")
         \/ \E m \in Sends[c] : inbox' = [inbox EXCEPT ![c] = m]
  BY ClientsAssumption DEF Approach, Send, Turn, Goto, Transports
<1>3. TypeOK'
  <2>1. client' \in [Clients -> {"open", "stalled", "gone"}]
    BY DEF TypeOK, Approach, Send, Turn
  <2>2. inbox' \in [Clients -> Messages \cup {None}]
    BY <1>2, SentMessages DEF TypeOK
  <2>3. pc' \in [Clients -> {"idle", "queued", "read"} \cup Working]
    BY <1>2 DEF TypeOK
  <2>4. /\ msg' \in [Clients -> Messages \cup {None}]
        /\ caller' \in [Clients -> CallerIds \cup {None}]
        /\ via' \in [Clients -> Ports \cup {"stream", None}]
        /\ reply' \in [Clients -> DnsReplies \cup {None}]
    BY <1>1 DEF TypeOK, Forget
  <2> QED
    BY <1>1, <2>1, <2>2, <2>3, <2>4 DEF TypeOK
<1>4. SlotsConserved'
  <2>1. CASE pc' = pc
    BY <1>1, <2>1 DEF SlotsConserved
  <2>2. CASE pc[c] = "idle" /\ pc' = [pc EXCEPT ![c] = "queued"]
    BY <1>1, <2>2, SlotsStay DEF Holding, Working
  <2> QED
    BY <1>2, <2>1, <2>2
<1>5. TaskInv(c)'
  <2>1. CASE UNCHANGED <<inbox, pc, msg, caller, via, reply>>
    BY <1>1, <2>1, Frame DEF Same
  <2>2. CASE Forget(c) /\ pc[c] \in {"idle", "read"}
    <3>1. /\ msg'[c] = None /\ caller'[c] = None /\ via'[c] = None /\ reply'[c] = None
          /\ pc'[c] \notin Working
      BY <1>2, <2>2 DEF TypeOK, Forget, Working
    <3>2. /\ pc'[c] = pc[c] \/ (pc[c] = "idle" /\ pc'[c] = "queued")
          /\ \/ inbox'[c] = inbox[c] /\ (pc'[c] = pc[c] \/ Transport[c] = "Tcp")
             \/ inbox'[c] \in Sends[c]
      BY <1>2 DEF TypeOK
    <3>3. OwnMessage(c)'
      BY <3>1, <3>2, SentMessages DEF TaskInv, OwnMessage
    <3>4. OwnProgress(c)' /\ OwnReply(c)'
      BY <3>1 DEF OwnProgress, OwnReply, Working
    <3> QED
      BY <3>3, <3>4 DEF TaskInv
  <2> QED
    BY <1>1, <2>1, <2>2
<1>6. ASSUME NEW d \in Clients, d # c PROVE TaskInv(d)'
  <2>1. Same(d)
    BY <1>1, <1>2, <1>6 DEF TypeOK, Forget, Same
  <2> QED
    BY <1>1, <2>1, Frame
<1> QED
  BY <1>1, <1>3, <1>4, <1>5, <1>6 DEF FlightInv

\* The loops take a permit, pause after a failed accept and give the permit
\* back; no task notices.
LEMMA LoopInv ==
  ASSUME IInv, (\E t \in Transports : Acquire(t)) \/ AcceptFails \/ Retry
  PROVE  IInv'
<1> USE DEF IInv
<1>1. UNCHANGED <<pc, msg, caller, via, reply, client, inbox, flight>>
  BY DEF Acquire, AcceptFails, Retry, taskVars, netVars
<1>2. ASSUME NEW t \in Transports
      PROVE  /\ (slots[t] + Held(t) + Cardinality(Busy(t)) = MaxConnections)'
             /\ slots'[t] \in 0 .. MaxConnections
  <2>1. /\ slots[t] \in 0 .. MaxConnections /\ Cardinality(Busy(t)) \in Nat
        /\ slots[t] + Held(t) + Cardinality(Busy(t)) = MaxConnections
    BY SlotsSum, BusyFinite DEF TypeOK
  <2>2. Busy(t)' = Busy(t)
    BY <1>1 DEF Busy
  <2>3. \/ slots'[t] = slots[t] /\ Held(t)' = Held(t)
        \/ slots'[t] = slots[t] - 1 /\ slots[t] > 0 /\ Held(t) = 0 /\ Held(t)' = 1
        \/ slots'[t] = slots[t] + 1 /\ Held(t) = 1 /\ Held(t)' = 0
    BY DEF TypeOK, Acquire, AcceptFails, Retry, Held, SlotsOf, Transports
  <2> QED
    BY <2>1, <2>2, <2>3, ClientsAssumption DEF Held
<1>3. SlotsConserved'
  <2>1. \A t \in Transports : (slots[t] + Held(t) + Cardinality(Busy(t)) = MaxConnections)'
    BY <1>2
  <2> QED
    BY <2>1 DEF SlotsConserved, Held, Busy, Holding
<1>4. TypeOK'
  <2>1. loop' \in [Transports -> {"acquire", "take", "retry"}]
    BY DEF TypeOK, Acquire, AcceptFails, Retry
  <2>2. slots' \in [Transports -> 0 .. MaxConnections]
    <3>1. DOMAIN slots' = Transports /\ slots' = [t \in Transports |-> slots'[t]]
      BY DEF TypeOK, Acquire, AcceptFails, Retry
    <3> QED
      BY <1>2, <3>1
  <2> QED
    BY <1>1, <2>1, <2>2 DEF TypeOK
<1>5. ASSUME NEW d \in Clients PROVE TaskInv(d)'
  BY <1>1, Frame DEF Same
<1> QED
  BY <1>1, <1>3, <1>4, <1>5 DEF FlightInv

\* A connection is accepted: its task has read nothing yet.
LEMMA AcceptInv ==
  ASSUME IInv, NEW c \in Clients, Accept(c)
  PROVE  IInv'
<1> USE DEF IInv
<1>1. /\ UNCHANGED <<slots, msg, caller, via, reply, client, inbox, flight>>
      /\ Transport[c] = "Tcp" /\ pc[c] = "queued" /\ loop["Tcp"] = "take"
      /\ pc' = [pc EXCEPT ![c] = "read"] /\ loop' = [loop EXCEPT !["Tcp"] = "acquire"]
  BY DEF Accept, Goto, taskVars, netVars
<1>2. TypeOK'
  BY <1>1 DEF TypeOK
<1>3. SlotsConserved'
  BY <1>1, SlotsHanded DEF Holding, Working
<1>4. TaskInv(c)'
  <2>1. TaskInv(c) /\ pc'[c] = "read"
    BY <1>1 DEF TypeOK
  <2>2. Asked(c)' = Asked(c) /\ HeardAnswers(c)' = HeardAnswers(c)
    BY <1>1 DEF Asked, HeardAnswers, Heard
  <2>3. OwnMessage(c)' /\ OwnProgress(c)' /\ OwnReply(c)'
    BY <1>1, <2>1, <2>2 DEF TaskInv, OwnMessage, OwnProgress, OwnReply, Working
  <2> QED
    BY <2>3 DEF TaskInv
<1>5. ASSUME NEW d \in Clients, d # c PROVE TaskInv(d)'
  BY <1>1, <1>5, Frame DEF TypeOK, Same
<1> QED
  BY <1>1, <1>2, <1>3, <1>4, <1>5 DEF FlightInv

-----------------------------------------------------------------------------
(* Tasks.                                                                  *)

\* A message is read: one that parses goes on to be judged, any other is
\* refused.
LEMMA BeginInv ==
  ASSUME IInv, NEW c \in Clients, inbox[c] # None, Begin(c),
         pc[c] = "queued" \/ Transport[c] = "Tcp",
         UNCHANGED <<client, flight>>
  PROVE  /\ inbox' \in [Clients -> Messages \cup {None}]
         /\ msg' \in [Clients -> Messages \cup {None}]
         /\ caller' \in [Clients -> CallerIds \cup {None}]
         /\ via' \in [Clients -> Ports \cup {"stream", None}]
         /\ reply' \in [Clients -> DnsReplies \cup {None}]
         /\ pc' = [pc EXCEPT ![c] = "identify"] \/ pc' = [pc EXCEPT ![c] = "write"]
         /\ \A d \in Clients : TaskInv(d)'
<1> USE DEF IInv
<1> DEFINE m == inbox[c]
<1>1. m \in Sends[c] /\ m \in Messages /\ m \in WireMessages /\ m # None
  BY SentMessages DEF TaskInv, OwnMessage
<1>2. formerr(m) \in DnsReplies /\ formerr(m) # None
  BY <1>1, FormerrType, NoneAssumption
<1>3. /\ inbox' = [inbox EXCEPT ![c] = None] /\ msg' = [msg EXCEPT ![c] = m]
      /\ caller' = [caller EXCEPT ![c] = None] /\ via' = [via EXCEPT ![c] = None]
      /\ \/ /\ Parses(m) /\ pc' = [pc EXCEPT ![c] = "identify"]
            /\ reply' = [reply EXCEPT ![c] = None]
         \/ /\ pc' = [pc EXCEPT ![c] = "write"]
            /\ reply' = [reply EXCEPT ![c] = formerr(m)]
  BY DEF Begin, Goto
<1>4. TaskInv(c)'
  <2>1. /\ inbox'[c] = None /\ msg'[c] = m /\ caller'[c] = None /\ via'[c] = None
        /\ \/ Parses(m) /\ pc'[c] = "identify" /\ reply'[c] = None
           \/ pc'[c] = "write" /\ reply'[c] = formerr(m)
    BY <1>3 DEF TypeOK
  <2> HIDE DEF m
  <2>2. OwnMessage(c)'
    BY <1>1, <2>1 DEF OwnMessage
  <2>3. OwnProgress(c)'
    BY <1>2, <2>1 DEF OwnProgress
  <2>4. OwnReply(c)'
    BY <2>1 DEF OwnReply
  <2> QED
    BY <2>2, <2>3, <2>4 DEF TaskInv
<1>5. ASSUME NEW d \in Clients, d # c PROVE TaskInv(d)'
  BY <1>3, <1>5, Frame DEF TypeOK, Same
<1>6. \A d \in Clients : TaskInv(d)'
  BY <1>4, <1>5
<1> QED
  BY <1>1, <1>2, <1>3, <1>6 DEF TypeOK

\* A datagram is received and gets a task.
LEMMA RecvFromInv ==
  ASSUME IInv, NEW c \in Clients, RecvFrom(c)
  PROVE  IInv'
<1> USE DEF IInv
<1>1. /\ UNCHANGED <<slots, client, flight>> /\ Begin(c)
      /\ Transport[c] = "Udp" /\ pc[c] = "queued" /\ loop["Udp"] = "take"
      /\ loop' = [loop EXCEPT !["Udp"] = "acquire"]
  BY DEF RecvFrom
<1>2. inbox[c] # None
  BY <1>1 DEF TaskInv, OwnMessage
<1>3. PICK l \in {"identify", "write"} : pc' = [pc EXCEPT ![c] = l]
  BY <1>1, <1>2, BeginInv
<1>4. SlotsConserved'
  BY <1>1, <1>3, SlotsHanded DEF Holding, Working
<1>5. TypeOK'
  <2>1. pc' \in [Clients -> {"idle", "queued", "read"} \cup Working]
    BY <1>3 DEF TypeOK, Working
  <2>2. loop' \in [Transports -> {"acquire", "take", "retry"}]
    BY <1>1 DEF TypeOK
  <2> QED
    BY <1>1, <1>2, <2>1, <2>2, BeginInv DEF TypeOK
<1>6. \A d \in Clients : TaskInv(d)'
  BY <1>1, <1>2, BeginInv
<1> QED
  BY <1>1, <1>4, <1>5, <1>6 DEF FlightInv

\* read_tcp_message returns a message.
LEMMA ReadMessageInv ==
  ASSUME IInv, NEW c \in Clients, ReadMessage(c)
  PROVE  IInv'
<1> USE DEF IInv
<1>1. /\ UNCHANGED <<loop, slots, client, flight>> /\ Begin(c)
      /\ pc[c] = "read" /\ inbox[c] # None
  BY DEF ReadMessage
<1>2. Transport[c] = "Tcp"
  BY <1>1, ClientsAssumption DEF TaskInv, OwnMessage, Transports
<1>3. PICK l \in {"identify", "write"} : pc' = [pc EXCEPT ![c] = l]
  BY <1>1, <1>2, BeginInv
<1>4. SlotsConserved'
  BY <1>1, <1>3, SlotsStay DEF Holding, Working
<1>5. TypeOK'
  <2>1. pc' \in [Clients -> {"idle", "queued", "read"} \cup Working]
    BY <1>3 DEF TypeOK, Working
  <2> QED
    BY <1>1, <1>2, <2>1, BeginInv DEF TypeOK
<1>6. \A d \in Clients : TaskInv(d)'
  BY <1>1, <1>2, BeginInv
<1> QED
  BY <1>1, <1>4, <1>5, <1>6 DEF FlightInv

\* A connection is closed, at the end of a read or of a failed write.
LEMMA CloseInv ==
  ASSUME IInv, NEW c \in Clients, pc[c] \in Holding, CloseStream(c),
         UNCHANGED <<loop, client, flight>>
  PROVE  IInv'
<1> USE DEF IInv
<1>1. /\ pc' = [pc EXCEPT ![c] = "idle"] /\ inbox' = [inbox EXCEPT ![c] = None]
      /\ msg' = [msg EXCEPT ![c] = None] /\ caller' = [caller EXCEPT ![c] = None]
      /\ via' = [via EXCEPT ![c] = None] /\ reply' = [reply EXCEPT ![c] = None]
  BY DEF CloseStream, Finish, Goto, Forget
<1>2. SlotsConserved' /\ slots' \in [Transports -> 0 .. MaxConnections]
  BY SlotsFreed DEF CloseStream
<1>3. TypeOK'
  BY <1>1, <1>2 DEF TypeOK
<1>4. TaskInv(c)'
  <2>1. /\ pc'[c] = "idle" /\ inbox'[c] = None /\ msg'[c] = None
        /\ caller'[c] = None /\ via'[c] = None /\ reply'[c] = None
    BY <1>1 DEF TypeOK
  <2> QED
    BY <2>1 DEF TaskInv, OwnMessage, OwnProgress, OwnReply, Working
<1>5. ASSUME NEW d \in Clients, d # c PROVE TaskInv(d)'
  BY <1>1, <1>5, Frame DEF TypeOK, Same
<1> QED
  BY <1>2, <1>3, <1>4, <1>5 DEF FlightInv

\* respond's three ways out of a judgement, as PolicyGate sees them.
LEMMA JudgeAdmits ==
  ASSUME NEW m, NEW who, NEW q, q.msg = m, q.caller = who
  PROVE  /\ Denied(m, who) => nxdomain(m) \in GateOwnAnswers(q)
         /\ ~Denied(m, who) => GateMayForward(q) /\ servfail(m) \in GateOwnAnswers(q)
         /\ Local(m, who) =>
              dns_answer(m, upstream_resolve(PolicyName(m))) \in GateOwnAnswers(q)
<1>1. GateMayForward(q) <=> ~Denied(m, who)
  BY DEF GateMayForward, GateVerdict, IsRelay, Denied, Verdict, Relayed, RelayContains
<1>2. Denied(m, who) => nxdomain(m) \in GateOwnAnswers(q)
  BY <1>1 DEF GateOwnAnswers
<1>3. ~Denied(m, who) => servfail(m) \in GateOwnAnswers(q)
  BY <1>1 DEF GateOwnAnswers
<1>4. ASSUME Local(m, who)
      PROVE  dns_answer(m, upstream_resolve(PolicyName(m))) \in GateOwnAnswers(q)
  <2>1. /\ ~IsRelay(q) /\ GateVerdict(q) = "Allowed"
        /\ upstream_resolve(PolicyName(m)) # <<>>
    BY <1>4 DEF Local, Verdict, Relayed, RelayContains, IsRelay, GateVerdict
  <2>2. GateMayForward(q)
    BY <2>1 DEF GateMayForward
  <2>3. upstream_resolve(PolicyName(m)) \in
          {a \in {upstream_resolve(PolicyName(q.msg))} :
             ~IsRelay(q) /\ GateVerdict(q) = "Allowed" /\ a # <<>>}
    BY <2>1
  <2> QED
    BY <2>2, <2>3 DEF GateOwnAnswers
<1> QED
  BY <1>1, <1>2, <1>3, <1>4

\* A task's reply is settled: it is one that its question admits.
LEMMA ReplyInv ==
  ASSUME IInv, NEW c \in Clients, pc[c] \in Working, Parses(msg[c]),
         NEW who \in CallerIds, caller' = [caller EXCEPT ![c] = who],
         NEW a \in DnsReplies,
         \/ a \in GateOwnAnswers([msg |-> msg[c], caller |-> who])
         \/ via[c] # None /\ a \in HeardAnswers(c),
         reply' = [reply EXCEPT ![c] = a], pc' = [pc EXCEPT ![c] = "write"],
         UNCHANGED <<loop, slots, client, inbox, msg, via, flight>>
  PROVE  IInv'
<1> USE DEF IInv
<1>1. TypeOK'
  BY DEF TypeOK, Working
<1>2. SlotsConserved'
  BY SlotsStay DEF Holding, Working
<1>3. TaskInv(c)'
  <2>1. pc'[c] = "write" /\ reply'[c] = a /\ caller'[c] = who /\ who # None /\ a # None
    BY IdentitiesAssumption, NoneAssumption DEF TypeOK
  <2>2. HeardAnswers(c)' = HeardAnswers(c)
    BY DEF HeardAnswers, Heard
  <2>3. Asked(c)' = [msg |-> msg[c], caller |-> who]
    BY <2>1 DEF Asked
  <2>4. OwnMessage(c)'
    BY <2>1 DEF TaskInv, OwnMessage
  <2>5. OwnProgress(c)'
    BY <2>1 DEF OwnProgress
  <2>6. OwnReply(c)'
    BY <2>1, <2>2, <2>3 DEF OwnReply
  <2> QED
    BY <2>4, <2>5, <2>6 DEF TaskInv
<1>4. ASSUME NEW d \in Clients, d # c PROVE TaskInv(d)'
  BY <1>4, Frame DEF TypeOK, Same
<1> QED
  BY <1>1, <1>2, <1>3, <1>4 DEF FlightInv

\* respond judges, once identify has returned: it denies, answers itself or
\* goes on to forward.
LEMMA JudgeInv ==
  ASSUME IInv, NEW c \in Clients, Judge(c)
  PROVE  IInv'
<1> USE DEF IInv
<1>1. PICK who \in Identities[c] :
        /\ caller' = [caller EXCEPT ![c] = who]
        /\ IF Denied(msg[c], who)
           THEN pc' = [pc EXCEPT ![c] = "write"] /\ reply' = [reply EXCEPT ![c] = nxdomain(msg[c])]
           ELSE IF Local(msg[c], who)
           THEN /\ pc' = [pc EXCEPT ![c] = "write"]
                /\ reply' = [reply EXCEPT ![c] =
                               dns_answer(msg[c], upstream_resolve(PolicyName(msg[c])))]
           ELSE pc' = [pc EXCEPT ![c] = "forward"] /\ reply' = reply
  BY DEF Judge, Goto
<1>2. /\ pc[c] = "identify" /\ pc[c] \in Working /\ Parses(msg[c])
      /\ msg[c] \in Sends[c] /\ msg[c] # None /\ reply[c] = None /\ via[c] = None
      /\ UNCHANGED <<loop, slots, client, inbox, msg, via, flight>>
  BY DEF Judge, netVars, TaskInv, OwnMessage, OwnProgress, Working
<1>3. who \in CallerIds /\ who # None /\ msg[c] \in WireMessages
  BY <1>2, IdentitiesAssumption, SentMessages DEF CallerIds
<1> DEFINE q == [msg |-> msg[c], caller |-> who]
<1>4. q.msg = msg[c] /\ q.caller = who
  OBVIOUS
<1> HIDE DEF q
<1>5. CASE Denied(msg[c], who)
  <2>1. nxdomain(msg[c]) \in GateOwnAnswers(q)
    BY <1>4, <1>5, JudgeAdmits
  <2>2. nxdomain(msg[c]) \in DnsReplies
    BY <1>3, <1>4, <2>1, OwnAnswerType
  <2> QED
    BY <1>1, <1>2, <1>3, <1>5, <2>1, <2>2, ReplyInv DEF q
<1>6. CASE ~Denied(msg[c], who) /\ Local(msg[c], who)
  <2> DEFINE a == dns_answer(msg[c], upstream_resolve(PolicyName(msg[c])))
  <2>1. a \in GateOwnAnswers(q)
    BY <1>4, <1>6, JudgeAdmits
  <2>2. a \in DnsReplies
    BY <1>3, <1>4, <2>1, OwnAnswerType
  <2>3. reply' = [reply EXCEPT ![c] = a] /\ pc' = [pc EXCEPT ![c] = "write"]
    BY <1>1, <1>6
  <2> HIDE DEF a
  <2> QED
    BY <1>1, <1>2, <1>3, <2>1, <2>2, <2>3, ReplyInv DEF q
<1>7. CASE ~Denied(msg[c], who) /\ ~Local(msg[c], who)
  <2>1. pc' = [pc EXCEPT ![c] = "forward"] /\ reply' = reply
    BY <1>1, <1>7
  <2>2. TypeOK'
    BY <1>1, <1>2, <1>3, <2>1 DEF TypeOK, Working
  <2>3. SlotsConserved'
    BY <1>2, <2>1, SlotsStay DEF Holding, Working
  <2>4. TaskInv(c)'
    <3>1. pc'[c] = "forward" /\ caller'[c] = who
      BY <1>1, <2>1 DEF TypeOK
    <3>2. Asked(c)' = q
      BY <1>2, <3>1 DEF Asked, q
    <3>3. GateMayForward(q)
      BY <1>4, <1>7, JudgeAdmits
    <3>4. GateMayForward(Asked(c))'
      BY <3>2, <3>3
    <3>5. OwnMessage(c)'
      BY <1>2, <1>3, <3>1 DEF TaskInv, OwnMessage
    <3>6. OwnProgress(c)'
      BY <1>2, <1>3, <2>1, <3>1, <3>4 DEF OwnProgress
    <3>7. OwnReply(c)'
      BY <1>2, <2>1 DEF OwnReply
    <3> QED
      BY <3>5, <3>6, <3>7 DEF TaskInv
  <2>5. ASSUME NEW d \in Clients, d # c PROVE TaskInv(d)'
    BY <1>1, <1>2, <2>1, <2>5, Frame DEF TypeOK, Same
  <2> QED
    BY <1>2, <2>2, <2>3, <2>4, <2>5 DEF FlightInv
<1> QED
  BY <1>5, <1>6, <1>7

\* The query goes to the upstream server, from a port or on a stream.
LEMMA ForwardSendInv ==
  ASSUME IInv, NEW c \in Clients, ForwardSend(c)
  PROVE  IInv'
<1> USE DEF IInv
<1>1. /\ pc[c] = "forward" /\ pc' = [pc EXCEPT ![c] = "await"]
      /\ UNCHANGED <<loop, slots, client, inbox, msg, caller, reply>>
  BY DEF ForwardSend, Goto
<1>2. /\ msg[c] \in Sends[c] /\ msg[c] \in Messages
      /\ reply[c] = None /\ Parses(msg[c]) /\ caller[c] # None
      /\ GateMayForward(Asked(c))
  BY <1>1, SentMessages DEF TaskInv, OwnMessage, OwnProgress, Working
<1>3. PICK v \in Ports \cup {"stream"} :
        /\ via' = [via EXCEPT ![c] = v]
        /\ \/ flight' = flight
           \/ /\ Transport[c] = "Udp" /\ v \in Ports
              /\ flight' = flight \cup {[port |-> v, about |-> msg[c]]}
  <2>1. CASE Transport[c] = "Tcp"
    BY <2>1 DEF ForwardSend
  <2>2. CASE Transport[c] = "Udp"
    BY <2>2 DEF ForwardSend
  <2> QED
    BY <2>1, <2>2, ClientsAssumption DEF Transports
<1>4. TypeOK'
  <2>1. flight' \subseteq [port : Ports, about : Messages]
    BY <1>2, <1>3 DEF TypeOK
  <2>2. via' \in [Clients -> Ports \cup {"stream", None}]
    BY <1>3 DEF TypeOK
  <2>3. pc' \in [Clients -> {"idle", "queued", "read"} \cup Working]
    BY <1>1 DEF TypeOK, Working
  <2> QED
    BY <1>1, <2>1, <2>2, <2>3 DEF TypeOK
<1>5. SlotsConserved'
  BY <1>1, SlotsStay DEF Holding, Working
<1>6. FlightInv'
  <2>1. Transport[c] = "Udp" => msg[c] \in UdpMessages
    BY <1>2 DEF UdpMessages
  <2> QED
    BY <1>3, <2>1 DEF FlightInv
<1>7. TaskInv(c)'
  <2>1. pc'[c] = "await" /\ via'[c] # None
    BY <1>1, <1>3, PortsAssumption DEF TypeOK
  <2>2. Asked(c)' = Asked(c)
    BY <1>1 DEF Asked
  <2>3. OwnMessage(c)' /\ OwnProgress(c)' /\ OwnReply(c)'
    BY <1>1, <1>2, <2>1, <2>2 DEF TaskInv, OwnMessage, OwnProgress, OwnReply, Working
  <2> QED
    BY <2>3 DEF TaskInv
<1>8. ASSUME NEW d \in Clients, d # c PROVE TaskInv(d)'
  BY <1>1, <1>3, <1>8, Frame DEF TypeOK, Same
<1> QED
  BY <1>4, <1>5, <1>6, <1>7, <1>8

\* The wait for the upstream server ends, with an answer to this query or one
\* that passes for it, or with an error.
LEMMA ForwardEndsInv ==
  ASSUME IInv, NEW c \in Clients, ForwardReceive(c) \/ ForwardFails(c)
  PROVE  IInv'
<1> USE DEF IInv
<1>1. /\ pc[c] \in {"forward", "await"} /\ pc[c] \in Working
      /\ pc' = [pc EXCEPT ![c] = "write"]
      /\ UNCHANGED <<loop, slots, client, inbox, msg, caller, via, flight>>
  BY DEF ForwardReceive, ForwardFails, Goto, netVars, Working
<1>2. /\ msg[c] \in Sends[c] /\ Parses(msg[c]) /\ caller[c] # None
      /\ GateMayForward(Asked(c))
  BY <1>1 DEF TaskInv, OwnMessage, OwnProgress
<1>3. msg[c] \in WireMessages /\ caller[c] \in CallerIds
  BY <1>2, SentMessages DEF TypeOK
<1>4. caller' = [caller EXCEPT ![c] = caller[c]]
  BY <1>1 DEF TypeOK
<1>5. CASE ForwardReceive(c)
  <2>1. PICK m \in {msg[c]} \cup {d.about : d \in {e \in flight : e.port = via[c]}} :
          /\ Transport[c] = "Tcp" => m = msg[c]
          /\ Transport[c] = "Udp" => Recognised(msg[c], UpstreamAnswer(m))
          /\ reply' = [reply EXCEPT ![c] = UpstreamAnswer(m)]
    BY <1>5 DEF ForwardReceive
  <2>2. m \in Heard(c)
    BY <2>1, ClientsAssumption DEF Heard, Transports
  <2>3. m \in WireMessages
    BY <1>2, <2>2, HeardMessages
  <2>4. m.id = msg[c].id
    BY <2>1, <2>3, UpstreamAnswerType, ClientsAssumption DEF Recognised, Transports
  <2>5. UpstreamAnswer(m) \in HeardAnswers(c)
    BY <2>2, <2>4 DEF HeardAnswers
  <2>6. UpstreamAnswer(m) \in DnsReplies
    BY <2>3, UpstreamAnswerType
  <2>7. via[c] # None
    BY <1>5 DEF ForwardReceive, TaskInv, OwnProgress
  <2> QED
    BY <1>1, <1>2, <1>3, <1>4, <2>1, <2>5, <2>6, <2>7, ReplyInv
<1>6. CASE ForwardFails(c)
  <2>1. Asked(c).msg = msg[c]
    BY DEF Asked
  <2>2. servfail(msg[c]) \in GateOwnAnswers(Asked(c))
    BY <1>2, <2>1 DEF GateOwnAnswers
  <2>3. servfail(msg[c]) \in DnsReplies
    BY <1>3, <2>1, <2>2, OwnAnswerType
  <2>4. reply' = [reply EXCEPT ![c] = servfail(msg[c])]
    BY <1>6 DEF ForwardFails
  <2>5. servfail(msg[c]) \in GateOwnAnswers([msg |-> msg[c], caller |-> caller[c]])
    BY <2>2 DEF Asked
  <2> QED
    BY <1>1, <1>2, <1>3, <1>4, <2>3, <2>4, <2>5, ReplyInv
<1> QED
  BY <1>5, <1>6

\* The reply is written; a UDP task ends, a connection waits for the next
\* message or is closed.
LEMMA WriteInv ==
  ASSUME IInv, NEW c \in Clients, Write(c)
  PROVE  IInv'
<1> USE DEF IInv
<1>1. pc[c] = "write" /\ pc[c] \in Holding /\ UNCHANGED <<loop, client, flight>>
  BY DEF Write, Holding, Working
<1>2. CASE CloseStream(c)
  BY <1>1, <1>2, CloseInv
<1>3. ASSUME NEW l \in {"idle", "read"}, pc' = [pc EXCEPT ![c] = l],
             l = "read" => Transport[c] = "Tcp",
             UNCHANGED <<inbox, msg, caller, via, reply>>
      PROVE  \A d \in Clients : TaskInv(d)'
  <2>1. TaskInv(c)'
    <3>1. TaskInv(c) /\ pc'[c] = l
      BY <1>3 DEF TypeOK
    <3>2. Asked(c)' = Asked(c) /\ HeardAnswers(c)' = HeardAnswers(c)
      BY <1>1, <1>3 DEF Asked, HeardAnswers, Heard
    <3>3. OwnMessage(c)'
      BY <1>3, <3>1 DEF TaskInv, OwnMessage, Working
    <3>4. OwnProgress(c)' /\ OwnReply(c)'
      BY <1>3, <3>1, <3>2 DEF TaskInv, OwnProgress, OwnReply
    <3> QED
      BY <3>3, <3>4 DEF TaskInv
  <2>2. ASSUME NEW d \in Clients, d # c PROVE TaskInv(d)'
    BY <1>1, <1>3, <2>2, Frame DEF TypeOK, Same
  <2> QED
    BY <2>1, <2>2
<1>4. CASE Transport[c] = "Udp" /\ Finish(c) /\ UNCHANGED <<inbox, taskVars>>
  <2>1. /\ pc' = [pc EXCEPT ![c] = "idle"]
        /\ UNCHANGED <<inbox, msg, caller, via, reply>>
    BY <1>4 DEF Finish, Goto, taskVars
  <2>2. SlotsConserved' /\ slots' \in [Transports -> 0 .. MaxConnections]
    BY <1>1, <1>4, SlotsFreed
  <2>3. TypeOK'
    BY <1>1, <2>1, <2>2 DEF TypeOK
  <2> QED
    BY <1>1, <1>3, <2>1, <2>2, <2>3 DEF FlightInv
<1>5. CASE Transport[c] = "Tcp" /\ Goto(c, "read") /\ UNCHANGED <<slots, inbox, taskVars>>
  <2>1. /\ pc' = [pc EXCEPT ![c] = "read"]
        /\ UNCHANGED <<inbox, slots, msg, caller, via, reply>>
    BY <1>5 DEF Goto, taskVars
  <2>2. SlotsConserved'
    BY <1>1, <2>1, SlotsStay DEF Holding
  <2>3. TypeOK'
    BY <1>1, <2>1 DEF TypeOK
  <2> QED
    BY <1>1, <1>3, <1>5, <2>1, <2>2, <2>3 DEF FlightInv
<1> QED
  BY <1>2, <1>4, <1>5, ClientsAssumption DEF Write, Transports

-----------------------------------------------------------------------------
(* The invariant and what follows from it.                                 *)

\* The invariant holds before anyone has asked anything.
LEMMA InitIInv == Init => IInv
<1> SUFFICES ASSUME Init PROVE IInv
  OBVIOUS
<1>1. TypeOK
  BY ClientsAssumption DEF Init, TypeOK
<1>2. SlotsConserved
  <2>1. ASSUME NEW t \in Transports PROVE Busy(t) = {} /\ Held(t) = 0
    BY DEF Init, Busy, Held, Holding, Working
  <2>2. \A t \in Transports : Cardinality(Busy(t)) = 0
    BY <2>1, FS_EmptySet
  <2>3. \A t \in Transports : slots[t] + Held(t) + Cardinality(Busy(t)) = MaxConnections
    BY <2>1, <2>2, ClientsAssumption DEF Init
  <2> QED
    BY <2>3, SlotsSum
<1>3. FlightInv
  BY DEF Init, FlightInv
<1>4. ASSUME NEW c \in Clients PROVE TaskInv(c)
  BY DEF Init, TaskInv, OwnMessage, OwnProgress, OwnReply, Working
<1> QED
  BY <1>1, <1>2, <1>3, <1>4 DEF IInv

\* Every step preserves the invariant.
LEMMA NextIInv == IInv /\ [Next]_vars => IInv'
<1> SUFFICES ASSUME IInv, [Next]_vars PROVE IInv'
  OBVIOUS
<1>1. CASE (\E t \in Transports : Acquire(t)) \/ AcceptFails \/ Retry
  BY <1>1, LoopInv
<1>2. ASSUME NEW c \in Clients,
             Approach(c) \/ Send(c) \/ \E how \in {"stalled", "gone"} : Turn(c, how)
      PROVE  IInv'
  BY <1>2, ClientInv
<1>3. ASSUME NEW c \in Clients, RecvFrom(c) \/ Accept(c) PROVE IInv'
  BY <1>3, RecvFromInv, AcceptInv
<1>4. ASSUME NEW c \in Clients, ReadEnds(c) PROVE IInv'
  BY <1>4, CloseInv DEF ReadEnds, Holding
<1>5. ASSUME NEW c \in Clients, TaskStep(c) PROVE IInv'
  BY <1>4, <1>5, ReadMessageInv, JudgeInv, ForwardSendInv, ForwardEndsInv, WriteInv DEF TaskStep
<1>6. CASE UNCHANGED vars
  <2>1. TypeOK' /\ SlotsConserved' /\ FlightInv'
    BY <1>6 DEF IInv, vars, TypeOK, SlotsConserved, FlightInv
  <2>2. ASSUME NEW d \in Clients PROVE TaskInv(d)'
    BY <1>6, Frame DEF IInv, vars, Same
  <2> QED
    BY <2>1, <2>2 DEF IInv
<1> QED
  BY <1>1, <1>2, <1>3, <1>5, <1>6 DEF Next

\* The invariant holds in every reachable state.
THEOREM Invariance == Spec => []IInv
BY InitIInv, NextIInv, PTL DEF Spec

\* The front-end's variables keep their types; neither semaphore ever holds
\* more permits than it was made with.
THEOREM TypeCorrect == Spec => []TypeOK
<1>1. IInv => TypeOK
  BY DEF IInv
<1> QED
  BY <1>1, Invariance, PTL

\* On every path through serve_udp, serve_tcp and their tasks each permit
\* goes back to the semaphore it came from, for any limit.
THEOREM SlotsTheorem == Spec => []SlotsConserved
<1>1. IInv => SlotsConserved
  BY DEF IInv
<1> QED
  BY <1>1, Invariance, PTL

\* What the daemon itself replies to any message of any length never reads
\* past it and always fits a UDP message (Query::parse, response).
THEOREM WholeTheorem == Spec => []OwnRepliesAreWhole
<1>1. IInv => OwnRepliesAreWhole
  <2> SUFFICES ASSUME IInv, NEW c \in Clients, pc[c] = "write", reply[c].rcode # "relayed"
               PROVE  /\ reply[c].len <= 512
                      /\ reply[c].about # None => QuestionEnd(msg[c]) <= msg[c].len
    BY DEF OwnRepliesAreWhole
  <2>1. TaskInv(c) /\ reply[c] # None /\ msg[c] # None /\ msg[c] \in Sends[c]
    BY DEF IInv, TaskInv, OwnMessage, OwnProgress, Working
  <2>2. msg[c] \in WireMessages
    BY <2>1, SentMessages
  <2>3. CASE reply[c] = formerr(msg[c])
    BY <2>2, <2>3, FormerrType
  <2>4. CASE Parses(msg[c]) /\ reply[c] \in GateOwnAnswers(Asked(c))
    <3>1. QuestionEnd(msg[c]) <= 272 /\ QuestionEnd(msg[c]) <= msg[c].len
      BY <2>2, <2>4, QuestionBound
    <3>2. reply[c] \in DnsReplies /\ reply[c].len <= QuestionEnd(msg[c]) + 28
      BY <2>2, <2>4, OwnAnswerType DEF Asked
    <3>3. reply[c].len \in Nat /\ QuestionEnd(msg[c]) \in Nat
      BY <2>2, <3>2, QuestionEndType DEF DnsReplies
    <3> QED
      BY <3>1, <3>2, <3>3
  <2>5. CASE reply[c] \in HeardAnswers(c)
    <3>1. PICK m \in Heard(c) : reply[c] = UpstreamAnswer(m)
      BY <2>5 DEF HeardAnswers
    <3>2. reply[c].rcode = "relayed"
      BY <3>1 DEF UpstreamAnswer
    <3> QED
      BY <3>2
  <2> QED
    BY <2>1, <2>3, <2>4, <2>5 DEF TaskInv, OwnReply
<1> QED
  BY <1>1, Invariance, PTL

\* A reply has the id of its query and is about its question or, over UDP, about
\* that of a query with its id from its port: whatever the ids are that clients
\* choose, however late the upstream server answers and whichever ports are used
\* again, this is all that forward_udp's test on ids can mistake.
THEOREM OwnQuestionTheorem == Spec => []AnswersOwnQuestion
<1>1. IInv => AnswersOwnQuestion
  <2> SUFFICES ASSUME IInv, NEW c \in Clients, pc[c] = "write",
                      reply[c].rcode # "FORMERR"
               PROVE  /\ reply[c].id = msg[c].id
                      /\ \/ reply[c].about = Asks(msg[c])
                         \/ /\ Transport[c] = "Udp"
                            /\ \E d \in flight :
                                 /\ d.port = via[c] /\ d.about.id = msg[c].id
                                 /\ reply[c].about = Asks(d.about)
    BY DEF AnswersOwnQuestion
  <2>1. TaskInv(c) /\ reply[c] # None /\ msg[c] # None /\ msg[c] \in Sends[c]
    BY DEF IInv, TaskInv, OwnMessage, OwnProgress, Working
  <2>2. msg[c] \in WireMessages
    BY <2>1, SentMessages
  <2>3. reply[c] # formerr(msg[c])
    BY <2>2, FormerrType
  <2>4. CASE reply[c] \in GateOwnAnswers(Asked(c))
    BY <2>2, <2>4, OwnAnswerType DEF Asked
  <2>5. CASE reply[c] \in HeardAnswers(c)
    <3>1. PICK m \in Heard(c) : m.id = msg[c].id /\ reply[c] = UpstreamAnswer(m)
      BY <2>5 DEF HeardAnswers
    <3>2. reply[c].id = msg[c].id /\ reply[c].about = Asks(m)
      BY <3>1 DEF UpstreamAnswer
    <3>3. CASE m = msg[c]
      BY <3>2, <3>3
    <3>4. CASE m # msg[c]
      <4>1. /\ Transport[c] = "Udp"
            /\ m \in {d.about : d \in {e \in flight : e.port = via[c]}}
        BY <3>4, ClientsAssumption DEF Heard, Transports
      <4>2. PICK d \in flight : d.port = via[c] /\ m = d.about
        BY <4>1
      <4> QED
        BY <3>1, <3>2, <4>1, <4>2
    <3> QED
      BY <3>3, <3>4
  <2> QED
    BY <2>1, <2>3, <2>4, <2>5 DEF TaskInv, OwnReply
<1> QED
  BY <1>1, Invariance, PTL

-----------------------------------------------------------------------------
(* The front-end implements PolicyGate.                                    *)

\* PolicyGate's variables.
GateQuestion == [c \in Clients |-> Question(c)]
GateAsked    == {c \in Clients : via[c] # None}
GateAnswer   == [c \in Clients |-> Got(c)]

\* What PolicyGate sees of d is what it was.
GateSame(d) ==
  Question(d)' = Question(d) /\ Got(d)' = Got(d) /\ (via'[d] = None <=> via[d] = None)

\* A task that another's step leaves alone looks the same to PolicyGate.
LEMMA GateFrame ==
  ASSUME NEW d, Same(d)
  PROVE  GateSame(d)
BY DEF Same, GateSame, Question, Got

\* A step that PolicyGate sees nothing of.
LEMMA GateStutter ==
  ASSUME \A d \in Clients : GateSame(d)
  PROVE  UNCHANGED Gate!gateVars
<1>1. GateQuestion' = GateQuestion
  BY DEF GateSame, GateQuestion
<1>2. GateAnswer' = GateAnswer
  BY DEF GateSame, GateAnswer
<1>3. GateAsked' = GateAsked
  BY DEF GateSame, GateAsked
<1> QED
  BY <1>1, <1>2, <1>3 DEF Gate!gateVars, GateQuestion, GateAnswer, GateAsked

\* The question of a task that knows its caller.
LEMMA QuestionKnown ==
  ASSUME IInv, NEW c \in Clients, caller[c] # None
  PROVE  Question(c) = Asked(c) /\ Asked(c) \in GateQuestions /\ Question(c) # None
<1>1. Question(c) = Asked(c)
  BY DEF Question, Asked
<1>2. msg[c] \in Messages /\ caller[c] \in CallerIds
  BY DEF IInv, TypeOK, TaskInv, OwnMessage
<1>3. Asked(c) \in GateQuestions
  BY <1>2 DEF Asked, GateQuestions
<1> QED
  BY <1>1, <1>3, QuestionsAssumption

\* All that a lookup was is forgotten: PolicyGate's Renew.
LEMMA GateForget ==
  ASSUME NEW c \in Clients, Question(c)' = None, Got(c)' = None, via'[c] = None,
         \A d \in Clients \ {c} : GateSame(d)
  PROVE  Gate!Renew(c)
<1>1. GateQuestion' = [GateQuestion EXCEPT ![c] = None]
  BY DEF GateSame, GateQuestion
<1>2. GateAnswer' = [GateAnswer EXCEPT ![c] = None]
  BY DEF GateSame, GateAnswer
<1>3. GateAsked' = GateAsked \ {c}
  BY DEF GateSame, GateAsked
<1> QED
  BY <1>1, <1>2, <1>3 DEF Gate!Renew, GateQuestion, GateAnswer, GateAsked

\* With every message that is read begins a new lookup.
LEMMA GateBegin ==
  ASSUME IInv, NEW c \in Clients, Begin(c)
  PROVE  Gate!Renew(c)
<1>1. /\ caller'[c] = None /\ via'[c] = None
      /\ pc'[c] \in Working
  BY DEF IInv, TypeOK, Begin, Goto, Working
<1>2. Question(c)' = None /\ Got(c)' = None
  BY <1>1 DEF Question, Got
<1>3. ASSUME NEW d \in Clients \ {c} PROVE GateSame(d)
  BY GateFrame DEF IInv, TypeOK, Begin, Goto, Same
<1> QED
  BY <1>1, <1>2, <1>3, GateForget

\* With the connection its last lookup is over.
LEMMA GateClose ==
  ASSUME IInv, NEW c \in Clients, CloseStream(c)
  PROVE  Gate!Renew(c)
<1>1. caller'[c] = None /\ via'[c] = None /\ reply'[c] = None
  BY DEF IInv, TypeOK, CloseStream, Forget
<1>2. Question(c)' = None /\ Got(c)' = None
  BY <1>1 DEF Question, Got
<1>3. ASSUME NEW d \in Clients \ {c} PROVE GateSame(d)
  BY GateFrame DEF IInv, TypeOK, CloseStream, Finish, Goto, Forget, Same
<1> QED
  BY <1>1, <1>2, <1>3, GateForget

\* Judging is asking PolicyGate's question.
LEMMA GateJudge ==
  ASSUME IInv, NEW c \in Clients, Judge(c)
  PROVE  \E q \in GateQuestions : Gate!Ask(c, q)
<1>1. PICK who \in Identities[c] : caller' = [caller EXCEPT ![c] = who]
  BY DEF Judge
<1>2. /\ pc[c] = "identify" /\ caller[c] = None /\ UNCHANGED <<msg, via>>
      /\ msg[c] \in Sends[c]
  BY DEF IInv, Judge, TaskInv, OwnMessage, OwnProgress, Working
<1>3. who \in CallerIds /\ who # None /\ msg[c] \in Messages
  BY <1>2, IdentitiesAssumption, SentMessages DEF CallerIds
<1> DEFINE q == [msg |-> msg[c], caller |-> who]
<1>4. q \in GateQuestions
  BY <1>3 DEF GateQuestions
<1>5. pc'[c] \in Working /\ caller'[c] = who
  BY <1>1 DEF IInv, TypeOK, Judge, Goto, Working
<1>6. Question(c) = None /\ Question(c)' = q /\ Got(c) = None /\ Got(c)' = None
  BY <1>2, <1>3, <1>5 DEF Question, Got, Working
<1>7. ASSUME NEW d \in Clients \ {c} PROVE GateSame(d)
  BY GateFrame DEF IInv, TypeOK, Judge, Goto, netVars, Same
<1> HIDE DEF q
<1>8. GateQuestion' = [GateQuestion EXCEPT ![c] = q] /\ GateQuestion[c] = None
  BY <1>6, <1>7 DEF GateSame, GateQuestion
<1>9. GateAnswer' = GateAnswer /\ GateAnswer[c] = None
  BY <1>6, <1>7 DEF GateSame, GateAnswer
<1>10. GateAsked' = GateAsked
  BY <1>2 DEF GateAsked
<1>11. Gate!Ask(c, q)
  BY <1>8, <1>9, <1>10 DEF Gate!Ask, GateQuestion, GateAnswer, GateAsked
<1> QED
  BY <1>4, <1>11

\* Sending the query upstream is PolicyGate's Forward.
LEMMA GateForward ==
  ASSUME IInv, NEW c \in Clients, ForwardSend(c)
  PROVE  Gate!Forward(c)
<1>1. /\ pc[c] = "forward" /\ pc'[c] = "await" /\ UNCHANGED <<msg, caller, reply>>
      /\ caller[c] # None /\ via[c] = None /\ GateMayForward(Asked(c))
  BY DEF IInv, TypeOK, ForwardSend, Goto, TaskInv, OwnProgress
<1>2. via'[c] # None
  BY PortsAssumption DEF IInv, TypeOK, ForwardSend
<1>3. Question(c) = Asked(c) /\ Question(c) # None
  BY <1>1, QuestionKnown
<1>4. Question(c)' = Question(c) /\ Got(c) = None /\ Got(c)' = None
  BY <1>1 DEF Question, Got, Working
<1>5. ASSUME NEW d \in Clients \ {c} PROVE GateSame(d)
  BY GateFrame DEF IInv, TypeOK, ForwardSend, Goto, Same
<1>6. /\ GateQuestion' = GateQuestion /\ GateQuestion[c] # None
      /\ GateMayForward(GateQuestion[c])
  BY <1>1, <1>3, <1>4, <1>5 DEF GateSame, GateQuestion
<1>7. GateAnswer' = GateAnswer /\ GateAnswer[c] = None
  BY <1>4, <1>5 DEF GateSame, GateAnswer
<1>8. GateAsked' = GateAsked \cup {c} /\ c \notin GateAsked
  BY <1>1, <1>2, <1>5 DEF GateSame, GateAsked
<1> QED
  BY <1>6, <1>7, <1>8 DEF Gate!Forward, GateQuestion, GateAnswer, GateAsked

\* Sending the reply answers the question, or refuses what is no question.
LEMMA GateWrite ==
  ASSUME IInv, NEW c \in Clients, Write(c)
  PROVE  \/ Gate!Renew(c)
         \/ Gate!Refuse(c)
         \/ /\ GateQuestion[c] # None
            /\ \E a \in GateOwnAnswers(GateQuestion[c]) \cup GateUpstreamAnswers(GateQuestion[c]) :
                 Gate!Answer(c, a)
<1>1. CASE CloseStream(c)
  BY <1>1, GateClose
<1>2. CASE ~CloseStream(c)
  <2>1. /\ pc[c] = "write" /\ pc'[c] \notin Working
        /\ UNCHANGED <<inbox, msg, caller, via, reply>>
    BY <1>2 DEF IInv, TypeOK, Write, Finish, Goto, Working, taskVars
  <2>2. ASSUME NEW d \in Clients \ {c} PROVE GateSame(d)
    BY <1>2, GateFrame DEF IInv, TypeOK, Write, Finish, Goto, taskVars, Same
  <2>3. TaskInv(c) /\ reply[c] # None /\ msg[c] \in Sends[c]
    BY <2>1 DEF IInv, TaskInv, OwnMessage, OwnProgress, Working
  <2>4. msg[c] \in Messages /\ msg[c] \in WireMessages
    BY <2>3, SentMessages
  <2>5. Got(c) = None /\ Got(c)' = IF reply[c].rcode = "FORMERR" THEN Refused ELSE reply[c]
    BY <2>1, <2>3 DEF Got, Working
  <2>6. /\ GateQuestion' = GateQuestion /\ GateAsked' = GateAsked /\ GateAnswer[c] = None
        /\ GateAnswer' = [GateAnswer EXCEPT ![c] = Got(c)']
    BY <2>1, <2>2, <2>5 DEF GateSame, GateQuestion, Question, GateAsked, GateAnswer
  <2>7. CASE reply[c] = formerr(msg[c]) /\ caller[c] = None
    <3>1. Got(c)' = Refused
      BY <2>4, <2>5, <2>7, FormerrType
    <3>2. GateQuestion[c] = None
      BY <2>7 DEF GateQuestion, Question
    <3> QED
      BY <2>6, <3>1, <3>2 DEF Gate!Refuse, GateQuestion, GateAnswer, GateAsked
  <2>8. CASE /\ caller[c] # None
             /\ \/ reply[c] \in GateOwnAnswers(Asked(c))
                \/ via[c] # None /\ reply[c] \in HeardAnswers(c)
    <3>1. GateQuestion[c] = Asked(c) /\ GateQuestion[c] # None
      BY <2>8, QuestionKnown DEF GateQuestion
    <3>2. \/ reply[c] \in GateOwnAnswers(Asked(c)) /\ reply[c].rcode # "FORMERR"
          \/ /\ c \in GateAsked /\ reply[c] \in GateUpstreamAnswers(Asked(c))
             /\ reply[c].rcode # "FORMERR"
      <4>1. CASE reply[c] \in GateOwnAnswers(Asked(c))
        BY <2>4, <4>1, OwnAnswerType DEF Asked
      <4>2. CASE via[c] # None /\ reply[c] \in HeardAnswers(c)
        <5>1. PICK m \in Heard(c) : m.id = msg[c].id /\ reply[c] = UpstreamAnswer(m)
          BY <4>2 DEF HeardAnswers
        <5>2. m \in Messages /\ reply[c].rcode # "FORMERR"
          BY <2>3, <5>1, HeardMessages DEF IInv, UpstreamAnswer
        <5> QED
          BY <4>2, <5>1, <5>2 DEF GateUpstreamAnswers, Asked, GateAsked
      <4> QED
        BY <2>8, <4>1, <4>2
    <3>3. GateAnswer' = [GateAnswer EXCEPT ![c] = reply[c]]
      BY <2>5, <2>6, <3>2
    <3>4. Gate!Answer(c, reply[c])
      BY <2>6, <3>1, <3>2, <3>3 DEF Gate!Answer, GateQuestion, GateAnswer, GateAsked
    <3> QED
      BY <3>1, <3>2, <3>4
  <2> QED
    BY <2>3, <2>7, <2>8 DEF TaskInv, OwnReply
<1> QED
  BY <1>1, <1>2

\* A client that asks anew is done with what it asked before.
LEMMA GateSend ==
  ASSUME IInv, NEW c \in Clients, Approach(c) \/ Send(c)
  PROVE  Gate!Renew(c)
<1>1. caller'[c] = None /\ via'[c] = None /\ reply'[c] = None
  BY DEF IInv, TypeOK, Approach, Send, Forget
<1>2. Question(c)' = None /\ Got(c)' = None
  BY <1>1 DEF Question, Got
<1>3. ASSUME NEW d \in Clients \ {c} PROVE GateSame(d)
  <2>1. pc'[d] = pc[d] /\ inbox'[d] = inbox[d]
    BY DEF IInv, TypeOK, Approach, Send, Goto
  <2>2. msg'[d] = msg[d] /\ caller'[d] = caller[d] /\ via'[d] = via[d] /\ reply'[d] = reply[d]
    BY DEF IInv, TypeOK, Approach, Send, Forget
  <2> QED
    BY <2>1, <2>2, GateFrame DEF Same
<1> QED
  BY <1>1, <1>2, <1>3, GateForget

\* The loops, a client that stops reading or leaves and the end of the wait
\* are nothing to PolicyGate.
LEMMA GateQuiet ==
  ASSUME IInv,
         \/ \E t \in Transports : Acquire(t)
         \/ AcceptFails \/ Retry
         \/ \E c \in Clients :
              \/ \E how \in {"stalled", "gone"} : Turn(c, how)
              \/ Accept(c) \/ ForwardReceive(c) \/ ForwardFails(c)
  PROVE  UNCHANGED Gate!gateVars
<1>1. CASE UNCHANGED <<msg, caller, via, reply, pc>>
  BY <1>1, GateStutter DEF GateSame, Question, Got
<1>2. ASSUME NEW c \in Clients, Accept(c) PROVE UNCHANGED Gate!gateVars
  <2>1. UNCHANGED <<msg, caller, via, reply>>
    BY <1>2 DEF Accept, taskVars
  <2>2. \A d \in Clients : pc'[d] \in Working <=> pc[d] \in Working
    BY <1>2 DEF IInv, TypeOK, Accept, Goto, Working
  <2> QED
    BY <2>1, <2>2, GateStutter DEF GateSame, Question, Got
<1>3. ASSUME NEW c \in Clients, ForwardReceive(c) \/ ForwardFails(c)
      PROVE  UNCHANGED Gate!gateVars
  <2>1. UNCHANGED <<msg, caller, via>>
    BY <1>3 DEF ForwardReceive, ForwardFails
  <2>2. pc[c] \in Working /\ pc'[c] \in Working
    BY <1>3 DEF IInv, TypeOK, ForwardReceive, ForwardFails, Goto, Working
  <2>3. GateSame(c)
    BY <2>1, <2>2 DEF GateSame, Question, Got
  <2>4. ASSUME NEW d \in Clients \ {c} PROVE GateSame(d)
    BY <1>3, GateFrame DEF IInv, TypeOK, ForwardReceive, ForwardFails, Goto, netVars, Same
  <2> QED
    BY <2>3, <2>4, GateStutter
<1> QED
  BY <1>1, <1>2, <1>3 DEF Acquire, AcceptFails, Retry, Turn, taskVars

\* Every step of the front-end is a step of PolicyGate or leaves it alone.
LEMMA GateStep == IInv /\ [Next]_vars => [Gate!Next]_(Gate!gateVars)
<1> SUFFICES ASSUME IInv, [Next]_vars
             PROVE  Gate!Next \/ UNCHANGED Gate!gateVars
  OBVIOUS
<1>1. CASE UNCHANGED vars
  BY <1>1, GateStutter DEF vars, GateSame, Question, Got
<1>2. CASE (\E t \in Transports : Acquire(t)) \/ AcceptFails \/ Retry
  BY <1>2, GateQuiet
<1>3. ASSUME NEW c \in Clients,
             \/ \E how \in {"stalled", "gone"} : Turn(c, how)
             \/ Accept(c) \/ ForwardReceive(c) \/ ForwardFails(c)
      PROVE  UNCHANGED Gate!gateVars
  BY <1>3, GateQuiet
<1>4. ASSUME NEW c \in Clients, RecvFrom(c) \/ ReadMessage(c) PROVE Gate!Next
  BY <1>4, GateBegin DEF RecvFrom, ReadMessage, Gate!Next, Gate!Step
<1>5. ASSUME NEW c \in Clients, ReadEnds(c) PROVE Gate!Next
  BY <1>5, GateClose DEF ReadEnds, Gate!Next, Gate!Step
<1>6. ASSUME NEW c \in Clients, Judge(c) PROVE Gate!Next
  BY <1>6, GateJudge DEF Gate!Next, Gate!Step
<1>7. ASSUME NEW c \in Clients, ForwardSend(c) PROVE Gate!Next
  BY <1>7, GateForward DEF Gate!Next, Gate!Step
<1>8. ASSUME NEW c \in Clients, Write(c) PROVE Gate!Next
  BY <1>8, GateWrite DEF Gate!Next, Gate!Step, GateQuestion
<1>9. ASSUME NEW c \in Clients, Approach(c) \/ Send(c) PROVE Gate!Next
  BY <1>9, GateSend DEF Gate!Next, Gate!Step
<1> QED
  BY <1>1, <1>2, <1>3, <1>4, <1>5, <1>6, <1>7, <1>8, <1>9 DEF Next, TaskStep

\* For any policy, any clients on either transport and any upstream server,
\* what clients and the upstream server see of the front-end is a behaviour
\* PolicyGate allows.
THEOREM GateTheorem == Spec => ImplementsGate
<1>1. Init => Gate!Init
  <2> SUFFICES ASSUME Init PROVE Gate!Init
    OBVIOUS
  <2>1. \A c \in Clients : Question(c) = None /\ Got(c) = None /\ via[c] = None
    BY DEF Init, Question, Got
  <2> QED
    BY <2>1 DEF Gate!Init
<1> QED
  BY <1>1, GateStep, Invariance, PTL DEF Spec, ImplementsGate, Gate!Spec

-----------------------------------------------------------------------------
(* What PolicyGate gives: a denied query.                                  *)

\* A query that is denied is not sent upstream, and NXDOMAIN is all that its
\* client gets.
DeniedStaysHere ==
  \A c \in Clients :
    caller[c] # None /\ ~GateMayForward(Asked(c)) =>
      via[c] = None /\ Got(c) \in {None, nxdomain(msg[c])}

\* Upstream is asked only of what may be forwarded; where that is not so, the
\* answer is NXDOMAIN.
GateSafe(c) ==
  /\ c \in GateAsked => GateQuestion[c] # None /\ GateMayForward(GateQuestion[c])
  /\ GateQuestion[c] # None /\ ~GateMayForward(GateQuestion[c]) =>
       GateAnswer[c] \in {None, nxdomain(GateQuestion[c].msg)}

\* A step of PolicyGate for one lookup.
LEMMA GateSafeStep ==
  ASSUME NEW c \in Clients, NEW d \in Clients, GateSafe(c), GateSafe(d), Gate!Step(d)
  PROVE  GateSafe(c)'
<1> USE DEF GateQuestion, GateAsked, GateAnswer
<1>1. /\ c # d => GateQuestion'[c] = GateQuestion[c] /\ GateAnswer'[c] = GateAnswer[c]
                   /\ (c \in GateAsked' <=> c \in GateAsked)
  BY DEF Gate!Step, Gate!Ask, Gate!Forward, Gate!Answer, Gate!Refuse, Gate!Renew
<1>2. CASE c # d
  BY <1>1, <1>2 DEF GateSafe
<1>3. CASE c = d
  BY <1>3 DEF GateSafe, Gate!Step, Gate!Ask, Gate!Forward, Gate!Answer, Gate!Refuse, Gate!Renew,
     GateOwnAnswers, GateMayRefuse
<1> QED
  BY <1>2, <1>3

\* Whoever implements PolicyGate sends nothing upstream that is denied: so it
\* is for the DNS front-end, whoever identify takes the sender for (respond).
THEOREM DeniedTheorem == Spec => []DeniedStaysHere
<1>1. Gate!Spec => [](\A c \in Clients : GateSafe(c))
  <2>1. Gate!Init => \A c \in Clients : GateSafe(c)
    BY DEF Gate!Init, GateSafe, GateQuestion, GateAsked, GateAnswer
  <2>2. (\A c \in Clients : GateSafe(c)) /\ [Gate!Next]_(Gate!gateVars)
          => (\A c \in Clients : GateSafe(c))'
    <3>1. CASE UNCHANGED Gate!gateVars
      BY <3>1 DEF Gate!gateVars, GateSafe, GateQuestion, GateAsked, GateAnswer
    <3> QED
      BY <3>1, GateSafeStep DEF Gate!Next
  <2> QED
    BY <2>1, <2>2, PTL DEF Gate!Spec
<1>2. IInv /\ (\A c \in Clients : GateSafe(c)) => DeniedStaysHere
  <2> SUFFICES ASSUME IInv, NEW c \in Clients, GateSafe(c), caller[c] # None,
                      ~GateMayForward(Asked(c))
               PROVE  via[c] = None /\ Got(c) \in {None, nxdomain(msg[c])}
    BY DEF DeniedStaysHere
  <2>1. GateQuestion[c] = Asked(c) /\ GateQuestion[c] # None
    BY QuestionKnown DEF GateQuestion
  <2>2. Asked(c).msg = msg[c]
    BY DEF Asked
  <2> QED
    BY <2>1, <2>2 DEF GateSafe, GateAsked, GateAnswer
<1> QED
  BY <1>1, <1>2, Invariance, GateTheorem, PTL DEF ImplementsGate
=============================================================================
