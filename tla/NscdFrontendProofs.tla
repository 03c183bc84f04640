------------------------- MODULE NscdFrontendProofs -------------------------
(* The nscd front-end, for any number of clients, any policy, any limit and *)
(* whatever the real nscd sends back.                                      *)
EXTENDS NscdFrontend, NscdReplyProofs

(***************************************************************************)
(* The inductive invariant.  What a client is told depends on what its     *)
(* handler read, when it asked and how it came to its reply, so the        *)
(* invariant follows a handler from stage to stage.                        *)
(***************************************************************************)

\* The question as PolicyGate sees it, once the request is read.
Asked(c) == [request |-> request[c], caller |-> caller[c]]

\* The request is the one this client sent and the caller is its peer.
OwnQuestion(c) ==
  /\ pc[c] # "idle" => msg[c] \in Messages
  /\ pc[c] \in {"idle", "queued", "peercred", "read"} => request[c] = None
  /\ pc[c] = "read" => caller[c] = Peer[c] /\ Peer[c] # None
  /\ pc[c] \in {"judge", "connect", "await", "write"} => request[c] # None
  /\ request[c] # None =>
       request[c] = msg[c] /\ caller[c] = Peer[c] /\ Peer[c] # None

\* The real nscd is asked only what may be forwarded.
OwnForward(c) ==
  /\ pc[c] \in {"connect", "await"} \/ c \in asked =>
       request[c] # None /\ GateMayForward(Asked(c))
  /\ c \in asked => pc[c] \in {"await", "write", "closing", "closed"}
  /\ pc[c] = "await" => c \in asked
  /\ upreply[c] # None => c \in asked /\ upreply[c] \in UpstreamReplies

\* A reply is one the question admits.
OwnReplies(c) ==
  /\ pc[c] = "write" => reply[c] # None
  /\ reply[c] # None =>
       /\ request[c] # None
       /\ \/ reply[c] \in GateOwnAnswers(Asked(c))
          \/ c \in asked /\ reply[c] \in GateUpstreamAnswers(Asked(c))

\* An answer is that reply, or none where the question may be refused.
OwnAnswer(c) ==
  /\ answer[c] # None => pc[c] \in {"closing", "closed"}
  /\ answer[c] \notin {None, Closed} => answer[c] = reply[c]
  /\ answer[c] = Closed => request[c] = None \/ GateMayRefuse(Asked(c))
  /\ pc[c] = "closing" /\ answer[c] = None /\ client[c] # "gone" =>
       request[c] = None \/ GateMayRefuse(Asked(c))

HandlerInv(c) == OwnQuestion(c) /\ OwnForward(c) /\ OwnReplies(c) /\ OwnAnswer(c)

\* The accept loop takes a handler's place only for a connection that has none:
\* who is at the head of the listen queue is waiting, and waits there once.
QueueInv ==
  /\ \A i, j \in 1 .. Len(backlog) : backlog[i] = backlog[j] => i = j
  /\ \A c \in Clients : pc[c] = "queued" <=> \E i \in 1 .. Len(backlog) : backlog[i] = c

IInv == TypeOK /\ SlotsConserved /\ QueueInv /\ \A c \in Clients : HandlerInv(c)

(***************************************************************************)
(* A step of one connection leaves the others alone.                       *)
(***************************************************************************)

\* Nothing that HandlerInv speaks of changes for d.
Same(d) ==
  /\ client'[d] = client[d] /\ msg'[d] = msg[d] /\ pc'[d] = pc[d]
  /\ caller'[d] = caller[d] /\ request'[d] = request[d]
  /\ upreply'[d] = upreply[d] /\ reply'[d] = reply[d] /\ answer'[d] = answer[d]
  /\ (d \in asked') <=> (d \in asked)

\* A handler that changes nothing of another connection leaves its share of the
\* invariant alone.
LEMMA Frame ==
  ASSUME NEW d \in Clients, HandlerInv(d), Same(d)
  PROVE  HandlerInv(d)'
<1>1. Asked(d)' = Asked(d)
  BY DEF Same, Asked
<1>2. OwnQuestion(d)'
  BY DEF HandlerInv, OwnQuestion, Same
<1>3. OwnForward(d)'
  BY <1>1 DEF HandlerInv, OwnForward, Same, GateMayForward, GateVerdict
<1>4. OwnReplies(d)'
  BY <1>1 DEF HandlerInv, OwnReplies, Same, GateOwnAnswers, GateUpstreamAnswers,
       GateMayRefuse, GateVerdict
<1>5. OwnAnswer(d)'
  BY <1>1 DEF HandlerInv, OwnAnswer, Same, GateMayRefuse
<1> QED
  BY <1>2, <1>3, <1>4, <1>5 DEF HandlerInv

\* There are finitely many handlers, so their number counts permits.
LEMMA HandlersFinite == IsFiniteSet(Handled) /\ Cardinality(Handled) \in Nat
<1>1. IsFiniteSet(Handled)
  BY ClientsAssumption, FS_Subset DEF Handled
<1> QED
  BY <1>1, FS_CardinalityType

\* A handler that goes from one stage to the next keeps its permit and is
\* not in the listen queue.
LEMMA StageStep ==
  ASSUME TypeOK, SlotsConserved, QueueInv,
         NEW c \in Clients, NEW l \in Stages \ {"idle", "queued", "closed"},
         pc[c] \notin {"idle", "queued", "closed"},
         pc' = [pc EXCEPT ![c] = l],
         UNCHANGED <<loop, slots, backlog>>
  PROVE  SlotsConserved' /\ QueueInv'
<1>1. \A d \in Clients : pc'[d] = IF d = c THEN l ELSE pc[d]
  BY DEF TypeOK
<1>2. Handled' = Handled
  BY <1>1 DEF Handled
<1>3. SlotsConserved'
  BY <1>2 DEF SlotsConserved
<1>4. \A d \in Clients : pc'[d] = "queued" <=> pc[d] = "queued"
  BY <1>1
<1>5. QueueInv'
  BY <1>4 DEF QueueInv
<1> QED
  BY <1>3, <1>5

(***************************************************************************)
(* What reply_for computes is what PolicyGate admits.                      *)
(***************************************************************************)

\* The negative replies of not_found are replies.
LEMMA TryAgainReply ==
  ASSUME NEW ty, NEW error \in {HOST_NOT_FOUND, TRY_AGAIN}
  PROVE  not_found(ty, error) \in Replies
<1>1. error \in Int
  BY DEF HOST_NOT_FOUND, TRY_AGAIN
<1> QED
  BY <1>1, NotFoundIsAnAnswer

\* The replies made of the daemon's own records are replies.
LEMMA LocalReply ==
  ASSUME NEW ty, NEW name, NameLen(name) \in Nat
  PROVE  found(ty, name, upstream_resolve(name)) \in Replies
<1>1. upstream_resolve(name) \in Seq({"v4", "v6"})
  <2>1. <<"v4">> \in Seq({"v4", "v6"}) /\ <<>> \in Seq({"v4", "v6"})
    OBVIOUS
  <2> QED
    BY <2>1 DEF upstream_resolve
<1> QED
  BY <1>1, FoundIsAnAnswer

\* reply_for's three ways out of a judgement.
LEMMA JudgeAdmits ==
  ASSUME NEW m \in Messages, NEW who, NEW q, q.request = m, q.caller = who
  PROVE  /\ Forwards(m, who) => GateMayForward(q)
         /\ Nameless(m) => GateMayRefuse(q)
         /\ ~Forwards(m, who) /\ ~Nameless(m) =>
              /\ OwnReply(m, who) \in GateOwnAnswers(q)
              /\ OwnReply(m, who) \in Replies
<1>1. Forwards(m, who) => GateMayForward(q)
  BY DEF Forwards, Nameless, Denied, Verdict, GateMayForward, GateVerdict
<1>2. Nameless(m) => GateMayRefuse(q)
  BY DEF Nameless, GateMayRefuse
<1>3. ASSUME ~Forwards(m, who), ~Nameless(m)
      PROVE  OwnReply(m, who) \in GateOwnAnswers(q) /\ OwnReply(m, who) \in Replies
  <2>1. CASE Denied(m, who)
    <3>1. ~GateMayRefuse(q) /\ GateVerdict(q) = "Denied"
      BY <2>1 DEF Denied, Verdict, GateMayRefuse, GateVerdict
    <3>2. OwnReply(m, who) = not_found(m.ty, HOST_NOT_FOUND)
      BY <2>1 DEF OwnReply
    <3>3. GateOwnAnswers(q) = {not_found(m.ty, HOST_NOT_FOUND)}
      BY <3>1 DEF GateOwnAnswers
    <3> QED
      BY <3>2, <3>3, TryAgainReply
  <2>2. CASE ~Denied(m, who)
    <3>1. Local(m, who)
      BY <1>3, <2>2 DEF Forwards
    <3>2. ~GateMayRefuse(q) /\ GateVerdict(q) = "Allowed"
      BY <3>1 DEF Local, Verdict, GateMayRefuse, GateVerdict
    <3>3. OwnReply(m, who) = found(m.ty, m.name, upstream_resolve(m.name))
      BY <2>2 DEF OwnReply
    <3>4. upstream_resolve(m.name) \in
            {a \in {upstream_resolve(q.request.name)} : GateVerdict(q) = "Allowed" /\ a # <<>>}
      BY <3>1, <3>2 DEF Local
    <3>5. OwnReply(m, who) \in GateOwnAnswers(q)
      BY <3>2, <3>3, <3>4 DEF GateOwnAnswers
    <3>6. NameLen(m.name) \in Nat
      BY <3>1, MessagesAssumption DEF Local
    <3> QED
      BY <3>3, <3>5, <3>6, LocalReply
  <2> QED
    BY <2>1, <2>2
<1> QED
  BY <1>1, <1>2, <1>3

\* A failed forward becomes TRY_AGAIN for a host lookup, an end of file for
\* anything else.
LEMMA ForwardErrorAdmits ==
  ASSUME NEW m, NEW q, q.request = m, GateMayForward(q)
  PROVE  /\ ForwardErrorReply(m) = Closed => GateMayRefuse(q)
         /\ ForwardErrorReply(m) # Closed =>
              /\ ForwardErrorReply(m) \in GateOwnAnswers(q)
              /\ ForwardErrorReply(m) \in Replies
<1>1. CASE is_host_lookup(m.ty)
  <2>1. ForwardErrorReply(m) = not_found(m.ty, TRY_AGAIN)
    BY <1>1 DEF ForwardErrorReply
  <2>2. ForwardErrorReply(m) \in Replies /\ ForwardErrorReply(m) # Closed
    BY <2>1, TryAgainReply, ClosedAssumption
  <2>3. ~GateMayRefuse(q) /\ GateVerdict(q) # "Denied"
    BY <1>1 DEF GateMayForward, GateMayRefuse
  <2>4. ForwardErrorReply(m) \in GateOwnAnswers(q)
    BY <2>1, <2>3 DEF GateOwnAnswers
  <2> QED
    BY <2>2, <2>4
<1>2. CASE ~is_host_lookup(m.ty)
  BY <1>2 DEF ForwardErrorReply, GateMayRefuse
<1> QED
  BY <1>1, <1>2

\* What becomes of a reply of the real nscd (forward_host, reply_for).
LEMMA ForwardReplyAdmits ==
  ASSUME NEW m, NEW q, q.request = m, GateMayForward(q), NEW r \in UpstreamReplies
  PROVE  /\ ForwardReply(m, r) \in GateOwnAnswers(q) \cup GateUpstreamAnswers(q)
         /\ ForwardReply(m, r) \in Replies
<1>1. CASE is_host_lookup(m.ty) /\ ~valid_host_reply(m.ty, r)
  <2>1. ForwardReply(m, r) = ForwardErrorReply(m)
    BY <1>1 DEF ForwardReply, ForwardErrorReply
  <2>2. ForwardErrorReply(m) # Closed
    BY <1>1, TryAgainReply, ClosedAssumption DEF ForwardErrorReply
  <2> QED
    BY <2>1, <2>2, ForwardErrorAdmits
<1>2. CASE ~(is_host_lookup(m.ty) /\ ~valid_host_reply(m.ty, r))
  <2>1. ForwardReply(m, r) = r
    BY <1>2 DEF ForwardReply
  <2>2. r \in GateUpstreamAnswers(q)
    BY <1>2 DEF GateUpstreamAnswers
  <2> QED
    BY <2>1, <2>2, UpstreamAssumption
<1> QED
  BY <1>1, <1>2

(***************************************************************************)
(* Clients.                                                                *)
(***************************************************************************)

\* A new connection joins the end of the listen queue with nothing known of it.
LEMMA ConnectInv ==
  ASSUME IInv, NEW c \in Clients, Connect(c)
  PROVE  IInv'
<1> USE DEF IInv
<1>1. TypeOK'
  BY DEF TypeOK, Connect, Stages
<1>2. \A d \in Clients : pc'[d] = IF d = c THEN "queued" ELSE pc[d]
  BY DEF TypeOK, Connect
<1>3. SlotsConserved'
  <2>1. Handled' = Handled
    BY <1>2 DEF Handled, Connect
  <2> QED
    BY <2>1 DEF SlotsConserved, Connect
<1>4. QueueInv'
  <2>1. /\ backlog \in Seq(Clients) /\ Len(backlog) \in Nat
        /\ \A i \in 1 .. Len(backlog) : backlog[i] # c
    BY DEF TypeOK, QueueInv, Connect
  <2>2. /\ Len(backlog') = Len(backlog) + 1
        /\ \A i \in 1 .. Len(backlog) : backlog'[i] = backlog[i]
        /\ backlog'[Len(backlog) + 1] = c
    BY <2>1 DEF Connect
  <2>3. \A i, j \in 1 .. Len(backlog') : backlog'[i] = backlog'[j] => i = j
    BY <2>1, <2>2 DEF QueueInv
  <2>4. \A d \in Clients :
          pc'[d] = "queued" <=> \E i \in 1 .. Len(backlog') : backlog'[i] = d
    BY <1>2, <2>1, <2>2 DEF QueueInv
  <2> QED
    BY <2>3, <2>4 DEF QueueInv
<1>5. HandlerInv(c)'
  <2>1. /\ pc'[c] = "queued" /\ msg'[c] \in Messages /\ request'[c] = None
        /\ c \notin asked' /\ upreply'[c] = None /\ reply'[c] = None /\ answer'[c] = None
    BY DEF TypeOK, Connect
  <2> QED
    BY <2>1, ClosedAssumption DEF HandlerInv, OwnQuestion, OwnForward, OwnReplies, OwnAnswer
<1>6. ASSUME NEW d \in Clients, d # c PROVE HandlerInv(d)'
  <2>1. Same(d)
    BY <1>6 DEF TypeOK, Connect, Same
  <2> QED
    BY <2>1, Frame
<1> QED
  BY <1>1, <1>3, <1>4, <1>5, <1>6

\* Sending, stalling and leaving touch nothing of the front-end's.
LEMMA ClientInv ==
  ASSUME IInv, NEW c \in Clients, Send(c) \/ Stall(c) \/ Leave(c)
  PROVE  IInv'
<1> USE DEF IInv
<1>1. /\ UNCHANGED <<loop, slots, backlog, msg, pc>>
      /\ UNCHANGED handlerVars
  BY DEF Send, Stall, Leave
<1>2. TypeOK'
  <2>1. sent' \in [Clients -> 0 .. 2]
    BY DEF TypeOK, Send, Stall, Leave, Complete
  <2>2. client' \in [Clients -> {"absent", "reading", "stalled", "gone"}]
    BY DEF TypeOK, Send, Stall, Leave
  <2> QED
    BY <1>1, <2>1, <2>2 DEF TypeOK, handlerVars
<1>3. SlotsConserved' /\ QueueInv'
  BY <1>1 DEF SlotsConserved, QueueInv, Handled
<1>4. \A d \in Clients : client'[d] = client[d] \/ client'[d] = "gone" \/ client[d] # "gone"
  BY DEF TypeOK, Send, Stall, Leave
<1>5. ASSUME NEW d \in Clients PROVE HandlerInv(d)'
  <2>1. Asked(d)' = Asked(d)
    BY <1>1 DEF Asked, handlerVars
  <2>2. OwnQuestion(d)'
    BY <1>1 DEF HandlerInv, OwnQuestion, handlerVars
  <2>3. OwnForward(d)'
    BY <1>1, <2>1 DEF HandlerInv, OwnForward, GateMayForward, GateVerdict, handlerVars
  <2>4. OwnReplies(d)'
    BY <1>1, <2>1 DEF HandlerInv, OwnReplies, GateOwnAnswers, GateUpstreamAnswers,
         GateMayRefuse, GateVerdict, handlerVars
  <2>5. OwnAnswer(d)'
    BY <1>1, <1>4, <2>1 DEF HandlerInv, OwnAnswer, GateMayRefuse, handlerVars
  <2> QED
    BY <2>2, <2>3, <2>4, <2>5 DEF HandlerInv
<1> QED
  BY <1>2, <1>3, <1>5

(***************************************************************************)
(* The accept loop.                                                        *)
(***************************************************************************)

\* Nothing changes for a handler while the loop takes a permit, waits or
\* gives the permit back.
LEMMA LoopInv ==
  ASSUME IInv, Acquire \/ AcceptFails \/ Retry
  PROVE  IInv'
<1> USE DEF IInv
<1>1. UNCHANGED <<backlog, pc, client, msg, sent, caller, request, asked, upreply, reply, answer>>
  BY DEF Acquire, AcceptFails, Retry, clientVars, handlerVars
<1>2. Handled' = Handled /\ Cardinality(Handled) \in Nat
  BY <1>1, HandlersFinite DEF Handled
<1>3. SlotsConserved' /\ slots' \in 0 .. MaxConnections
  BY <1>2, LimitAssumption DEF TypeOK, SlotsConserved, Acquire, AcceptFails, Retry
<1>4. TypeOK'
  BY <1>1, <1>3 DEF TypeOK, Acquire, AcceptFails, Retry
<1>5. QueueInv'
  BY <1>1 DEF QueueInv
<1>6. ASSUME NEW d \in Clients PROVE HandlerInv(d)'
  BY <1>1, Frame DEF Same
<1> QED
  BY <1>3, <1>4, <1>5, <1>6

\* serve accepts the oldest connection and hands its permit to the handler.
LEMMA AcceptInv ==
  ASSUME IInv, Accept
  PROVE  IInv'
<1> USE DEF IInv
<1>0. /\ backlog \in Seq(Clients) /\ Len(backlog) \in Nat \ {0}
      /\ Head(backlog) = backlog[1] /\ Head(backlog) \in Clients
  BY DEF TypeOK, Accept
<1>1. PICK c \in Clients : c = Head(backlog) /\ c = backlog[1]
  BY <1>0
<1>2. pc[c] = "queued"
  BY <1>0, <1>1 DEF QueueInv
<1>3. /\ backlog' \in Seq(Clients) /\ Len(backlog') = Len(backlog) - 1
      /\ \A i \in 1 .. Len(backlog') : backlog'[i] = backlog[i + 1]
  BY <1>0, <1>1 DEF Accept
<1>4. \A d \in Clients : pc'[d] = IF d = c THEN "peercred" ELSE pc[d]
  BY <1>0, <1>1 DEF TypeOK, Accept
<1>5. TypeOK'
  BY <1>0, <1>1, <1>3 DEF TypeOK, Accept, clientVars, handlerVars, Stages
<1>6. SlotsConserved'
  <2>1. Handled' = Handled \cup {c} /\ c \notin Handled
    BY <1>0, <1>1, <1>2, <1>4 DEF Handled
  <2>2. Cardinality(Handled') = Cardinality(Handled) + 1
    BY <2>1, HandlersFinite, FS_AddElement
  <2> QED
    BY <2>2, HandlersFinite DEF SlotsConserved, Accept, TypeOK
<1>7. QueueInv'
  <2>1. ASSUME NEW i \in 1 .. Len(backlog'), NEW j \in 1 .. Len(backlog'),
               backlog'[i] = backlog'[j]
        PROVE  i = j
    <3>1. /\ i + 1 \in 1 .. Len(backlog) /\ j + 1 \in 1 .. Len(backlog)
          /\ backlog[i + 1] = backlog[j + 1]
      BY <1>0, <1>3, <2>1
    <3>2. i + 1 = j + 1
      BY <3>1 DEF QueueInv
    <3> QED
      BY <3>2
  <2>2. ASSUME NEW i \in 1 .. Len(backlog') PROVE backlog'[i] # c
    <3>1. /\ 1 \in 1 .. Len(backlog) /\ i + 1 \in 1 .. Len(backlog) /\ i + 1 # 1
          /\ backlog'[i] = backlog[i + 1]
      BY <1>0, <1>3
    <3>2. \A k, l \in 1 .. Len(backlog) : backlog[k] = backlog[l] => k = l
      BY DEF QueueInv
    <3> QED
      BY <1>1, <3>1, <3>2
  <2>3. ASSUME NEW d \in Clients
        PROVE  pc'[d] = "queued" <=> \E i \in 1 .. Len(backlog') : backlog'[i] = d
    <3>1. CASE d = c
      BY <1>4, <2>2, <3>1
    <3>2. CASE d # c
      <4>1. pc'[d] = pc[d]
        BY <1>4, <3>2
      <4>2. (\E i \in 1 .. Len(backlog') : backlog'[i] = d)
              => \E i \in 1 .. Len(backlog) : backlog[i] = d
        BY <1>0, <1>1, <1>3
      <4>3. ASSUME NEW i \in 1 .. Len(backlog), backlog[i] = d
            PROVE  \E j \in 1 .. Len(backlog') : backlog'[j] = d
        <5>1. i # 1
          BY <1>0, <1>1, <3>2, <4>3
        <5>2. i - 1 \in 1 .. Len(backlog') /\ backlog'[i - 1] = d
          BY <1>0, <1>1, <1>3, <4>3, <5>1
        <5> QED
          BY <5>2
      <4> QED
        BY <4>1, <4>2, <4>3 DEF QueueInv
    <3> QED
      BY <3>1, <3>2
  <2> QED
    BY <2>1, <2>3 DEF QueueInv
<1>8. HandlerInv(c)'
  <2>1. UNCHANGED <<client, msg, caller, request, asked, upreply, reply, answer>>
    BY DEF Accept, clientVars, handlerVars
  <2>2. HandlerInv(c)
    BY <1>0, <1>1
  <2>3. pc'[c] = "peercred"
    BY <1>0, <1>1, <1>4
  <2>4. /\ msg[c] \in Messages /\ request[c] = None /\ reply[c] = None
        /\ answer[c] = None /\ c \notin asked /\ upreply[c] = None
    BY <1>2, <2>2 DEF HandlerInv, OwnQuestion, OwnForward, OwnReplies, OwnAnswer
  <2> QED
    BY <2>1, <2>3, <2>4, ClosedAssumption
      DEF HandlerInv, OwnQuestion, OwnForward, OwnReplies, OwnAnswer
<1>9. ASSUME NEW d \in Clients, d # c PROVE HandlerInv(d)'
  <2>1. Same(d)
    BY <1>4, <1>9 DEF Same, Accept, clientVars, handlerVars
  <2> QED
    BY <2>1, Frame
<1>10. \A d \in Clients : HandlerInv(d)'
  BY <1>8, <1>9
<1> QED
  BY <1>5, <1>6, <1>7, <1>10

(***************************************************************************)
(* Handlers.                                                               *)
(***************************************************************************)

\* handle learns who its peer is, or gives up.
LEMMA PeerCredInv ==
  ASSUME IInv, NEW c \in Clients, PeerCred(c)
  PROVE  IInv'
<1> USE DEF IInv
<1> DEFINE l == IF Peer[c] = None THEN "closing" ELSE "read"
<1>1. TypeOK'
  BY PeerAssumption DEF TypeOK, PeerCred, Goto, acceptVars, clientVars, Stages
<1>2. SlotsConserved' /\ QueueInv'
  <2>1. l \in Stages \ {"idle", "queued", "closed"}
    BY DEF Stages
  <2> QED
    BY <2>1, StageStep DEF PeerCred, Goto, acceptVars
<1>3. /\ pc'[c] = l /\ caller'[c] = Peer[c]
      /\ UNCHANGED <<client, msg, request, asked, upreply, reply, answer>>
  BY DEF TypeOK, PeerCred, Goto, clientVars
<1>4. HandlerInv(c)'
  <2>1. /\ msg[c] \in Messages /\ request[c] = None /\ reply[c] = None
        /\ answer[c] = None /\ c \notin asked /\ upreply[c] = None
    BY DEF PeerCred, HandlerInv, OwnQuestion, OwnForward, OwnReplies, OwnAnswer
  <2> QED
    BY <1>3, <2>1, ClosedAssumption
      DEF HandlerInv, OwnQuestion, OwnForward, OwnReplies, OwnAnswer
<1>5. ASSUME NEW d \in Clients, d # c PROVE HandlerInv(d)'
  BY <1>5, Frame DEF TypeOK, PeerCred, Goto, clientVars, Same
<1> QED
  BY <1>1, <1>2, <1>4, <1>5

\* read_request returns or its deadline passes.
LEMMA ReadInv ==
  ASSUME IInv, NEW c \in Clients, ReadRequest(c) \/ ReadTimeout(c)
  PROVE  IInv'
<1> USE DEF IInv
<1>0. pc[c] = "read" /\ msg[c] \in Messages
  BY DEF ReadRequest, ReadTimeout, HandlerInv, OwnQuestion
<1>1. /\ UNCHANGED <<loop, slots, backlog, client, msg, sent>>
      /\ UNCHANGED <<caller, asked, upreply, reply, answer>>
      /\ \/ /\ pc' = [pc EXCEPT ![c] = "judge"]
            /\ request' = [request EXCEPT ![c] = msg[c]]
         \/ /\ pc' = [pc EXCEPT ![c] = "closing"]
            /\ request' = request
  BY DEF ReadRequest, ReadTimeout, Goto, acceptVars, clientVars, handlerVars
<1>2. TypeOK'
  BY <1>0, <1>1 DEF TypeOK, Stages
<1>3. SlotsConserved' /\ QueueInv'
  BY <1>0, <1>1, StageStep DEF Stages
<1>4. HandlerInv(c)'
  <2>1. /\ caller[c] = Peer[c] /\ Peer[c] # None
        /\ request[c] = None /\ reply[c] = None
        /\ answer[c] = None /\ c \notin asked /\ upreply[c] = None
    BY <1>0 DEF HandlerInv, OwnQuestion, OwnForward, OwnReplies, OwnAnswer
  <2>2. \/ pc'[c] = "judge" /\ request'[c] = msg[c]
        \/ pc'[c] = "closing" /\ request'[c] = None
    BY <1>1, <2>1 DEF TypeOK
  <2>3. OwnQuestion(c)'
    BY <1>0, <1>1, <2>1, <2>2, MessagesAssumption DEF OwnQuestion
  <2>4. OwnForward(c)' /\ OwnReplies(c)'
    BY <1>1, <2>1, <2>2 DEF OwnForward, OwnReplies
  <2>5. OwnAnswer(c)'
    BY <1>1, <2>1, <2>2, ClosedAssumption DEF OwnAnswer
  <2> QED
    BY <2>3, <2>4, <2>5 DEF HandlerInv
<1>5. ASSUME NEW d \in Clients, d # c PROVE HandlerInv(d)'
  BY <1>1, <1>5, Frame DEF TypeOK, Same
<1> QED
  BY <1>2, <1>3, <1>4, <1>5

\* reply_for judges: an own answer, a close, or the way to the real nscd.
LEMMA JudgeInv ==
  ASSUME IInv, NEW c \in Clients, Judge(c)
  PROVE  IInv'
<1> USE DEF IInv
<1> DEFINE m == request[c]
           who == caller[c]
<1>0. /\ pc[c] = "judge" /\ request[c] \in Messages /\ request[c] # None
      /\ Asked(c).request = request[c] /\ Asked(c).caller = caller[c]
  BY DEF Judge, HandlerInv, OwnQuestion, Asked, TypeOK
<1>1. /\ UNCHANGED <<loop, slots, backlog, client, msg, sent>>
      /\ UNCHANGED <<caller, request, asked, upreply, answer>>
      /\ \/ /\ GateMayForward(Asked(c))
            /\ pc' = [pc EXCEPT ![c] = "connect"] /\ reply' = reply
         \/ /\ GateMayRefuse(Asked(c))
            /\ pc' = [pc EXCEPT ![c] = "closing"] /\ reply' = reply
         \/ /\ OwnReply(m, who) \in GateOwnAnswers(Asked(c))
            /\ OwnReply(m, who) \in Replies
            /\ pc' = [pc EXCEPT ![c] = "write"]
            /\ reply' = [reply EXCEPT ![c] = OwnReply(m, who)]
  BY <1>0, JudgeAdmits DEF Judge, Goto, acceptVars, clientVars
<1>2. TypeOK'
  BY <1>0, <1>1 DEF TypeOK, Stages
<1>3. SlotsConserved' /\ QueueInv'
  BY <1>0, <1>1, StageStep DEF Stages
<1>4. HandlerInv(c)'
  <2>1. answer[c] = None /\ c \notin asked /\ upreply[c] = None
    BY <1>0 DEF HandlerInv, OwnForward, OwnAnswer
  <2>2. Asked(c)' = Asked(c)
    BY <1>1 DEF Asked
  <2>3. \/ /\ GateMayForward(Asked(c))
           /\ pc'[c] = "connect" /\ reply'[c] = reply[c]
        \/ /\ GateMayRefuse(Asked(c))
           /\ pc'[c] = "closing" /\ reply'[c] = reply[c]
        \/ /\ reply'[c] \in GateOwnAnswers(Asked(c)) /\ reply'[c] \in Replies
           /\ pc'[c] = "write"
    BY <1>1 DEF TypeOK
  <2>4. OwnQuestion(c)'
    BY <1>0, <1>1, <2>3 DEF HandlerInv, OwnQuestion
  <2>5. OwnForward(c)'
    BY <1>0, <1>1, <2>1, <2>2, <2>3 DEF OwnForward, GateMayForward, GateVerdict
  <2>6. OwnReplies(c)'
    <3>1. /\ GateOwnAnswers(Asked(c))' = GateOwnAnswers(Asked(c))
          /\ GateUpstreamAnswers(Asked(c))' = GateUpstreamAnswers(Asked(c))
      BY <2>2 DEF GateOwnAnswers, GateUpstreamAnswers, GateMayRefuse, GateVerdict
    <3>2. CASE reply'[c] = reply[c] /\ pc'[c] # "write"
      BY <1>1, <3>1, <3>2 DEF HandlerInv, OwnReplies
    <3>3. CASE reply'[c] \in GateOwnAnswers(Asked(c)) /\ reply'[c] \in Replies
      BY <1>0, <1>1, <3>1, <3>3, ClosedAssumption DEF OwnReplies
    <3> QED
      BY <2>3, <3>2, <3>3
  <2>7. OwnAnswer(c)'
    BY <1>0, <1>1, <2>1, <2>2, <2>3, ClosedAssumption DEF OwnAnswer, GateMayRefuse
  <2> QED
    BY <2>4, <2>5, <2>6, <2>7 DEF HandlerInv
<1>5. ASSUME NEW d \in Clients, d # c PROVE HandlerInv(d)'
  BY <1>1, <1>5, Frame DEF TypeOK, Same
<1> QED
  BY <1>2, <1>3, <1>4, <1>5

\* forward sends the request, which the policy let through.
LEMMA ForwardConnectInv ==
  ASSUME IInv, NEW c \in Clients, ForwardConnect(c)
  PROVE  IInv'
<1> USE DEF IInv
<1>0. pc[c] = "connect"
  BY DEF ForwardConnect
<1>1. /\ UNCHANGED <<loop, slots, backlog, client, msg, sent>>
      /\ UNCHANGED <<caller, request, upreply, reply, answer>>
      /\ pc' = [pc EXCEPT ![c] = "await"] /\ asked' = asked \cup {c}
  BY DEF ForwardConnect, Goto, acceptVars, clientVars
<1>2. TypeOK'
  BY <1>1 DEF TypeOK, Stages
<1>3. SlotsConserved' /\ QueueInv'
  BY <1>0, <1>1, StageStep DEF Stages
<1>4. HandlerInv(c)'
  <2>1. Asked(c)' = Asked(c) /\ pc'[c] = "await" /\ c \in asked'
    BY <1>1 DEF Asked, TypeOK
  <2>2. OwnQuestion(c)'
    BY <1>0, <1>1, <2>1 DEF HandlerInv, OwnQuestion
  <2>3. OwnForward(c)'
    BY <1>0, <1>1, <2>1 DEF HandlerInv, OwnForward, GateMayForward, GateVerdict
  <2>4. OwnReplies(c)'
    BY <1>0, <1>1, <2>1 DEF HandlerInv, OwnReplies, OwnForward, GateOwnAnswers,
         GateUpstreamAnswers, GateMayRefuse, GateVerdict
  <2>5. OwnAnswer(c)'
    BY <1>0, <1>1, <2>1, ClosedAssumption DEF HandlerInv, OwnAnswer
  <2> QED
    BY <2>2, <2>3, <2>4, <2>5 DEF HandlerInv
<1>5. ASSUME NEW d \in Clients, d # c PROVE HandlerInv(d)'
  BY <1>1, <1>5, Frame DEF TypeOK, Same
<1> QED
  BY <1>2, <1>3, <1>4, <1>5

\* The answers a question admits are the same after a step that leaves the
\* question alone.
LEMMA GateStable ==
  ASSUME NEW c \in Clients, UNCHANGED <<request, caller>>
  PROVE  /\ Asked(c)' = Asked(c)
         /\ GateOwnAnswers(Asked(c))' = GateOwnAnswers(Asked(c))
         /\ GateUpstreamAnswers(Asked(c))' = GateUpstreamAnswers(Asked(c))
         /\ GateMayForward(Asked(c))' = GateMayForward(Asked(c))
         /\ GateMayRefuse(Asked(c))' = GateMayRefuse(Asked(c))
<1>1. Asked(c)' = Asked(c)
  BY DEF Asked
<1> QED
  BY <1>1 DEF GateOwnAnswers, GateUpstreamAnswers, GateMayForward, GateMayRefuse, GateVerdict

\* The real nscd's bytes arrive and disturb nothing.
LEMMA UpstreamReplyInv ==
  ASSUME IInv, NEW c \in Clients, UpstreamReply(c)
  PROVE  IInv'
<1> USE DEF IInv
<1>0. pc[c] = "await"
  BY DEF UpstreamReply
<1>1. /\ UNCHANGED <<loop, slots, backlog, client, msg, sent, pc>>
      /\ UNCHANGED <<caller, request, asked, reply, answer>>
      /\ \E r \in UpstreamReplies : upreply' = [upreply EXCEPT ![c] = r]
  BY DEF UpstreamReply, acceptVars, clientVars
<1>2. TypeOK'
  BY <1>1, UpstreamAssumption DEF TypeOK
<1>3. SlotsConserved' /\ QueueInv'
  BY <1>1 DEF SlotsConserved, QueueInv, Handled
<1>4. HandlerInv(c)'
  <2>1. upreply'[c] \in UpstreamReplies
    BY <1>1 DEF TypeOK
  <2>2. OwnForward(c)'
    BY <1>0, <1>1, <2>1, GateStable DEF HandlerInv, OwnForward
  <2>3. OwnQuestion(c)' /\ OwnReplies(c)' /\ OwnAnswer(c)'
    BY <1>1, GateStable DEF HandlerInv, OwnQuestion, OwnReplies, OwnAnswer
  <2> QED
    BY <2>2, <2>3 DEF HandlerInv
<1>5. ASSUME NEW d \in Clients, d # c PROVE HandlerInv(d)'
  BY <1>1, <1>5, Frame DEF TypeOK, Same
<1> QED
  BY <1>2, <1>3, <1>4, <1>5

\* Both ends of a forward: a reply, or closing a request that is no host lookup.
LEMMA ForwardEndsInv ==
  ASSUME IInv, NEW c \in Clients, ForwardReceives(c) \/ ForwardError(c)
  PROVE  IInv'
<1> USE DEF IInv
<1>0. /\ pc[c] \in {"connect", "await"} /\ request[c] # None
      /\ GateMayForward(Asked(c)) /\ Asked(c).request = request[c]
      /\ answer[c] = None
  BY DEF ForwardReceives, ForwardError, HandlerInv, OwnForward, OwnAnswer, Asked
<1>1. /\ UNCHANGED <<loop, slots, backlog, client, msg, sent>>
      /\ UNCHANGED <<caller, request, asked, upreply, answer>>
  BY DEF ForwardReceives, ForwardError, Goto, acceptVars, clientVars
<1>2. \/ /\ GateMayRefuse(Asked(c))
         /\ pc' = [pc EXCEPT ![c] = "closing"] /\ reply' = reply
      \/ \E r \in Replies :
           /\ \/ r \in GateOwnAnswers(Asked(c))
              \/ c \in asked /\ r \in GateUpstreamAnswers(Asked(c))
           /\ pc' = [pc EXCEPT ![c] = "write"]
           /\ reply' = [reply EXCEPT ![c] = r]
  <2>1. CASE ForwardReceives(c)
    <3> DEFINE r == ForwardReply(request[c], upreply[c])
    <3>1. c \in asked /\ upreply[c] \in UpstreamReplies
      BY <2>1 DEF ForwardReceives, HandlerInv, OwnForward
    <3>2. r \in GateOwnAnswers(Asked(c)) \cup GateUpstreamAnswers(Asked(c)) /\ r \in Replies
      BY <1>0, <3>1, ForwardReplyAdmits
    <3>3. pc' = [pc EXCEPT ![c] = "write"] /\ reply' = [reply EXCEPT ![c] = r]
      BY <2>1 DEF ForwardReceives, Goto
    <3> HIDE DEF r
    <3> QED
      BY <3>1, <3>2, <3>3
  <2>2. CASE ForwardError(c)
    <3> DEFINE r == ForwardErrorReply(request[c])
    <3>1. /\ r = Closed => GateMayRefuse(Asked(c))
          /\ r # Closed => r \in GateOwnAnswers(Asked(c)) /\ r \in Replies
      BY <1>0, ForwardErrorAdmits
    <3>2. IF r = Closed
          THEN pc' = [pc EXCEPT ![c] = "closing"] /\ reply' = reply
          ELSE pc' = [pc EXCEPT ![c] = "write"] /\ reply' = [reply EXCEPT ![c] = r]
      BY <2>2 DEF ForwardError, Goto
    <3> HIDE DEF r
    <3> QED
      BY <3>1, <3>2
  <2> QED
    BY <2>1, <2>2
<1>3. TypeOK'
  BY <1>1, <1>2 DEF TypeOK, Stages
<1>4. SlotsConserved' /\ QueueInv'
  BY <1>0, <1>1, <1>2, StageStep DEF Stages
<1>5. HandlerInv(c)'
  <2>1. \/ /\ GateMayRefuse(Asked(c)) /\ pc'[c] = "closing" /\ reply'[c] = reply[c]
        \/ /\ pc'[c] = "write" /\ reply'[c] \in Replies
           /\ \/ reply'[c] \in GateOwnAnswers(Asked(c))
              \/ c \in asked /\ reply'[c] \in GateUpstreamAnswers(Asked(c))
    BY <1>2 DEF TypeOK
  <2>2. OwnQuestion(c)'
    BY <1>0, <1>1, <2>1 DEF HandlerInv, OwnQuestion
  <2>3. OwnForward(c)'
    BY <1>0, <1>1, <2>1, GateStable DEF HandlerInv, OwnForward
  <2>4. OwnReplies(c)'
    BY <1>0, <1>1, <2>1, GateStable, ClosedAssumption DEF HandlerInv, OwnReplies
  <2>5. OwnAnswer(c)'
    BY <1>0, <1>1, <2>1, GateStable, ClosedAssumption DEF OwnAnswer
  <2> QED
    BY <2>2, <2>3, <2>4, <2>5 DEF HandlerInv
<1>6. ASSUME NEW d \in Clients, d # c PROVE HandlerInv(d)'
  BY <1>1, <1>2, <1>6, Frame DEF TypeOK, Same
<1> QED
  BY <1>3, <1>4, <1>5, <1>6

\* write_all gives the client the reply the question admits.
LEMMA WriteInv ==
  ASSUME IInv, NEW c \in Clients, Write(c)
  PROVE  IInv'
<1> USE DEF IInv
<1>0. /\ pc[c] = "write" /\ reply[c] # None /\ reply[c] \in Replies
      /\ answer[c] = None
  BY DEF Write, HandlerInv, OwnReplies, OwnAnswer, TypeOK
<1>1. /\ UNCHANGED <<loop, slots, backlog, client, msg, sent>>
      /\ UNCHANGED <<caller, request, asked, upreply, reply>>
      /\ pc' = [pc EXCEPT ![c] = "closing"]
      /\ answer' = IF client[c] = "gone" THEN answer ELSE [answer EXCEPT ![c] = reply[c]]
  BY DEF Write, Goto, acceptVars, clientVars
<1>2. TypeOK'
  BY <1>0, <1>1 DEF TypeOK, Stages
<1>3. SlotsConserved' /\ QueueInv'
  BY <1>0, <1>1, StageStep DEF Stages
<1>4. HandlerInv(c)'
  <2>1. /\ pc'[c] = "closing"
        /\ answer'[c] = IF client[c] = "gone" THEN None ELSE reply[c]
    BY <1>0, <1>1 DEF TypeOK
  <2>2. OwnQuestion(c)'
    BY <1>0, <1>1, <2>1 DEF HandlerInv, OwnQuestion
  <2>3. OwnForward(c)' /\ OwnReplies(c)'
    BY <1>0, <1>1, <2>1, GateStable DEF HandlerInv, OwnForward, OwnReplies
  <2>4. OwnAnswer(c)'
    BY <1>0, <1>1, <2>1, ClosedAssumption DEF OwnAnswer
  <2> QED
    BY <2>2, <2>3, <2>4 DEF HandlerInv
<1>5. ASSUME NEW d \in Clients, d # c PROVE HandlerInv(d)'
  BY <1>1, <1>5, Frame DEF TypeOK, Same
<1> QED
  BY <1>2, <1>3, <1>4, <1>5

\* handle returns: the connection and the permit go together.
LEMMA CloseInv ==
  ASSUME IInv, NEW c \in Clients, Close(c)
  PROVE  IInv'
<1> USE DEF IInv
<1>0. pc[c] = "closing"
  BY DEF Close
<1>1. /\ UNCHANGED <<loop, backlog, client, msg, sent>>
      /\ UNCHANGED <<caller, request, asked, upreply, reply>>
      /\ pc' = [pc EXCEPT ![c] = "closed"] /\ slots' = slots + 1
      /\ answer' = IF answer[c] = None /\ client[c] # "gone"
                   THEN [answer EXCEPT ![c] = Closed] ELSE answer
  BY DEF Close, Goto, acceptVars, clientVars
<1>2. \A d \in Clients : pc'[d] = IF d = c THEN "closed" ELSE pc[d]
  BY <1>1 DEF TypeOK
<1>3. SlotsConserved' /\ slots' \in 0 .. MaxConnections
  <2>1. Handled' = Handled \ {c} /\ c \in Handled
    BY <1>0, <1>2 DEF Handled
  <2>2. Cardinality(Handled') = Cardinality(Handled) - 1
    BY <2>1, HandlersFinite, FS_RemoveElement
  <2>3. Cardinality(Handled') \in Nat
    <3>1. IsFiniteSet(Handled')
      BY <2>1, HandlersFinite, FS_Subset
    <3> QED
      BY <3>1, FS_CardinalityType
  <2>4. SlotsConserved'
    BY <1>1, <2>2, HandlersFinite DEF SlotsConserved, TypeOK
  <2>5. slots' \in 0 .. MaxConnections
    BY <1>1, <2>2, <2>3, <2>4, HandlersFinite, LimitAssumption DEF SlotsConserved, TypeOK
  <2> QED
    BY <2>4, <2>5
<1>4. TypeOK'
  BY <1>1, <1>3 DEF TypeOK, Stages
<1>5. QueueInv'
  BY <1>0, <1>1, <1>2 DEF QueueInv
<1>6. HandlerInv(c)'
  <2>1. /\ pc'[c] = "closed"
        /\ answer'[c] = IF answer[c] = None /\ client[c] # "gone" THEN Closed ELSE answer[c]
    BY <1>1 DEF TypeOK
  <2>2. OwnQuestion(c)' /\ OwnForward(c)' /\ OwnReplies(c)'
    BY <1>0, <1>1, <2>1, GateStable DEF HandlerInv, OwnQuestion, OwnForward, OwnReplies
  <2>3. OwnAnswer(c)'
    BY <1>0, <1>1, <2>1, GateStable DEF HandlerInv, OwnAnswer
  <2> QED
    BY <2>2, <2>3 DEF HandlerInv
<1>7. ASSUME NEW d \in Clients, d # c PROVE HandlerInv(d)'
  BY <1>1, <1>2, <1>7, Frame DEF TypeOK, Same
<1> QED
  BY <1>3, <1>4, <1>5, <1>6, <1>7

(***************************************************************************)
(* The theorems.                                                           *)
(***************************************************************************)

\* The invariant holds initially.
LEMMA InitIInv == Init => IInv
<1> SUFFICES ASSUME Init PROVE IInv
  OBVIOUS
<1>1. TypeOK
  BY LimitAssumption DEF Init, TypeOK, Stages
<1>2. SlotsConserved
  <2>1. Handled = {}
    BY DEF Init, Handled
  <2>2. Cardinality({}) = 0
    BY FS_EmptySet
  <2> QED
    BY <2>1, <2>2, LimitAssumption DEF Init, SlotsConserved
<1>3. QueueInv
  BY DEF Init, QueueInv
<1>4. ASSUME NEW c \in Clients PROVE HandlerInv(c)
  BY ClosedAssumption DEF Init, HandlerInv, OwnQuestion, OwnForward, OwnReplies, OwnAnswer
<1> QED
  BY <1>1, <1>2, <1>3, <1>4 DEF IInv

\* Every step preserves the invariant.
LEMMA NextIInv == IInv /\ [Next]_vars => IInv'
<1> SUFFICES ASSUME IInv, [Next]_vars PROVE IInv'
  OBVIOUS
<1>1. CASE ServeStep
  BY <1>1, LoopInv, AcceptInv DEF ServeStep
<1>2. ASSUME NEW c \in Clients, ClientStep(c) PROVE IInv'
  BY <1>2, ConnectInv, ClientInv DEF ClientStep
<1>3. ASSUME NEW c \in Clients, HandlerStep(c) PROVE IInv'
  BY <1>3, PeerCredInv, ReadInv, JudgeInv, ForwardConnectInv, ForwardEndsInv, WriteInv, CloseInv
    DEF HandlerStep
<1>4. ASSUME NEW c \in Clients, UpstreamReply(c) PROVE IInv'
  BY <1>4, UpstreamReplyInv
<1>5. CASE UNCHANGED vars
  <2>1. TypeOK' /\ SlotsConserved' /\ QueueInv'
    BY <1>5 DEF IInv, vars, TypeOK, SlotsConserved, QueueInv, Handled
  <2>2. ASSUME NEW d \in Clients PROVE HandlerInv(d)'
    BY <1>5, Frame DEF IInv, vars, Same
  <2> QED
    BY <2>1, <2>2 DEF IInv
<1> QED
  BY <1>1, <1>2, <1>3, <1>4, <1>5 DEF Next

\* The invariant holds in every reachable state.
THEOREM Invariance == Spec => []IInv
BY InitIInv, NextIInv, PTL DEF Spec

\* The variables of the front-end keep their types; in particular the
\* semaphore never holds more permits than it was made with.
THEOREM TypeCorrect == Spec => []TypeOK
<1>1. IInv => TypeOK
  BY DEF IInv
<1> QED
  BY <1>1, Invariance, PTL

\* Permits are conserved on every path through serve and handle.
THEOREM SlotsTheorem == Spec => []SlotsConserved
<1>1. IInv => SlotsConserved
  BY DEF IInv
<1> QED
  BY <1>1, Invariance, PTL

\* No name the policy denies to the caller reaches the real nscd (reply_for),
\* for every policy and any interleaving of connections.
THEOREM DeniedTheorem == Spec => []DeniedNeverForwarded
<1>1. IInv => DeniedNeverForwarded
  <2> SUFFICES ASSUME IInv, NEW c \in asked PROVE ~PolicyDenies(c)
    BY DEF DeniedNeverForwarded
  <2>1. c \in Clients
    BY DEF IInv, TypeOK
  <2>2. /\ request[c] # None /\ GateMayForward(Asked(c))
        /\ request[c] = msg[c] /\ caller[c] = Peer[c]
    BY <2>1 DEF IInv, HandlerInv, OwnForward, OwnQuestion
  <2> QED
    BY <2>2 DEF Asked, GateMayForward, GateVerdict, PolicyDenies
<1> QED
  BY <1>1, Invariance, PTL

\* A denial is HOST_NOT_FOUND and nothing else, whatever the real nscd does.
THEOREM DenialTheorem == Spec => []DenialIsFinal
<1>1. IInv => DenialIsFinal
  <2> SUFFICES ASSUME IInv, NEW c \in Clients, answer[c] # None, request[c] # None,
                      PolicyDenies(c)
               PROVE  answer[c] = not_found(msg[c].ty, HOST_NOT_FOUND)
    BY DEF DenialIsFinal
  <2>1. /\ HandlerInv(c) /\ Asked(c).request = msg[c] /\ Asked(c).caller = Peer[c]
    BY DEF IInv, HandlerInv, OwnQuestion, Asked
  <2>2. ~GateMayRefuse(Asked(c)) /\ GateVerdict(Asked(c)) = "Denied"
    BY <2>1 DEF PolicyDenies, GateMayRefuse, GateVerdict
  <2>3. ~GateMayForward(Asked(c))
    BY <2>1, <2>2 DEF PolicyDenies, GateMayForward
  <2>4. c \notin asked
    BY <2>1, <2>3 DEF HandlerInv, OwnForward
  <2>5. answer[c] = reply[c] /\ reply[c] # None
    BY <2>1, <2>2 DEF HandlerInv, OwnAnswer
  <2>6. reply[c] \in GateOwnAnswers(Asked(c))
    BY <2>1, <2>4, <2>5 DEF HandlerInv, OwnReplies
  <2> QED
    BY <2>1, <2>2, <2>5, <2>6 DEF GateOwnAnswers
<1> QED
  BY <1>1, Invariance, PTL

\* What the front-end says by itself in answer to a host lookup is never
\* "no nscd here".
LEMMA OwnAnswersAreAnswers ==
  ASSUME NEW q, q.request \in Messages, NEW a \in GateOwnAnswers(q)
  PROVE  ~TakenAsNoNscd(q.request.ty, a)
<1> DEFINE m == q.request
<1>1. ~GateMayRefuse(q)
  BY DEF GateOwnAnswers
<1>2. CASE a \in {not_found(m.ty, HOST_NOT_FOUND), not_found(m.ty, TRY_AGAIN)}
  <2>1. HOST_NOT_FOUND \in Int /\ TRY_AGAIN \in Int
    BY DEF HOST_NOT_FOUND, TRY_AGAIN
  <2> QED
    BY <1>2, <2>1, NotFoundIsAnAnswer
<1>3. CASE a = found(m.ty, m.name, upstream_resolve(m.name))
  <2>1. NameLen(m.name) \in Nat
    BY <1>1, MessagesAssumption DEF GateMayRefuse
  <2>2. upstream_resolve(m.name) \in Seq({"v4", "v6"})
    <3>1. <<"v4">> \in Seq({"v4", "v6"}) /\ <<>> \in Seq({"v4", "v6"})
      OBVIOUS
    <3> QED
      BY <3>1 DEF upstream_resolve
  <2> QED
    BY <1>3, <2>1, <2>2, FoundIsAnAnswer
<1> QED
  BY <1>1, <1>2, <1>3 DEF GateOwnAnswers

\* Whose host request was read is never sent off to resolve by itself, whatever
\* the real nscd replies, cuts short or fails to reply, but for a request
\* without a name, which is closed, and for aliases.
THEOREM NoNscdTheorem == Spec => []NeverToldNoNscd
<1>1. IInv => NeverToldNoNscd
  <2> SUFFICES ASSUME IInv, NEW c \in Clients, request[c] # None,
                      is_host_lookup(request[c].ty), answer[c] # None
               PROVE  \/ Nameless(request[c]) /\ answer[c] = Closed
                      \/ /\ answer[c] # Closed
                         /\ \/ ~TakenAsNoNscd(request[c].ty, answer[c])
                            \/ request[c].ty # GetAi /\ answer[c].words[4] > 0
    BY DEF NeverToldNoNscd
  <2>1. /\ HandlerInv(c) /\ Asked(c).request = request[c] /\ request[c] \in Messages
    BY DEF IInv, TypeOK, Asked
  <2>2. CASE answer[c] = Closed
    <3>1. GateMayRefuse(Asked(c))
      BY <2>1, <2>2 DEF HandlerInv, OwnAnswer
    <3> QED
      BY <2>1, <2>2, <3>1 DEF GateMayRefuse, Nameless
  <2>3. CASE answer[c] # Closed
    <3>1. answer[c] = reply[c] /\ reply[c] # None
      BY <2>1, <2>3 DEF HandlerInv, OwnAnswer
    <3>2. CASE reply[c] \in GateOwnAnswers(Asked(c))
      BY <2>1, <2>3, <3>1, <3>2, OwnAnswersAreAnswers
    <3>3. CASE reply[c] \in GateUpstreamAnswers(Asked(c))
      <4>1. /\ reply[c] \in Replies /\ Len(reply[c].words) = 8
            /\ valid_host_reply(request[c].ty, reply[c])
        BY <2>1, <3>3, UpstreamAssumption DEF GateUpstreamAnswers
      <4>2. reply[c].words[4] \in Int
        BY <4>1 DEF Replies
      <4>3. reply[c].words[4] <= 0 \/ reply[c].words[4] > 0
        BY <4>2
      <4> QED
        BY <2>3, <3>1, <4>1, <4>3, ValidIsAnAnswer
    <3> QED
      BY <2>1, <3>1, <3>2, <3>3 DEF HandlerInv, OwnReplies
  <2> QED
    BY <2>2, <2>3
<1> QED
  BY <1>1, Invariance, PTL

\* A client is answered once: a step may give an answer where there was none
\* but never replace one.
THEOREM OneAnswerTheorem == Spec => OneAnswer
<1>1. ASSUME IInv, [Next]_vars, NEW c \in Clients, answer[c] # None
      PROVE  answer'[c] = answer[c] \/ pc'[c] = "queued"
  <2>1. pc[c] \in {"closing", "closed"} /\ answer \in [Clients -> Replies \cup {None, Closed}]
    BY <1>1 DEF IInv, HandlerInv, OwnAnswer, TypeOK
  <2>2. CASE UNCHANGED answer
    BY <2>2
  <2>3. ASSUME NEW d \in Clients, Connect(d) PROVE answer'[c] = answer[c] \/ pc'[c] = "queued"
    BY <1>1, <2>1, <2>3 DEF Connect, IInv, TypeOK
  <2>4. ASSUME NEW d \in Clients, Write(d) PROVE answer'[c] = answer[c]
    BY <1>1, <2>1, <2>4 DEF Write
  <2>5. ASSUME NEW d \in Clients, Close(d) PROVE answer'[c] = answer[c]
    BY <1>1, <2>1, <2>5 DEF Close
  <2> QED
    BY <1>1, <2>2, <2>3, <2>4, <2>5 DEF Next, vars, ServeStep, ClientStep, HandlerStep,
         Send, Stall, Leave, Acquire, Accept, AcceptFails, Retry, handlerVars, PeerCred,
         ReadRequest, ReadTimeout, Judge, ForwardConnect, UpstreamReply, ForwardReceives,
         ForwardError
<1>2. IInv /\ [Next]_vars =>
        (\A c \in Clients : answer[c] # None => answer'[c] = answer[c] \/ pc'[c] = "queued")
  BY <1>1
<1> QED
  BY <1>2, Invariance, PTL DEF Spec, OneAnswer

(***************************************************************************)
(* The front-end implements PolicyGate.                                    *)
(***************************************************************************)

GateQuestion == [c \in Clients |-> Question(c)]

\* A step that leaves requests, callers, asked and answers alone stutters.
LEMMA GateStutter ==
  ASSUME UNCHANGED <<request, caller, asked, answer>>
  PROVE  UNCHANGED Gate!gateVars
<1>1. \A c \in Clients : Question(c)' = Question(c)
  BY DEF Question
<1> QED
  BY <1>1 DEF Gate!gateVars

\* A new connection renews the lookup.
LEMMA GateConnect ==
  ASSUME IInv, NEW c \in Clients, Connect(c)
  PROVE  Gate!Renew(c)
<1>1. \A d \in Clients : Question(d)' = IF d = c THEN None ELSE Question(d)
  BY DEF IInv, TypeOK, Connect, Question
<1>2. GateQuestion' = [GateQuestion EXCEPT ![c] = None]
  BY <1>1 DEF GateQuestion
<1> QED
  BY <1>2 DEF Connect, Gate!Renew, GateQuestion

\* Learning the peer is invisible: nothing has been asked yet.
LEMMA GatePeerCred ==
  ASSUME IInv, NEW c \in Clients, PeerCred(c)
  PROVE  UNCHANGED Gate!gateVars
<1>1. request[c] = None
  BY DEF IInv, HandlerInv, OwnQuestion, PeerCred
<1>2. \A d \in Clients : Question(d)' = Question(d)
  BY <1>1 DEF IInv, TypeOK, PeerCred, Question
<1> QED
  BY <1>2 DEF PeerCred, Gate!gateVars

\* Reading a request is asking its question.
LEMMA GateRead ==
  ASSUME IInv, NEW c \in Clients, ReadRequest(c)
  PROVE  UNCHANGED Gate!gateVars \/ \E q \in GateQuestions : Gate!Ask(c, q)
<1>1. CASE request' = request
  BY <1>1, GateStutter DEF ReadRequest
<1>2. CASE request' = [request EXCEPT ![c] = msg[c]]
  <2> DEFINE q == [request |-> msg[c], caller |-> Peer[c]]
  <2>1. /\ request[c] = None /\ answer[c] = None /\ msg[c] \in Messages
        /\ caller[c] = Peer[c] /\ Peer[c] # None /\ msg[c] # None
    BY MessagesAssumption DEF IInv, HandlerInv, OwnQuestion, OwnAnswer, ReadRequest
  <2>2. q \in GateQuestions
    BY <2>1 DEF GateQuestions
  <2>3. UNCHANGED <<caller, asked, answer>>
    BY DEF ReadRequest
  <2>4. \A d \in Clients : Question(d)' = IF d = c THEN q ELSE Question(d)
    BY <1>2, <2>1, <2>3 DEF IInv, TypeOK, Question
  <2>5. GateQuestion' = [GateQuestion EXCEPT ![c] = q]
    BY <2>4 DEF GateQuestion
  <2>6. GateQuestion[c] = None
    BY <2>1 DEF GateQuestion, Question
  <2> HIDE DEF q
  <2>7. Gate!Ask(c, q)
    BY <2>1, <2>3, <2>5, <2>6 DEF Gate!Ask, GateQuestion
  <2> QED
    BY <2>2, <2>7
<1> QED
  BY <1>1, <1>2 DEF ReadRequest

\* The question of a client whose request has been read.
LEMMA QuestionRead ==
  ASSUME IInv, NEW c \in Clients, request[c] # None
  PROVE  GateQuestion[c] = Asked(c) /\ Asked(c) # None
<1>1. GateQuestion[c] = Asked(c)
  BY DEF GateQuestion, Question, Asked
<1>2. request[c] \in Messages /\ caller[c] = Peer[c] /\ Peer[c] # None
  BY DEF IInv, TypeOK, HandlerInv, OwnQuestion
<1>3. Asked(c) \in GateQuestions
  BY <1>2 DEF Asked, GateQuestions
<1> QED
  BY <1>1, <1>3, QuestionsAssumption

\* Sending the request to the real nscd is PolicyGate's Forward.
LEMMA GateForward ==
  ASSUME IInv, NEW c \in Clients, ForwardConnect(c)
  PROVE  Gate!Forward(c)
<1>1. /\ request[c] # None /\ GateMayForward(Asked(c))
      /\ c \notin asked /\ answer[c] = None
  BY DEF IInv, HandlerInv, OwnForward, OwnAnswer, ForwardConnect
<1>2. GateQuestion[c] = Asked(c) /\ Asked(c) # None
  BY <1>1, QuestionRead
<1>3. UNCHANGED <<request, caller, answer>> /\ asked' = asked \cup {c}
  BY DEF ForwardConnect
<1>4. GateQuestion' = GateQuestion
  BY <1>3 DEF GateQuestion, Question
<1> QED
  BY <1>1, <1>2, <1>3, <1>4 DEF Gate!Forward, GateQuestion

\* Writing the reply answers the question, from the answers it admits.
LEMMA GateWrite ==
  ASSUME IInv, NEW c \in Clients, Write(c)
  PROVE  \/ UNCHANGED Gate!gateVars
         \/ /\ GateQuestion[c] # None
            /\ \E a \in GateOwnAnswers(GateQuestion[c]) \cup GateUpstreamAnswers(GateQuestion[c]) :
                 Gate!Answer(c, a)
<1>1. CASE client[c] = "gone"
  BY <1>1, GateStutter DEF Write
<1>2. CASE client[c] # "gone"
  <2>1. /\ request[c] # None /\ answer[c] = None
        /\ \/ reply[c] \in GateOwnAnswers(Asked(c))
           \/ c \in asked /\ reply[c] \in GateUpstreamAnswers(Asked(c))
    BY DEF IInv, HandlerInv, OwnReplies, OwnAnswer, Write
  <2>2. GateQuestion[c] = Asked(c) /\ Asked(c) # None
    BY <2>1, QuestionRead
  <2>3. UNCHANGED <<request, caller, asked>> /\ answer' = [answer EXCEPT ![c] = reply[c]]
    BY <1>2 DEF Write
  <2>4. GateQuestion' = GateQuestion
    BY <2>3 DEF GateQuestion, Question
  <2>5. Gate!Answer(c, reply[c])
    BY <2>1, <2>2, <2>3, <2>4 DEF Gate!Answer, GateQuestion
  <2> QED
    BY <2>1, <2>2, <2>5
<1> QED
  BY <1>1, <1>2

\* Closing without a reply refuses, and only what may be refused.
LEMMA GateClose ==
  ASSUME IInv, NEW c \in Clients, Close(c)
  PROVE  UNCHANGED Gate!gateVars \/ Gate!Refuse(c)
<1>1. CASE ~(answer[c] = None /\ client[c] # "gone")
  BY <1>1, GateStutter DEF Close
<1>2. CASE answer[c] = None /\ client[c] # "gone"
  <2>1. request[c] = None \/ GateMayRefuse(Asked(c))
    BY <1>2 DEF IInv, HandlerInv, OwnAnswer, Close
  <2>2. GateQuestion[c] = None \/ GateMayRefuse(GateQuestion[c])
    <3>1. CASE request[c] = None
      BY <3>1 DEF GateQuestion, Question
    <3>2. CASE request[c] # None
      BY <2>1, <3>2, QuestionRead
    <3> QED
      BY <3>1, <3>2
  <2>3. UNCHANGED <<request, caller, asked>> /\ answer' = [answer EXCEPT ![c] = Closed]
    BY <1>2 DEF Close
  <2>4. GateQuestion' = GateQuestion
    BY <2>3 DEF GateQuestion, Question
  <2> QED
    BY <1>2, <2>2, <2>3, <2>4 DEF Gate!Refuse, GateQuestion
<1> QED
  BY <1>1, <1>2

\* Every step of the front-end is a step of PolicyGate or leaves it alone.
LEMMA GateStep == IInv /\ [Next]_vars => [Gate!Next]_(Gate!gateVars)
<1> SUFFICES ASSUME IInv, [Next]_vars
             PROVE  Gate!Next \/ UNCHANGED Gate!gateVars
  OBVIOUS
<1>1. CASE UNCHANGED <<request, caller, asked, answer>>
  BY <1>1, GateStutter
<1>2. ASSUME NEW c \in Clients, Connect(c) PROVE Gate!Next
  BY <1>2, GateConnect DEF Gate!Next, Gate!Step
<1>3. ASSUME NEW c \in Clients, PeerCred(c) PROVE UNCHANGED Gate!gateVars
  BY <1>3, GatePeerCred
<1>4. ASSUME NEW c \in Clients, ReadRequest(c) PROVE Gate!Next \/ UNCHANGED Gate!gateVars
  BY <1>4, GateRead DEF Gate!Next, Gate!Step
<1>5. ASSUME NEW c \in Clients, ForwardConnect(c) PROVE Gate!Next
  BY <1>5, GateForward DEF Gate!Next, Gate!Step
<1>6. ASSUME NEW c \in Clients, Write(c) PROVE Gate!Next \/ UNCHANGED Gate!gateVars
  BY <1>6, GateWrite DEF Gate!Next, Gate!Step, GateQuestion
<1>7. ASSUME NEW c \in Clients, Close(c) PROVE Gate!Next \/ UNCHANGED Gate!gateVars
  BY <1>7, GateClose DEF Gate!Next, Gate!Step
<1> QED
  BY <1>1, <1>2, <1>3, <1>4, <1>5, <1>6, <1>7
    DEF Next, vars, ServeStep, ClientStep, HandlerStep,
        Send, Stall, Leave, Acquire, Accept, AcceptFails, Retry, handlerVars,
        ReadTimeout, Judge, UpstreamReply, ForwardReceives, ForwardError

\* For any policy, any number of clients and any real nscd, what clients and
\* the real nscd see of the front-end is a behaviour PolicyGate allows.
THEOREM GateTheorem == Spec => ImplementsGate
<1>1. Init => Gate!Init
  <2> SUFFICES ASSUME Init PROVE Gate!Init
    OBVIOUS
  <2>1. \A c \in Clients : Question(c) = None
    BY DEF Init, Question
  <2> QED
    BY <2>1 DEF Init, Gate!Init
<1> QED
  BY <1>1, GateStep, Invariance, PTL DEF Spec, ImplementsGate, Gate!Spec
=============================================================================
