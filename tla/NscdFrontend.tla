---------------------------- MODULE NscdFrontend ----------------------------
(***************************************************************************)
(* The nscd-protocol front-end (src/nscd.rs): the accept loop with its     *)
(* semaphore, one handler task per connection, and the real nscd behind    *)
(* it.  Clients, the kernel's listen queue and the real nscd are the       *)
(* environment.  Every await point of the code is a state of a handler, so *)
(* that handlers, clients and nscd interleave as they do in the program.   *)
(***************************************************************************)
EXTENDS NscdReply

CONSTANTS
  Clients,          \* the connections that may be made
  Peer,             \* SO_PEERCRED of each, None if getsockopt would fail
  Messages,         \* what clients may send: [version, ty, key_len, name]
  Engine,           \* the compiled policy
  UpstreamReplies,  \* what the real nscd may send back, whole or truncated
  MaxConnections,   \* permits of the semaphore
  SocketBuffer,     \* bytes a write may leave unread in the kernel
  Closed            \* an end of file instead of a reply

VARIABLES
  loop,      \* the accept loop: "acquire", "accept" or "retry"
  slots,     \* permits left in the semaphore
  backlog,   \* connections waiting for accept(), oldest first
  client,    \* each client: "absent", "reading", "stalled" or "gone"
  msg,       \* the request a client set out to send
  sent,      \* how much of it is sent: 0 nothing, 1 the header, 2 the key
  pc,        \* where the connection is in its life
  caller,    \* handle: the peer's credentials
  request,   \* handle: the request as read
  asked,     \* the connections whose request the real nscd was sent
  upreply,   \* what the real nscd has sent back on a connection
  reply,     \* reply_for: the bytes to write
  answer     \* what the client got: bytes, Closed, or None so far

vars == <<loop, slots, backlog, client, msg, sent, pc, caller, request, asked,
          upreply, reply, answer>>

clientVars  == <<client, msg, sent>>
handlerVars == <<caller, request, asked, upreply, reply, answer>>

\* Both ends of the loop's state that a handler never touches.
acceptVars == <<loop, backlog>>

Callers == [uid : Nat, gid : Nat, pid : Nat]

ASSUME ClientsAssumption == IsFiniteSet(Clients)

ASSUME ClosedAssumption == Closed \notin Replies /\ Closed # None /\ None \notin Replies

ASSUME LimitAssumption == MaxConnections \in Nat \ {0} /\ SocketBuffer \in Nat

ASSUME PeerAssumption ==
  /\ None \notin Callers
  /\ Peer \in [Clients -> Callers \cup {None}]

ASSUME MessagesAssumption ==
  /\ None \notin Messages
  /\ \A m \in Messages :
       /\ m.version \in Int /\ m.ty \in Int /\ m.key_len \in Int
       /\ m.name # None => NameLen(m.name) \in Nat

ASSUME UpstreamAssumption ==
  \A r \in UpstreamReplies : r \in Replies /\ Len(r.words) = 8

-----------------------------------------------------------------------------
(* What handle and reply_for compute.                                      *)

\* read_request gives up on a header announcing such a key.
BadKeyLen(m) == ~(0 <= m.key_len /\ m.key_len <= MAX_KEY_LEN)

\* Everything the header announces has been sent.
Complete(c) == sent[c] = 2 \/ (sent[c] = 1 /\ msg[c].key_len = 0)

\* read_request is ready: a whole request, a hopeless header, or the end of file.
Readable(c) ==
  Complete(c) \/ (sent[c] >= 1 /\ BadKeyLen(msg[c])) \/ client[c] = "gone"

\* Request::parse accepts.
Parses(m) == m.version = VERSION /\ m.ty \in RequestTypes /\ ~BadKeyLen(m)

\* Mutant: names in upper case match no rule.
Verdict_uncanonical(m, who) ==
  IF m.name.upper THEN DefaultOutcome(Engine) ELSE evaluate_for(Engine, m.name, who)

\* Mutant: the peer's credentials are not handed to the engine.
Verdict_anonymous(m, who) == evaluate_for(Engine, m.name, unknown)

Verdict(m, who) == evaluate_for(Engine, m.name, who)

Denied(m, who) == is_host_lookup(m.ty) /\ m.name # None /\ Verdict(m, who) = "Denied"

\* reply_for answers from the daemon's own records.
Local(m, who) ==
  /\ is_host_lookup(m.ty) /\ m.name # None
  /\ Verdict(m, who) = "Allowed" /\ upstream_resolve(m.name) # <<>>

\* reply_for closes at once: a host request without a name.
Nameless(m) == is_host_lookup(m.ty) /\ m.name = None

\* reply_for hands the request to the real nscd.
Forwards(m, who) == ~Nameless(m) /\ ~Denied(m, who) /\ ~Local(m, who)

\* Mutant: a denial reads like a temporary failure.
OwnReply_try_again(m, who) ==
  IF Denied(m, who) THEN not_found(m.ty, TRY_AGAIN)
                    ELSE found(m.ty, m.name, upstream_resolve(m.name))

\* What reply_for answers without the real nscd.
OwnReply(m, who) ==
  IF Denied(m, who) THEN not_found(m.ty, HOST_NOT_FOUND)
                    ELSE found(m.ty, m.name, upstream_resolve(m.name))

\* forward_host turns an error into TRY_AGAIN; other requests are closed.
ForwardErrorReply(m) ==
  IF is_host_lookup(m.ty) THEN not_found(m.ty, TRY_AGAIN) ELSE Closed

\* forward_host checks what nscd sent; other requests are relayed verbatim.
ForwardReply(m, bytes) ==
  IF is_host_lookup(m.ty) /\ ~valid_host_reply(m.ty, bytes)
  THEN not_found(m.ty, TRY_AGAIN)
  ELSE bytes

-----------------------------------------------------------------------------

Init ==
  /\ loop = "acquire"
  /\ slots = MaxConnections
  /\ backlog = <<>>
  /\ client = [c \in Clients |-> "absent"]
  /\ msg = [c \in Clients |-> None]
  /\ sent = [c \in Clients |-> 0]
  /\ pc = [c \in Clients |-> "idle"]
  /\ caller = [c \in Clients |-> None]
  /\ request = [c \in Clients |-> None]
  /\ asked = {}
  /\ upreply = [c \in Clients |-> None]
  /\ reply = [c \in Clients |-> None]
  /\ answer = [c \in Clients |-> None]

(***************************************************************************)
(* Clients.                                                                *)
(***************************************************************************)

\* A new connection; an identity whose connection is closed is used again,
\* with nothing left of the old handler's locals.
Connect(c) ==
  /\ pc[c] \in {"idle", "closed"}
  /\ client' = [client EXCEPT ![c] = "reading"]
  /\ \E m \in Messages : msg' = [msg EXCEPT ![c] = m]
  /\ sent' = [sent EXCEPT ![c] = 0]
  /\ backlog' = Append(backlog, c)
  /\ pc' = [pc EXCEPT ![c] = "queued"]
  /\ caller' = [caller EXCEPT ![c] = None]
  /\ request' = [request EXCEPT ![c] = None]
  /\ asked' = asked \ {c}
  /\ upreply' = [upreply EXCEPT ![c] = None]
  /\ reply' = [reply EXCEPT ![c] = None]
  /\ answer' = [answer EXCEPT ![c] = None]
  /\ UNCHANGED <<loop, slots>>

\* The header, then the key if it has one.
Send(c) ==
  /\ client[c] \in {"reading", "stalled"}
  /\ ~Complete(c)
  /\ answer[c] = None
  /\ sent' = [sent EXCEPT ![c] = @ + 1]
  /\ UNCHANGED <<loop, slots, backlog, client, msg, pc, handlerVars>>

\* The client stops reading for good, but keeps its end open.
Stall(c) ==
  /\ client[c] = "reading"
  /\ client' = [client EXCEPT ![c] = "stalled"]
  /\ UNCHANGED <<loop, slots, backlog, msg, sent, pc, handlerVars>>

Leave(c) ==
  /\ client[c] \in {"reading", "stalled"}
  /\ client' = [client EXCEPT ![c] = "gone"]
  /\ UNCHANGED <<loop, slots, backlog, msg, sent, pc, handlerVars>>

(***************************************************************************)
(* serve: acquire a permit, accept, spawn the handler; a failed accept is  *)
(* retried after a pause during which the permit is kept.                  *)
(***************************************************************************)

Acquire ==
  /\ loop = "acquire"
  /\ slots > 0
  /\ slots' = slots - 1
  /\ loop' = "accept"
  /\ UNCHANGED <<backlog, pc, clientVars, handlerVars>>

Accept ==
  /\ loop = "accept"
  /\ backlog # <<>>
  /\ backlog' = Tail(backlog)
  /\ pc' = [pc EXCEPT ![Head(backlog)] = "peercred"]
  /\ loop' = "acquire"
  /\ UNCHANGED <<slots, clientVars, handlerVars>>

\* Out of descriptors, say; the connection stays in the listen queue.
AcceptFails ==
  /\ loop = "accept"
  /\ backlog # <<>>
  /\ loop' = "retry"
  /\ UNCHANGED <<slots, backlog, pc, clientVars, handlerVars>>

\* Mutant: the permit is given back by add_permits and then dropped too.
Retry_twice ==
  /\ loop = "retry"
  /\ slots' = slots + 2
  /\ loop' = "acquire"
  /\ UNCHANGED <<backlog, pc, clientVars, handlerVars>>

\* Mutant: the permit is forgotten instead of dropped.
Retry_leaks ==
  /\ loop = "retry"
  /\ loop' = "acquire"
  /\ UNCHANGED <<slots, backlog, pc, clientVars, handlerVars>>

\* After ACCEPT_RETRY the loop starts over, which drops the permit.
Retry ==
  /\ loop = "retry"
  /\ slots' = slots + 1
  /\ loop' = "acquire"
  /\ UNCHANGED <<backlog, pc, clientVars, handlerVars>>

(***************************************************************************)
(* handle, for the connection of c.                                        *)
(***************************************************************************)

Goto(c, label) == pc' = [pc EXCEPT ![c] = label]

\* peer_caller(&stream)?
PeerCred(c) ==
  /\ pc[c] = "peercred"
  /\ caller' = [caller EXCEPT ![c] = Peer[c]]
  /\ Goto(c, IF Peer[c] = None THEN "closing" ELSE "read")
  /\ UNCHANGED <<slots, request, asked, upreply, reply, answer, acceptVars, clientVars>>

\* read_request returns: a request, or an error that ends the connection.
ReadRequest(c) ==
  /\ pc[c] = "read"
  /\ Readable(c)
  /\ IF Complete(c) /\ Parses(msg[c])
     THEN request' = [request EXCEPT ![c] = msg[c]] /\ Goto(c, "judge")
     ELSE request' = request /\ Goto(c, "closing")
  /\ UNCHANGED <<slots, caller, asked, upreply, reply, answer, acceptVars, clientVars>>

\* Mutant: read_request is awaited without a deadline.
ReadTimeout_none(c) == pc[c] = "read" /\ FALSE /\ UNCHANGED vars

\* The deadline; timeout() polls the read first, so only an unfinished read
\* can lose to it.
ReadTimeout(c) ==
  /\ pc[c] = "read"
  /\ ~Readable(c)
  /\ Goto(c, "closing")
  /\ UNCHANGED <<slots, handlerVars, acceptVars, clientVars>>

\* reply_for up to its first await on the real nscd.
Judge(c) ==
  /\ pc[c] = "judge"
  /\ IF Forwards(request[c], caller[c])
     THEN Goto(c, "connect") /\ reply' = reply
     ELSE IF Nameless(request[c])
     THEN Goto(c, "closing") /\ reply' = reply
     ELSE /\ Goto(c, "write")
          /\ reply' = [reply EXCEPT ![c] = OwnReply(request[c], caller[c])]
  /\ UNCHANGED <<slots, caller, request, asked, upreply, answer, acceptVars, clientVars>>

\* forward: connect and write_all, the request verbatim.
ForwardConnect(c) ==
  /\ pc[c] = "connect"
  /\ asked' = asked \cup {c}
  /\ Goto(c, "await")
  /\ UNCHANGED <<slots, caller, request, upreply, reply, answer, acceptVars, clientVars>>

\* The real nscd answers and closes, whether or not it got to the end.
UpstreamReply(c) ==
  /\ pc[c] = "await"
  /\ upreply[c] = None
  /\ \E r \in UpstreamReplies : upreply' = [upreply EXCEPT ![c] = r]
  /\ UNCHANGED <<slots, pc, caller, request, asked, reply, answer, acceptVars, clientVars>>

\* read_to_end returns.
ForwardReceives(c) ==
  /\ pc[c] = "await"
  /\ upreply[c] # None
  /\ reply' = [reply EXCEPT ![c] = ForwardReply(request[c], upreply[c])]
  /\ Goto(c, "write")
  /\ UNCHANGED <<slots, caller, request, asked, upreply, answer, acceptVars, clientVars>>

\* Mutant: the exchange with the real nscd has no deadline once it is asked.
ForwardError_patient(c) ==
  /\ pc[c] = "connect"
  /\ LET bytes == ForwardErrorReply(request[c])
     IN  IF bytes = Closed
         THEN Goto(c, "closing") /\ reply' = reply
         ELSE Goto(c, "write") /\ reply' = [reply EXCEPT ![c] = bytes]
  /\ UNCHANGED <<slots, caller, request, asked, upreply, answer, acceptVars, clientVars>>

\* connect, write_all or read_to_end fails, or the upstream deadline passes
\* before nscd is done.
ForwardError(c) ==
  /\ pc[c] \in {"connect", "await"}
  /\ upreply[c] = None
  /\ LET bytes == ForwardErrorReply(request[c])
     IN  IF bytes = Closed
         THEN Goto(c, "closing") /\ reply' = reply
         ELSE Goto(c, "write") /\ reply' = [reply EXCEPT ![c] = bytes]
  /\ UNCHANGED <<slots, caller, request, asked, upreply, answer, acceptVars, clientVars>>

\* write_all is held up by a client that does not read.
WriteBlocks(c) ==
  pc[c] = "write" /\ client[c] = "stalled" /\ reply[c].len > SocketBuffer

\* write_all and shutdown; there is no deadline for the client to read.
\* With the client gone write_all fails, which ends the handler as well.
Write(c) ==
  /\ pc[c] = "write"
  /\ ~WriteBlocks(c)
  /\ answer' = IF client[c] = "gone" THEN answer ELSE [answer EXCEPT ![c] = reply[c]]
  /\ Goto(c, "closing")
  /\ UNCHANGED <<slots, caller, request, asked, upreply, reply, acceptVars, clientVars>>

\* Mutant: the stream is reset instead of shut down, and the reply lost.
Close_resets(c) ==
  /\ pc[c] = "closing"
  /\ answer' = IF client[c] # "gone" THEN [answer EXCEPT ![c] = Closed] ELSE answer
  /\ Goto(c, "closed")
  /\ slots' = slots + 1
  /\ UNCHANGED <<caller, request, asked, upreply, reply, acceptVars, clientVars>>

\* handle returns: the stream is dropped, then the permit.
Close(c) ==
  /\ pc[c] = "closing"
  /\ answer' = IF answer[c] = None /\ client[c] # "gone"
               THEN [answer EXCEPT ![c] = Closed] ELSE answer
  /\ Goto(c, "closed")
  /\ slots' = slots + 1
  /\ UNCHANGED <<caller, request, asked, upreply, reply, acceptVars, clientVars>>

ClientStep(c) == Connect(c) \/ Send(c) \/ Stall(c) \/ Leave(c)

ServeStep == Acquire \/ Accept \/ AcceptFails \/ Retry

HandlerStep(c) ==
  \/ PeerCred(c) \/ ReadRequest(c) \/ ReadTimeout(c) \/ Judge(c)
  \/ ForwardConnect(c) \/ ForwardReceives(c) \/ ForwardError(c)
  \/ Write(c) \/ Close(c)

Next ==
  \/ ServeStep
  \/ \E c \in Clients : ClientStep(c) \/ HandlerStep(c) \/ UpstreamReply(c)

\* The runtime polls every task that can run and fires every timer that is
\* due; descriptors are not exhausted for ever, so an accept that is retried
\* often enough succeeds.  Nothing is assumed of clients or of the real nscd.
Fairness ==
  /\ WF_vars(Acquire) /\ WF_vars(Retry) /\ SF_vars(Accept)
  /\ \A c \in Clients : WF_vars(HandlerStep(c))

Spec == Init /\ [][Next]_vars /\ Fairness

-----------------------------------------------------------------------------
(* Properties.                                                             *)

Stages == {"idle", "queued", "peercred", "read", "judge", "connect", "await",
           "write", "closing", "closed"}

\* The connections a handler task is running for.
Handled == {c \in Clients : pc[c] \notin {"idle", "queued", "closed"}}

\* Types of the front-end's state; slots never exceeds the semaphore's size
\* (serve).
TypeOK ==
  /\ loop \in {"acquire", "accept", "retry"}
  /\ slots \in 0 .. MaxConnections
  /\ backlog \in Seq(Clients)
  /\ client \in [Clients -> {"absent", "reading", "stalled", "gone"}]
  /\ msg \in [Clients -> Messages \cup {None}]
  /\ sent \in [Clients -> 0 .. 2]
  /\ pc \in [Clients -> Stages]
  /\ caller \in [Clients -> Callers \cup {None}]
  /\ request \in [Clients -> Messages \cup {None}]
  /\ asked \in SUBSET Clients
  /\ upreply \in [Clients -> Replies \cup {None}]
  /\ reply \in [Clients -> Replies \cup {None}]
  /\ answer \in [Clients -> Replies \cup {None, Closed}]

\* No permit is lost or made up: those in the semaphore, the one the accept
\* loop holds (also while it waits to retry) and one per running handler add
\* up to max_connections, on every error path.
SlotsConserved ==
  slots + Cardinality(Handled) + (IF loop = "acquire" THEN 0 ELSE 1) = MaxConnections

\* The policy denies the name c asks for to the process that c is.
PolicyDenies(c) ==
  /\ is_host_lookup(msg[c].ty) /\ msg[c].name # None
  /\ evaluate_for(Engine, msg[c].name, Peer[c]) = "Denied"

\* Whatever order connections, reads and judgements happen in, the real nscd
\* never hears of a host name that the policy denies to the process on the
\* other end of that very connection (reply_for).
DeniedNeverForwarded ==
  \A c \in asked : ~PolicyDenies(c)

\* A client whose host request was read and that is still there is never told
\* "no nscd here", which would make glibc resolve its next hundred lookups
\* by itself, unfiltered: it gets no end of file and no reply glibc takes for
\* one, whatever the real nscd does (the module's comment, lines 17-25).  The
\* code leaves two exceptions, and the formula states both: a request whose
\* name is empty or not UTF-8 is closed (hostname, lines 532-535), which the
\* comment has for non-host requests only, and a reply with aliases may lack
\* some of them (CompleteReplies).
NeverToldNoNscd ==
  \A c \in Clients :
    request[c] # None /\ is_host_lookup(request[c].ty) /\ answer[c] # None =>
      \/ Nameless(request[c]) /\ answer[c] = Closed
      \/ /\ answer[c] # Closed
         /\ \/ ~TakenAsNoNscd(request[c].ty, answer[c])
            \/ request[c].ty # GetAi /\ answer[c].words[4] > 0

\* "whatever the real nscd sends back for a host request is checked to be a
\* complete, well-formed positive or negative reply before it is relayed"
\* (lines 22-24): a host reply that reaches a client has all its bytes.
CompleteReplies ==
  \A c \in Clients :
    answer[c] \in Replies /\ is_host_lookup(msg[c].ty) /\ answer[c].words[2] = 1
      => answer[c].len >= AnnouncedLen(msg[c].ty, answer[c])

\* A client learns addresses of a host only where the policy lets that very
\* caller have them, and a denial always reads HOST_NOT_FOUND, never the
\* temporary TRY_AGAIN that would have the client retry.
DenialIsFinal ==
  \A c \in Clients :
    answer[c] # None /\ request[c] # None /\ PolicyDenies(c)
      => answer[c] = not_found(msg[c].ty, HOST_NOT_FOUND)

\* A handler never serves two answers: once the client has something, the
\* connection only goes on to close and the identity to a new one.
OneAnswer ==
  [][\A c \in Clients : answer[c] # None =>
       answer'[c] = answer[c] \/ pc'[c] = "queued"]_vars

\* Every accepted connection ends, releasing its permit, whatever its client
\* and the real nscd do, with one exception: a client that stops reading in
\* the middle of a reply larger than the socket buffer, for which there is no
\* deadline.
HandlersEnd ==
  \A c \in Clients :
    c \in Handled ~> (pc[c] = "closed" \/ WriteBlocks(c))

\* Every connection in the listen queue is accepted, unless all permits end
\* up with such clients.
EveryoneIsAccepted ==
  \A c \in Clients :
    pc[c] = "queued" ~>
      (pc[c] # "queued" \/ Cardinality({d \in Clients : WriteBlocks(d)}) = MaxConnections)

(***************************************************************************)
(* The front-end implements PolicyGate.                                    *)
(***************************************************************************)

GateQuestions == [request : Messages, caller : {Peer[c] : c \in Clients} \ {None}]

ASSUME QuestionsAssumption == None \notin GateQuestions

Question(c) ==
  IF request[c] = None THEN None ELSE [request |-> request[c], caller |-> caller[c]]

GateVerdict(q) == evaluate_for(Engine, q.request.name, q.caller)

GateMayRefuse(q) == ~is_host_lookup(q.request.ty) \/ q.request.name = None

GateMayForward(q) ==
  IF is_host_lookup(q.request.ty)
  THEN q.request.name # None /\ GateVerdict(q) # "Denied"
  ELSE TRUE

\* A denial, a temporary failure for what may be forwarded, local records
\* for what is allowed.
GateOwnAnswers(q) ==
  IF GateMayRefuse(q) THEN {}
  ELSE IF GateVerdict(q) = "Denied" THEN {not_found(q.request.ty, HOST_NOT_FOUND)}
  ELSE {not_found(q.request.ty, TRY_AGAIN)}
       \cup {found(q.request.ty, q.request.name, addrs) :
               addrs \in {a \in {upstream_resolve(q.request.name)} :
                           GateVerdict(q) = "Allowed" /\ a # <<>>}}

GateUpstreamAnswers(q) ==
  {r \in UpstreamReplies :
     is_host_lookup(q.request.ty) => valid_host_reply(q.request.ty, r)}

Gate == INSTANCE PolicyGate WITH
  Lookups <- Clients, Questions <- GateQuestions, Refused <- Closed,
  MayForward <- GateMayForward, OwnAnswers <- GateOwnAnswers,
  UpstreamAnswers <- GateUpstreamAnswers, MayRefuse <- GateMayRefuse,
  question <- [c \in Clients |-> Question(c)]

\* Seen from its clients and from the real nscd, the front-end does what
\* PolicyGate promises: judges each request once, by its own peer, forwards
\* only what may be forwarded, and gives no answer a question does not admit.
ImplementsGate == Gate!Spec
=============================================================================
