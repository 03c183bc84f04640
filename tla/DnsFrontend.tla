---------------------------- MODULE DnsFrontend -----------------------------
(***************************************************************************)
(* The DNS front-end (src/dns.rs): the UDP loop and the TCP accept loop,   *)
(* each with its own semaphore, a task per datagram or connection, and the *)
(* exchange with the upstream server.  Clients, the network and the        *)
(* upstream server are the environment.  The end of the UDP loop after a   *)
(* failed recv_from is in module Daemon, how a caller is identified in     *)
(* module Identify: here identification returns any caller it might.       *)
(***************************************************************************)
EXTENDS DnsMessage

CONSTANTS
  Clients,         \* UDP sockets and TCP connections that may be used
  Transport,       \* "Udp" or "Tcp", of each
  Identities,      \* whom identify may take each for
  Sends,           \* the messages each may send
  Engine,          \* the compiled policy
  Relays,          \* uids whose queries are forwarded unjudged
  Ports,           \* local ports for the sockets to the upstream server
  MaxConnections,  \* permits of each semaphore
  Refused          \* PolicyGate's "no answer": a FORMERR

VARIABLES
  loop,    \* each listener: "acquire", "take" or, for TCP, "retry"
  slots,   \* permits left, per transport
  client,  \* each TCP client: "open", "stalled" (reads no more) or "gone"
  inbox,   \* what a client sent and nobody has read yet
  pc,      \* where a client's task is; "idle" without one
  msg,     \* the message the task read last
  caller,  \* respond: who asks, None before identify returns
  via,     \* forward: the port or stream the query went out on
  reply,   \* the reply to the message read last, None before
  flight   \* datagrams the upstream server got and may yet answer

vars == <<loop, slots, client, inbox, pc, msg, caller, via, reply, flight>>

taskVars == <<msg, caller, via, reply>>
netVars  == <<client, inbox, flight>>

Messages  == UNION {Sends[c] : c \in Clients}
CallerIds == UNION {Identities[c] : c \in Clients}
Transports == {"Udp", "Tcp"}

ASSUME ClientsAssumption ==
  /\ IsFiniteSet(Clients)
  /\ Transport \in [Clients -> Transports]
  /\ MaxConnections \in Nat \ {0}

ASSUME MessagesAssumption ==
  \A m \in Messages : m # None /\ m \in WireMessages

ASSUME IdentitiesAssumption == None \notin CallerIds

ASSUME PortsAssumption == None \notin Ports /\ "stream" \notin Ports /\ None # "stream"

ASSUME NoneAssumption == None \notin DnsReplies /\ Refused \notin DnsReplies /\ Refused # None

-----------------------------------------------------------------------------
(* What respond decides once it knows the caller.                          *)

\* Mutant: whoever could not be identified is taken for a relay.
Relayed_unknown(who) == who.uid = None \/ RelayContains(Relays, who)

Relayed(who) == RelayContains(Relays, who)

Verdict(m, who) == evaluate_for(Engine, PolicyName(m), who)

Denied(m, who) == ~Relayed(who) /\ Verdict(m, who) = "Denied"

\* Answered from the daemon's own records.
Local(m, who) ==
  ~Relayed(who) /\ Verdict(m, who) = "Allowed" /\ upstream_resolve(PolicyName(m)) # <<>>

\* What the upstream server answers to m.
UpstreamAnswer(m) ==
  [id |-> m.id, rcode |-> "relayed", about |-> Asks(m), ancount |-> 0, len |-> 0]

\* Mutant: forward_udp takes the first datagram that arrives.
Recognised_any(m, d) == TRUE

\* forward_udp's test on a datagram that arrives on its socket.
Recognised(m, d) == d.id = m.id

-----------------------------------------------------------------------------

Init ==
  /\ loop = [t \in Transports |-> "acquire"]
  /\ slots = [t \in Transports |-> MaxConnections]
  /\ client = [c \in Clients |-> "open"]
  /\ inbox = [c \in Clients |-> None]
  /\ pc = [c \in Clients |-> "idle"]
  /\ msg = [c \in Clients |-> None]
  /\ caller = [c \in Clients |-> None]
  /\ via = [c \in Clients |-> None]
  /\ reply = [c \in Clients |-> None]
  /\ flight = {}

Goto(c, label) == pc' = [pc EXCEPT ![c] = label]

(***************************************************************************)
(* Clients.                                                                *)
(***************************************************************************)

\* The exchange before is over, with all that a task knew of it.
Forget(c) ==
  /\ msg' = [msg EXCEPT ![c] = None]
  /\ caller' = [caller EXCEPT ![c] = None]
  /\ via' = [via EXCEPT ![c] = None]
  /\ reply' = [reply EXCEPT ![c] = None]

\* A UDP client sends a query; a TCP client connects.
Approach(c) ==
  /\ pc[c] = "idle"
  /\ Goto(c, "queued")
  /\ Forget(c)
  /\ client' = [client EXCEPT ![c] = "open"]
  /\ IF Transport[c] = "Udp"
     THEN \E m \in Sends[c] : inbox' = [inbox EXCEPT ![c] = m]
     ELSE inbox' = inbox
  /\ UNCHANGED <<loop, slots, flight>>

\* A TCP client sends a whole query on its connection.  One that sends a
\* part of it only is, to the deadline and to the end of file, silent; what
\* is sent before the connection is accepted might as well be sent after.
Send(c) ==
  /\ pc[c] = "read" /\ client[c] # "gone"
  /\ inbox[c] = None
  /\ \E m \in Sends[c] : inbox' = [inbox EXCEPT ![c] = m]
  /\ Forget(c)
  /\ UNCHANGED <<loop, slots, client, pc, flight>>

\* A TCP client stops reading for good, or closes its connection.
Turn(c, how) ==
  /\ Transport[c] = "Tcp" /\ pc[c] \notin {"idle", "queued"}
  /\ client[c] # "gone" /\ client[c] # how
  /\ client' = [client EXCEPT ![c] = how]
  /\ UNCHANGED <<loop, slots, inbox, pc, taskVars, flight>>

(***************************************************************************)
(* serve_udp and serve_tcp.                                                *)
(***************************************************************************)

\* Mutant: one semaphore for both transports.
SlotsOf_shared(t) == "Tcp"

\* The semaphore a listener takes its permits from.
SlotsOf(t) == t

Acquire(t) ==
  /\ loop[t] = "acquire"
  /\ slots[SlotsOf(t)] > 0
  /\ slots' = [slots EXCEPT ![SlotsOf(t)] = @ - 1]
  /\ loop' = [loop EXCEPT ![t] = "take"]
  /\ UNCHANGED <<pc, taskVars, netVars>>

\* A message is read and parsed; only one that parses goes further.
Begin(c) ==
  LET m == inbox[c]
  IN  /\ inbox' = [inbox EXCEPT ![c] = None]
      /\ msg' = [msg EXCEPT ![c] = m]
      /\ caller' = [caller EXCEPT ![c] = None]
      /\ via' = [via EXCEPT ![c] = None]
      /\ IF Parses(m)
         THEN Goto(c, "identify") /\ reply' = [reply EXCEPT ![c] = None]
         ELSE Goto(c, "write") /\ reply' = [reply EXCEPT ![c] = formerr(m)]

\* recv_from, and the task for the datagram.
RecvFrom(c) ==
  /\ loop["Udp"] = "take"
  /\ Transport[c] = "Udp" /\ pc[c] = "queued"
  /\ loop' = [loop EXCEPT !["Udp"] = "acquire"]
  /\ Begin(c)
  /\ UNCHANGED <<slots, client, flight>>

Accept(c) ==
  /\ loop["Tcp"] = "take"
  /\ Transport[c] = "Tcp" /\ pc[c] = "queued"
  /\ loop' = [loop EXCEPT !["Tcp"] = "acquire"]
  /\ Goto(c, "read")
  /\ UNCHANGED <<slots, taskVars, netVars>>

AcceptFails ==
  /\ loop["Tcp"] = "take"
  /\ loop' = [loop EXCEPT !["Tcp"] = "retry"]
  /\ UNCHANGED <<slots, pc, taskVars, netVars>>

\* Mutant: the permit is put back and then dropped as well.
Retry_twice ==
  /\ loop["Tcp"] = "retry"
  /\ loop' = [loop EXCEPT !["Tcp"] = "acquire"]
  /\ slots' = [slots EXCEPT ![SlotsOf("Tcp")] = @ + 2]
  /\ UNCHANGED <<pc, taskVars, netVars>>

\* Mutant: the permit is forgotten.
Retry_leaks ==
  /\ loop["Tcp"] = "retry"
  /\ loop' = [loop EXCEPT !["Tcp"] = "acquire"]
  /\ UNCHANGED <<slots, pc, taskVars, netVars>>

\* After ACCEPT_RETRY, which drops the permit.
Retry ==
  /\ loop["Tcp"] = "retry"
  /\ loop' = [loop EXCEPT !["Tcp"] = "acquire"]
  /\ slots' = [slots EXCEPT ![SlotsOf("Tcp")] = @ + 1]
  /\ UNCHANGED <<pc, taskVars, netVars>>

(***************************************************************************)
(* The task of c: serve_tcp_connection around respond and forward.         *)
(***************************************************************************)

\* The task ends and drops its permit.
Finish(c) ==
  /\ Goto(c, "idle")
  /\ slots' = [slots EXCEPT ![SlotsOf(Transport[c])] = @ + 1]

\* The connection is closed with it, and whatever it was about is over.
CloseStream(c) ==
  /\ Finish(c)
  /\ inbox' = [inbox EXCEPT ![c] = None]
  /\ Forget(c)

\* read_tcp_message returns a message.
ReadMessage(c) ==
  /\ pc[c] = "read" /\ inbox[c] # None
  /\ Begin(c)
  /\ UNCHANGED <<loop, slots, client, flight>>

\* Mutant: the client may take as long as it likes.
ReadEnds_patient(c) ==
  /\ pc[c] = "read" /\ inbox[c] = None /\ client[c] = "gone"
  /\ CloseStream(c)
  /\ UNCHANGED <<loop, client, flight>>

\* The end of the stream, clean or inside a message, or the deadline.
ReadEnds(c) ==
  /\ pc[c] = "read" /\ inbox[c] = None
  /\ CloseStream(c)
  /\ UNCHANGED <<loop, client, flight>>

\* respond, from the moment identify returns (or its thread panics, which
\* makes the caller unknown) to the next await.
Judge(c) ==
  /\ pc[c] = "identify"
  /\ \E who \in Identities[c] :
       /\ caller' = [caller EXCEPT ![c] = who]
       /\ IF Denied(msg[c], who)
          THEN Goto(c, "write") /\ reply' = [reply EXCEPT ![c] = nxdomain(msg[c])]
          ELSE IF Local(msg[c], who)
          THEN /\ Goto(c, "write")
               /\ reply' = [reply EXCEPT ![c] =
                              dns_answer(msg[c], upstream_resolve(PolicyName(msg[c])))]
          ELSE Goto(c, "forward") /\ reply' = reply
  /\ UNCHANGED <<loop, slots, msg, via, netVars>>

\* forward_udp up to recv, from a local port nobody else uses; forward_tcp
\* up to read, on a connection of its own.
ForwardSend(c) ==
  /\ pc[c] = "forward"
  /\ Goto(c, "await")
  /\ IF Transport[c] = "Tcp"
     THEN via' = [via EXCEPT ![c] = "stream"] /\ flight' = flight
     ELSE \E p \in Ports \ {via[d] : d \in {e \in Clients : pc[e] = "await"}} :
            /\ via' = [via EXCEPT ![c] = p]
            /\ flight' = flight \cup {[port |-> p, about |-> msg[c]]}
  /\ UNCHANGED <<loop, slots, client, inbox, msg, caller, reply>>

\* The answer that ends the wait: on the stream the one to this query, on
\* the port any that is recognised.  Answers may be late or repeated; those
\* not recognised leave the task waiting.
ForwardReceive(c) ==
  /\ pc[c] = "await"
  /\ \E m \in {msg[c]} \cup {d.about : d \in {e \in flight : e.port = via[c]}} :
       /\ Transport[c] = "Tcp" => m = msg[c]
       /\ Transport[c] = "Udp" => Recognised(msg[c], UpstreamAnswer(m))
       /\ reply' = [reply EXCEPT ![c] = UpstreamAnswer(m)]
  /\ Goto(c, "write")
  /\ UNCHANGED <<loop, slots, msg, caller, via, netVars>>

\* bind, connect, send or recv fails, the upstream server closes without a
\* reply, or the upstream deadline passes.
ForwardFails(c) ==
  /\ pc[c] \in {"forward", "await"}
  /\ reply' = [reply EXCEPT ![c] = servfail(msg[c])]
  /\ Goto(c, "write")
  /\ UNCHANGED <<loop, slots, msg, caller, via, netVars>>

\* The reply is sent: the end of a UDP task; on a connection the next
\* message is read.  The write to a client that is gone may fail; one that
\* does not read may hold it up, for which there is no deadline.
Write(c) ==
  /\ pc[c] = "write"
  /\ IF Transport[c] = "Udp"
     THEN Finish(c) /\ UNCHANGED <<inbox, taskVars>>
     ELSE \/ client[c] = "gone" /\ CloseStream(c)
          \/ Goto(c, "read") /\ UNCHANGED <<slots, inbox, taskVars>>
  /\ UNCHANGED <<loop, client, flight>>

TaskStep(c) ==
  \/ ReadMessage(c) \/ ReadEnds(c) \/ Judge(c)
  \/ ForwardSend(c) \/ ForwardReceive(c) \/ ForwardFails(c) \/ Write(c)

Next ==
  \/ \E t \in Transports : Acquire(t)
  \/ AcceptFails \/ Retry
  \/ \E c \in Clients :
       \/ Approach(c) \/ Send(c) \/ \E how \in {"stalled", "gone"} : Turn(c, how)
       \/ RecvFrom(c) \/ Accept(c) \/ TaskStep(c)

\* The runtime polls every task that can run, the UDP loop among them, and
\* fires every timer that is due; the kernel hands datagrams over in the order
\* they came.  Nothing is assumed of clients, of accept() and the loop around
\* it, or of the upstream server, and no write to a client that does not read
\* is sure to end.
Fairness ==
  /\ SF_vars(Acquire("Udp"))
  /\ \A c \in {d \in Clients : Transport[d] = "Udp"} : SF_vars(RecvFrom(c))
  /\ \A c \in Clients :
       WF_vars((pc[c] = "write" => client[c] # "stalled") /\ TaskStep(c))

Spec == Init /\ [][Next]_vars /\ Fairness

-----------------------------------------------------------------------------
(* Properties.                                                             *)

Working == {"identify", "forward", "await", "write"}

\* Types of the front-end's state; no semaphore ever holds more permits than
\* it was made with (with_limits).
TypeOK ==
  /\ loop \in [Transports -> {"acquire", "take", "retry"}]
  /\ slots \in [Transports -> 0 .. MaxConnections]
  /\ client \in [Clients -> {"open", "stalled", "gone"}]
  /\ inbox \in [Clients -> Messages \cup {None}]
  /\ pc \in [Clients -> {"idle", "queued", "read"} \cup Working]
  /\ msg \in [Clients -> Messages \cup {None}]
  /\ caller \in [Clients -> CallerIds \cup {None}]
  /\ via \in [Clients -> Ports \cup {"stream", None}]
  /\ reply \in [Clients -> DnsReplies \cup {None}]
  /\ flight \subseteq [port : Ports, about : Messages]

\* No permit is lost or made up on any path through the loops and the tasks:
\* what is left in a semaphore, the one its loop holds and one per task of
\* that transport add up to max_connections.
SlotsConserved ==
  \A t \in Transports :
    slots[t] + (IF loop[t] = "acquire" THEN 0 ELSE 1)
      + Cardinality({c \in Clients : Transport[c] = t /\ pc[c] \in {"read"} \cup Working})
    = MaxConnections

\* As a client's reply is written it carries the id and is about the question
\* of the message it replies to, however late the upstream server answers and
\* whichever ports are used again.  One exception is left: forward_udp means to
\* relay "only the answer to our question, not a stray datagram", but compares
\* the id alone.  So over UDP the reply may be about another query, if that had
\* the same id and went upstream from the very port this one uses.
AnswersOwnQuestion ==
  \A c \in Clients :
    pc[c] = "write" /\ reply[c].rcode # "FORMERR" =>
      /\ reply[c].id = msg[c].id
      /\ \/ reply[c].about = Asks(msg[c])
         \/ /\ Transport[c] = "Udp"
            /\ \E d \in flight :
                 /\ d.port = via[c] /\ d.about.id = msg[c].id
                 /\ reply[c].about = Asks(d.about)

\* A reply the daemon makes itself repeats only octets the query has
\* (question_bytes slices within the message) and fits the 512 octets of a
\* UDP message, as it must: response never sets the truncation bit.
OwnRepliesAreWhole ==
  \A c \in Clients :
    pc[c] = "write" /\ reply[c].rcode # "relayed"
      => /\ reply[c].len <= 512
         /\ reply[c].about # None => QuestionEnd(msg[c]) <= msg[c].len

\* On a TCP connection every query that was read is replied to whatever the
\* upstream server does, and a silent client is closed at the deadline,
\* unless the client stops reading (serve_tcp_connection, forward).
ConnectionsMoveOn ==
  \A c \in {d \in Clients : Transport[d] = "Tcp"} :
    /\ pc[c] \in Working ~> (pc[c] \in {"idle", "read"} \/ client[c] = "stalled")
    /\ pc[c] = "read" ~> pc[c] # "read"

\* A UDP query that reached the socket is replied to, whatever the upstream
\* server does, even while TCP clients hold every TCP permit for ever and TCP
\* accepts fail (udp_slots and tcp_slots are two semaphores).
UdpIsServed ==
  \A c \in {d \in Clients : Transport[d] = "Udp"} : pc[c] = "queued" ~> pc[c] = "idle"

(***************************************************************************)
(* The front-end implements PolicyGate.                                    *)
(***************************************************************************)

GateQuestions == [msg : Messages, caller : CallerIds]

ASSUME QuestionsAssumption == None \notin GateQuestions

Question(c) ==
  IF caller[c] = None THEN None ELSE [msg |-> msg[c], caller |-> caller[c]]

\* What the client has got: the reply, once it is sent.
Got(c) ==
  IF reply[c] = None \/ pc[c] \in Working THEN None
  ELSE IF reply[c].rcode = "FORMERR" THEN Refused ELSE reply[c]

IsRelay(q) == q.caller.uid # None /\ q.caller.uid \in Relays

GateVerdict(q) == evaluate_for(Engine, PolicyName(q.msg), q.caller)

GateMayForward(q) == IsRelay(q) \/ GateVerdict(q) # "Denied"

\* NXDOMAIN for what is denied; for the rest SERVFAIL, and local records
\* where the policy allows the name.
GateOwnAnswers(q) ==
  IF ~GateMayForward(q) THEN {nxdomain(q.msg)}
  ELSE {servfail(q.msg)}
       \cup {dns_answer(q.msg, addrs) :
               addrs \in {a \in {upstream_resolve(PolicyName(q.msg))} :
                            ~IsRelay(q) /\ GateVerdict(q) = "Allowed" /\ a # <<>>}}

GateUpstreamAnswers(q) == {UpstreamAnswer(m) : m \in {n \in Messages : n.id = q.msg.id}}

GateMayRefuse(q) == FALSE

Gate == INSTANCE PolicyGate WITH
  Lookups <- Clients, Questions <- GateQuestions,
  MayForward <- GateMayForward, OwnAnswers <- GateOwnAnswers,
  UpstreamAnswers <- GateUpstreamAnswers, MayRefuse <- GateMayRefuse,
  question <- [c \in Clients |-> Question(c)],
  asked <- {c \in Clients : via[c] # None},
  answer <- [c \in Clients |-> Got(c)]

\* Seen from its clients and from the upstream server, the front-end does
\* what PolicyGate promises: a query is judged once, for the caller identify
\* names, a denied one never goes upstream, a relay's is never denied, and
\* an answer is one its question admits.
ImplementsGate == Gate!Spec
=============================================================================
