--------------------------- MODULE IdentifyProofs ---------------------------
(***************************************************************************)
(* For any sockets, processes and interleaving of the system with the      *)
(* steps of identify: nobody is identified who had nothing to do with the  *)
(* query, and a sender that keeps its socket open is recognised.           *)
(*                                                                         *)
(* The invariant follows the sender's row: while its socket is open it is  *)
(* in the table to be read, then among the rows to be scanned, then among  *)
(* the best ones or beaten by a better one.                                *)
(***************************************************************************)
EXTENDS Identify, TLAPS

RowType == [local : Addresses, remote : Addresses, uid : Nat, inode : Nat,
            transport : Transports]

\* A row the kernel keeps of a closed connection.
Orphan(row) ==
  /\ row \in RowType
  /\ row.uid = 0 /\ row.inode = 0 /\ row.transport = "Tcp"
  /\ row.remote.port # 0
  /\ row.local.ip.host # "any" /\ row.remote.ip.host # "any"

\* A row read since the query was sent.
Known(row) ==
  /\ row \in RowType
  /\ row.transport = sender.transport
  /\ row.remote.port = 0 <=> row.remote.ip.host = "any"
  /\ Orphan(row) \/ \E h \in seen : h[2] = row

SenderOpen == \E h \in holds : h[2] = sender

\* What the kernel keeps: TCP connections differ.
SystemOK ==
  /\ holds \subseteq Processes \X Sockets
  /\ \A o \in orphans : Orphan(o)
  /\ \A h \in holds : h[2].transport = "Tcp" =>
       /\ \A o \in orphans : ~SameConnection(h[2], o)
       /\ \A k \in holds : k[2] # h[2] => ~SameConnection(h[2], k[2])

\* The query that is under way came out of the sender's socket.
QueryOK ==
  /\ sender \in Sockets /\ peer \in Addresses /\ server \in Addresses
  /\ peer.ip.host # "any" /\ server.port # 0
  /\ CouldSend(sender)
  /\ sender.transport = "Tcp" =>
       sender.remote.port # 0 /\ server.ip.host = sender.remote.ip.host

SeenOK ==
  /\ seen \subseteq Processes \X Sockets
  /\ holds \subseteq seen
  /\ \E h \in seen : h[2] = sender

Reading == pc \in {"v6", "scan"}
Decided == pc \in {"find", "status", "done"}

\* The rows are known, and the best of them fit equally well.
RowsOK ==
  /\ Reading => \A row \in todo : Known(row)
  /\ pc \in {"v4", "v6"} => best = {}
  /\ best_fit \in 0 .. 3
  /\ \A row \in best :
       Known(row) /\ CouldSend(row) /\ fit(row, peer, server) = best_fit

\* The sender's row has been found, or a better one.
Found == best # {} /\ (sender \in best \/ best_fit > fit(sender, peer, server))

SenderOK ==
  SenderOpen =>
    /\ Reading => \A row \in todo : Orphan(row) => ~SameConnection(sender, row)
    /\ \A row \in best : Orphan(row) => ~SameConnection(sender, row)
    /\ pc = "v6" /\ ~sender.local.ip.v6 => sender \in todo
    /\ pc = "scan" => sender \in todo \/ Found
    /\ Decided => Found

\* The user is that of all the best rows; the process had the only one.
ResultOK ==
  /\ pc \in {"v4", "v6", "scan"} => caller = unknown
  /\ caller \in Callers
  /\ Decided =>
       \/ caller.uid # None /\ best # {} /\ \A row \in best : row.uid = caller.uid
       \/ caller.uid = None /\ ~\E row \in best : \A other \in best : other.uid = row.uid
  /\ pc = "find" => UniqueRow /\ caller.pid = None /\ caller.gid = None
  /\ pc = "status" => caller.pid # None
  /\ caller.pid # None =>
       \E h \in seen : h[1] = caller.pid /\ \E row \in best : best = {row} /\ h[2].inode = row.inode
  /\ caller.gid # None => caller.gid = Egid[caller.pid]

IInv ==
  /\ SystemOK
  /\ pc \in {"idle", "v4", "v6", "scan", "find", "status", "done"}
  /\ pc = "idle" => best = {} /\ best_fit = 0 /\ caller = unknown
  /\ pc # "idle" => QueryOK /\ SeenOK /\ RowsOK /\ SenderOK /\ ResultOK

-----------------------------------------------------------------------------
(* What fit computes.                                                      *)

\* IPv4-mapped addresses and all: comparing with the address of a host is
\* comparing hosts.
LEMMA SameHost ==
  ASSUME NEW a \in [host : Hosts \cup {"any"}, v6 : BOOLEAN],
         NEW b \in [host : Hosts \cup {"any"}, v6 : BOOLEAN],
         b.host # "any"
  PROVE  same_host(a, b) <=> a.host = b.host
BY DEF same_host, to_canonical, is_unspecified

\* The rows fit lets through are those the query can have come out of.
LEMMA MaySendIsCouldSend ==
  ASSUME QueryOK, NEW row, row \in RowType, row.transport = sender.transport,
         row.remote.port = 0 <=> row.remote.ip.host = "any"
  PROVE  MaySend(row, peer, server) <=> CouldSend(row)
<1>1. /\ row.local.ip \in [host : Hosts \cup {"any"}, v6 : BOOLEAN]
      /\ row.remote.ip \in [host : Hosts \cup {"any"}, v6 : BOOLEAN]
      /\ peer.ip \in [host : Hosts \cup {"any"}, v6 : BOOLEAN]
      /\ server.ip \in [host : Hosts \cup {"any"}, v6 : BOOLEAN]
  BY DEF RowType, QueryOK, Addresses
<1>2. local_exact(row, peer) <=> row.local.ip.host = peer.ip.host
  BY <1>1, SameHost DEF local_exact, QueryOK
<1>3. remote_exact(row, server) <=>
        row.remote.port = server.port /\ server.ip.host \in {"any", row.remote.ip.host}
  BY <1>1, SameHost DEF remote_exact, is_unspecified
<1>4. unconnected(row) <=> row.remote.port = 0
  BY DEF unconnected, is_unspecified
<1> QED
  BY <1>2, <1>3, <1>4 DEF MaySend, CouldSend, is_unspecified

\* And it ranks them by how closely they are tied to the query's addresses.
LEMMA FitIsCloseness ==
  ASSUME QueryOK, NEW row, row \in RowType, CouldSend(row),
         row.remote.port = 0 <=> row.remote.ip.host = "any"
  PROVE  fit(row, peer, server) =
           (IF Connected(row) THEN 2 ELSE 0) + (IF Bound(row) THEN 1 ELSE 0)
<1>1. /\ row.local.ip \in [host : Hosts \cup {"any"}, v6 : BOOLEAN]
      /\ row.remote.ip \in [host : Hosts \cup {"any"}, v6 : BOOLEAN]
      /\ peer.ip \in [host : Hosts \cup {"any"}, v6 : BOOLEAN]
      /\ server.ip \in [host : Hosts \cup {"any"}, v6 : BOOLEAN]
  BY DEF RowType, QueryOK, Addresses
<1>2. local_exact(row, peer) <=> Bound(row)
  BY <1>1, SameHost DEF local_exact, QueryOK, CouldSend, Bound
<1>3. remote_exact(row, server) <=> Connected(row)
  BY <1>1, SameHost DEF remote_exact, is_unspecified, Connected, CouldSend, QueryOK
<1> QED
  BY <1>2, <1>3 DEF fit

\* A row that fits as well as another is tied as closely.
LEMMA FitOrder ==
  ASSUME QueryOK, NEW a, NEW b, a \in RowType, b \in RowType,
         CouldSend(a), CouldSend(b),
         a.remote.port = 0 <=> a.remote.ip.host = "any",
         b.remote.port = 0 <=> b.remote.ip.host = "any"
  PROVE  /\ fit(a, peer, server) \in 0 .. 3
         /\ fit(a, peer, server) >= fit(b, peer, server) <=> AsClose(a, b)
<1>1. /\ fit(a, peer, server) = (IF Connected(a) THEN 2 ELSE 0) + (IF Bound(a) THEN 1 ELSE 0)
      /\ fit(b, peer, server) = (IF Connected(b) THEN 2 ELSE 0) + (IF Bound(b) THEN 1 ELSE 0)
  BY FitIsCloseness
<1> QED
  BY <1>1 DEF AsClose

\* Sockets are rows.
LEMMA SocketRows ==
  ASSUME NEW s \in Sockets
  PROVE  /\ s \in RowType
         /\ s.remote.port = 0 <=> s.remote.ip.host = "any"
         /\ s.inode # 0
         /\ ~Orphan(s)
BY SocketsAssumption DEF RowType, Orphan, is_unspecified

\* A left-over connection the query could have come over is the sender's.
LEMMA OrphanIsSender ==
  ASSUME QueryOK, NEW row, Orphan(row), CouldSend(row)
  PROVE  SameConnection(sender, row)
<1>1. sender \in RowType /\ row \in RowType /\ sender.transport = "Tcp"
  BY SocketRows DEF QueryOK, Orphan, CouldSend
<1>2. /\ row.local.ip.host = peer.ip.host /\ row.local.port = peer.port
      /\ row.remote.port = server.port /\ row.remote.ip.host = server.ip.host
  BY <1>1, SocketRows DEF QueryOK, Orphan, CouldSend
<1>3. sender.local.ip.host # "any"
  BY <1>1, SocketsAssumption DEF QueryOK, is_unspecified, unconnected
<1>4. /\ sender.local.ip.host = peer.ip.host /\ sender.local.port = peer.port
      /\ sender.remote.port = server.port /\ sender.remote.ip.host = server.ip.host
  BY <1>1, <1>3, SocketRows DEF QueryOK, CouldSend
<1>5. /\ sender.local.ip \in [host : Hosts \cup {"any"}, v6 : BOOLEAN]
      /\ sender.remote.ip \in [host : Hosts \cup {"any"}, v6 : BOOLEAN]
      /\ row.local.ip \in [host : Hosts \cup {"any"}, v6 : BOOLEAN]
      /\ row.remote.ip \in [host : Hosts \cup {"any"}, v6 : BOOLEAN]
  BY <1>1 DEF RowType, Addresses
<1>6. same_host(sender.local.ip, row.local.ip) /\ same_host(sender.remote.ip, row.remote.ip)
  BY <1>2, <1>4, <1>5, SameHost DEF Orphan
<1> QED
  BY <1>1, <1>2, <1>4, <1>6 DEF SameConnection, Orphan

-----------------------------------------------------------------------------
(* The system moves on.                                                    *)

\* What the system does to a query under way: it may take the sender's
\* socket away, never bring it back.
LEMMA SystemInv ==
  ASSUME IInv, SystemOK', UNCHANGED Identifying,
         pc # "idle" => /\ seen \subseteq seen'
                        /\ seen' \subseteq Processes \X Sockets
                        /\ holds' \subseteq seen'
                        /\ SenderOpen' => SenderOpen
  PROVE  IInv'
<1> USE DEF Identifying, query
<1>1. CASE pc = "idle"
  BY <1>1 DEF IInv
<1>2. CASE pc # "idle"
  <2>1. QueryOK'
    BY <1>2 DEF IInv, QueryOK, CouldSend
  <2>2. SeenOK'
    BY <1>2 DEF IInv, SeenOK
  <2>3. ASSUME NEW row, Known(row)
        PROVE  Known(row)'
    BY <1>2, <2>3 DEF Known, Orphan
  <2>4. RowsOK'
    <3>1. \A row : CouldSend(row)' <=> CouldSend(row)
      BY DEF CouldSend
    <3> QED
      BY <1>2, <2>3, <3>1 DEF IInv, RowsOK, Reading
  <2>5. SenderOK'
    BY <1>2 DEF IInv, SenderOK, Reading, Decided, Found
  <2>6. ResultOK'
    BY <1>2 DEF IInv, ResultOK, Decided, UniqueRow
  <2> QED
    BY <1>2, <2>1, <2>2, <2>4, <2>5, <2>6 DEF IInv
<1> QED
  BY <1>1, <1>2

\* Being the same connection is symmetric.
LEMMA SameConnectionSym ==
  ASSUME NEW s, NEW t, SameConnection(s, t)
  PROVE  SameConnection(t, s)
BY DEF SameConnection, same_host

\* A process gets hold of a socket that it or another has opened.
LEMMA HoldInv ==
  ASSUME IInv, NEW p \in Processes, NEW s \in Sockets, Hold(p, s),
         UNCHANGED <<orphans, Identifying>>,
         \/ \E h \in holds : h[2] = s
         \/ /\ pc # "idle" => \A h \in seen : h[2] # s
            /\ s.transport = "Tcp" => \A row \in Open \cup orphans : ~SameConnection(s, row)
  PROVE  IInv'
<1>1. holds' = holds \cup {<<p, s>>}
  BY DEF Hold
<1>2. SystemOK'
  <2>1. holds' \subseteq Processes \X Sockets
    BY <1>1 DEF IInv, SystemOK
  <2>2. \A o \in orphans' : Orphan(o)'
    BY DEF IInv, SystemOK, Orphan
  <2>3. CASE \E h \in holds : h[2] = s
    <3>1. \A h \in holds' : \E k \in holds : k[2] = h[2]
      BY <1>1, <2>3
    <3> QED
      BY <2>1, <2>2, <3>1 DEF IInv, SystemOK
  <2>4. CASE s.transport = "Tcp" => \A row \in Open \cup orphans : ~SameConnection(s, row)
    <3>1. s.transport # "Tcp" => \A t : SameConnection(s, t) \/ SameConnection(t, s) => t.transport # "Tcp"
      BY DEF SameConnection
    <3>2. \A h \in holds : h[2].transport = "Tcp" => ~SameConnection(h[2], s) /\ ~SameConnection(s, h[2])
      BY <2>4, <3>1, SameConnectionSym DEF Open, SameConnection
    <3>3. s.transport = "Tcp" => \A k \in holds : ~SameConnection(s, k[2])
      BY <2>4 DEF Open
    <3>4. s.transport = "Tcp" => \A o \in orphans : ~SameConnection(s, o)
      BY <2>4
    <3>5. ASSUME NEW h \in holds', h[2].transport = "Tcp"
          PROVE  /\ \A o \in orphans : ~SameConnection(h[2], o)
                 /\ \A k \in holds' : k[2] # h[2] => ~SameConnection(h[2], k[2])
      <4>1. CASE h = <<p, s>>
        BY <1>1, <3>3, <3>4, <3>5, <4>1
      <4>2. CASE h \in holds
        BY <1>1, <3>2, <3>5, <4>2 DEF IInv, SystemOK
      <4> QED
        BY <1>1, <4>1, <4>2
    <3> QED
      BY <2>1, <2>2, <3>5 DEF SystemOK
  <2> QED
    BY <2>3, <2>4
<1>3. ASSUME pc # "idle"
      PROVE  /\ seen \subseteq seen'
             /\ seen' \subseteq Processes \X Sockets
             /\ holds' \subseteq seen'
             /\ SenderOpen' => SenderOpen
  <2>1. seen' = seen \cup {<<p, s>>}
    BY <1>3 DEF Hold
  <2>2. SeenOK
    BY <1>3 DEF IInv
  <2>3. SenderOpen' => SenderOpen
    BY <1>1, <1>3, <2>2 DEF SenderOpen, SeenOK, Identifying, query
  <2> QED
    BY <1>1, <2>1, <2>2, <2>3 DEF SeenOK
<1> QED
  BY <1>2, <1>3, SystemInv

\* File descriptors are closed.
LEMMA ReleaseInv ==
  ASSUME IInv, NEW gone, Release(gone), UNCHANGED <<seen, Identifying>>
  PROVE  IInv'
<1>1. holds' \subseteq holds
  BY DEF Release
<1>2. ASSUME NEW o \in orphans'
      PROVE  \/ o \in orphans
             \/ \E k \in holds : /\ k[2].transport = "Tcp" /\ ~unconnected(k[2])
                                 /\ o = [k[2] EXCEPT !.uid = 0, !.inode = 0]
                                 /\ \A h \in holds' : h[2] # k[2]
  <2>1. SUFFICES ASSUME o \notin orphans
                 PROVE  \E k \in holds : /\ k[2].transport = "Tcp" /\ ~unconnected(k[2])
                                          /\ o = [k[2] EXCEPT !.uid = 0, !.inode = 0]
                                          /\ \A h \in holds' : h[2] # k[2]
    OBVIOUS
  <2>2. PICK t \in Open : /\ t.transport = "Tcp" /\ ~unconnected(t)
                          /\ \A h \in holds \ gone : h[2] # t
                          /\ o = [t EXCEPT !.uid = 0, !.inode = 0]
    BY <1>2, <2>1 DEF Release
  <2>3. PICK k \in holds : k[2] = t
    BY DEF Open
  <2> QED
    BY <2>2, <2>3 DEF Release
<1>3. ASSUME NEW k \in holds, k[2].transport = "Tcp", ~unconnected(k[2]), NEW o,
             o = [k[2] EXCEPT !.uid = 0, !.inode = 0]
      PROVE  Orphan(o) /\ \A t : SameConnection(t, o) => SameConnection(t, k[2])
  <2>1. k[2] \in Sockets /\ k[2] \in RowType
    BY SocketRows DEF IInv, SystemOK
  <2>2. /\ o \in RowType /\ o.uid = 0 /\ o.inode = 0 /\ o.transport = "Tcp"
        /\ o.local = k[2].local /\ o.remote = k[2].remote
    BY <1>3, <2>1 DEF RowType
  <2>3. k[2].remote.port # 0 /\ k[2].remote.ip.host # "any" /\ k[2].local.ip.host # "any"
    BY <1>3, <2>1, SocketsAssumption DEF unconnected, is_unspecified
  <2> QED
    BY <1>3, <2>2, <2>3 DEF Orphan, SameConnection
<1>4. SystemOK'
  <2>1. \A o \in orphans' : Orphan(o)
    BY <1>2, <1>3 DEF IInv, SystemOK
  <2>2. ASSUME NEW h \in holds', h[2].transport = "Tcp", NEW o \in orphans'
        PROVE  ~SameConnection(h[2], o)
    BY <1>1, <1>2, <1>3, <2>2 DEF IInv, SystemOK
  <2> QED
    BY <1>1, <2>1, <2>2 DEF IInv, SystemOK, Orphan
<1>5. pc # "idle" => holds' \subseteq seen' /\ (SenderOpen' => SenderOpen)
  BY <1>1 DEF IInv, SeenOK, SenderOpen, Identifying, query
<1> QED
  BY <1>4, <1>5, SystemInv DEF IInv, SeenOK

\* Nothing of the kind.
LEMMA QuietInv ==
  ASSUME IInv, UNCHANGED <<holds, seen, Identifying>>, orphans' \subseteq orphans
  PROVE  IInv'
<1>1. SystemOK'
  BY DEF IInv, SystemOK, Orphan
<1>2. SenderOpen' => SenderOpen
  BY DEF SenderOpen, Identifying, query
<1> QED
  BY <1>1, <1>2, SystemInv DEF IInv, SeenOK

-----------------------------------------------------------------------------
(* The daemon looks.                                                       *)

\* A look changes neither the system nor the query.
LEMMA Look ==
  ASSUME IInv, pc # "idle", UNCHANGED <<system, query, seen>>
  PROVE  /\ SystemOK' /\ QueryOK' /\ SeenOK'
         /\ \A row : (Known(row)' <=> Known(row)) /\ (CouldSend(row)' <=> CouldSend(row))
         /\ SenderOpen' <=> SenderOpen
<1> USE DEF system, query
<1>1. SystemOK'
  BY DEF IInv, SystemOK, Orphan
<1>2. QueryOK'
  BY DEF IInv, QueryOK, CouldSend
<1>3. SeenOK'
  BY DEF IInv, SeenOK
<1>4. \A row : (Known(row)' <=> Known(row)) /\ (CouldSend(row)' <=> CouldSend(row))
  BY DEF Known, CouldSend, Orphan
<1>5. SenderOpen' <=> SenderOpen
  BY DEF SenderOpen
<1> QED
  BY <1>1, <1>2, <1>3, <1>4, <1>5

\* What is in the tables while a query is under way is known, and none of it
\* is a left-over of the sender's connection while that is open.
LEMMA TableKnown ==
  ASSUME IInv, pc # "idle", NEW v6 \in BOOLEAN, NEW row \in Table(sender.transport, v6)
  PROVE  /\ Known(row)
         /\ SenderOpen /\ Orphan(row) => ~SameConnection(sender, row)
<1>1. CASE row \in orphans
  <2>1. Orphan(row) /\ row.transport = sender.transport
    BY <1>1 DEF IInv, SystemOK, Table
  <2>2. Known(row)
    BY <2>1 DEF Known, Orphan
  <2>3. SenderOpen => ~SameConnection(sender, row)
    BY <1>1, <2>1 DEF IInv, SystemOK, SenderOpen, SameConnection, Orphan
  <2> QED
    BY <2>2, <2>3
<1>2. CASE row \in Open
  <2>1. PICK h \in holds : h[2] = row
    BY <1>2 DEF Open
  <2>2. h \in seen /\ row \in Sockets
    BY <2>1 DEF IInv, SeenOK, SystemOK
  <2>3. row.transport = sender.transport
    BY DEF Table
  <2> QED
    BY <2>1, <2>2, <2>3, SocketRows DEF Known
<1> QED
  BY <1>1, <1>2 DEF Table

\* A query leaves a socket.
LEMMA SendInv ==
  ASSUME IInv, NEW p \in Processes, NEW s \in Sockets, Send(p, s)
  PROVE  IInv'
<1> USE DEF system
<1>1. SystemOK'
  BY DEF IInv, SystemOK, Orphan, Send
<1>2. s \in RowType /\ (s.remote.port = 0 <=> s.remote.ip.host = "any")
  BY SocketRows
<1>3. /\ s.local.ip \in [host : Hosts \cup {"any"}, v6 : BOOLEAN]
      /\ s.remote.ip \in [host : Hosts \cup {"any"}, v6 : BOOLEAN]
      /\ s.local.port \in Nat
      /\ Listener.ip \in [host : Hosts \cup {"any"}, v6 : BOOLEAN]
      /\ Listener.port \in Nat /\ Listener.port # 0 /\ "any" \notin Hosts
  BY <1>2, SettingsAssumption DEF RowType, Addresses
<1>4. PICK h \in Hosts :
        /\ s.local.ip.host \in {"any", h}
        /\ peer' = [ip |-> [host |-> h, v6 |-> Listener.ip.v6], port |-> s.local.port]
  BY <1>3 DEF Send, is_unspecified
<1>5. peer' \in Addresses /\ peer'.ip.host = h /\ h # "any" /\ peer'.port = s.local.port
  BY <1>3, <1>4 DEF Addresses
<1>6. server' = IF s.transport = "Udp" THEN Listener
                ELSE [ip |-> [Listener.ip EXCEPT !.host = s.remote.ip.host], port |-> Listener.port]
  BY SettingsAssumption DEF Send, Addresses
<1>7. /\ server' \in Addresses /\ server'.port = Listener.port
      /\ s.transport = "Udp" => server'.ip.host = Listener.ip.host
      /\ s.transport # "Udp" => server'.ip.host = s.remote.ip.host
  BY <1>3, <1>6, SettingsAssumption DEF Addresses
<1>8. \/ /\ s.remote.port = Listener.port
         /\ Listener.ip.host \in {"any", s.remote.ip.host}
      \/ s.transport = "Udp" /\ s.remote.port = 0
  <2>1. CASE remote_exact(s, Listener)
    BY <1>3, <2>1, SameHost DEF remote_exact, is_unspecified
  <2>2. CASE s.transport = "Udp" /\ unconnected(s)
    BY <2>2 DEF unconnected
  <2> QED
    BY <2>1, <2>2 DEF Send
<1>9. QueryOK'
  <2>1. sender' = s
    BY DEF Send
  <2>2. CouldSend(sender)'
    BY <1>4, <1>5, <1>7, <1>8, <2>1 DEF CouldSend
  <2>3. sender'.transport = "Tcp" =>
          sender'.remote.port # 0 /\ server'.ip.host = sender'.remote.ip.host
    BY <1>3, <1>7, <1>8, <2>1
  <2> QED
    BY <1>3, <1>5, <1>7, <2>1, <2>2, <2>3 DEF QueryOK
<1>10. SeenOK'
  BY DEF Send, IInv, SystemOK, SeenOK
<1>11. pc' = "v4" /\ best' = {} /\ best_fit' = 0 /\ caller' = unknown
  BY DEF Send, IInv
<1>12. RowsOK' /\ SenderOK'
  BY <1>11 DEF RowsOK, SenderOK, Reading, Decided
<1>13. ResultOK'
  BY <1>11 DEF ResultOK, Decided, unknown, Callers
<1> QED
  BY <1>1, <1>9, <1>10, <1>11, <1>12, <1>13 DEF IInv

\* The IPv4 table: the sender is in it if it is an IPv4 socket.
LEMMA ReadV4Inv ==
  ASSUME IInv, ReadV4
  PROVE  IInv'
<1>1. /\ SystemOK' /\ QueryOK' /\ SeenOK'
      /\ \A row : (Known(row)' <=> Known(row)) /\ (CouldSend(row)' <=> CouldSend(row))
      /\ SenderOpen' <=> SenderOpen
  BY Look DEF ReadV4
<1>2. /\ pc = "v4" /\ pc' = "v6" /\ best' = {} /\ best = {} /\ best_fit' = best_fit
      /\ todo' = Table(sender.transport, FALSE)
      /\ caller = unknown /\ caller' = unknown
      /\ sender' = sender
  BY DEF ReadV4, IInv, RowsOK, ResultOK, query
<1>3. RowsOK'
  BY <1>1, <1>2, TableKnown DEF IInv, RowsOK, Reading
<1>4. SenderOK'
  <2>1. \A row \in todo' : SenderOpen /\ Orphan(row) => ~SameConnection(sender, row)
    BY <1>2, TableKnown
  <2>2. SenderOpen /\ ~sender.local.ip.v6 => sender \in todo'
    <3>1. sender \in RowType
      BY <1>2, SocketRows DEF IInv, QueryOK
    <3> QED
      BY <1>2, <3>1 DEF Table, Open, SenderOpen, RowType, Addresses
  <2> QED
    BY <1>1, <1>2, <2>1, <2>2 DEF SenderOK, Decided, Orphan
<1>5. ResultOK'
  BY <1>2 DEF ResultOK, Decided, unknown, Callers
<1> QED
  BY <1>1, <1>2, <1>3, <1>4, <1>5 DEF IInv

\* The IPv6 table: the sender is in one of the two.
LEMMA ReadV6Inv ==
  ASSUME IInv, ReadV6
  PROVE  IInv'
<1>1. /\ SystemOK' /\ QueryOK' /\ SeenOK'
      /\ \A row : (Known(row)' <=> Known(row)) /\ (CouldSend(row)' <=> CouldSend(row))
      /\ SenderOpen' <=> SenderOpen
  BY Look DEF ReadV6
<1>2. /\ pc = "v6" /\ pc' = "scan" /\ best' = {} /\ best = {} /\ best_fit' = best_fit
      /\ todo' = todo \cup Table(sender.transport, TRUE)
      /\ caller = unknown /\ caller' = unknown
      /\ sender' = sender
  BY DEF ReadV6, IInv, RowsOK, ResultOK, query
<1>3. RowsOK'
  BY <1>1, <1>2, TableKnown DEF IInv, RowsOK, Reading
<1>4. SenderOK'
  <2>1. \A row \in todo' : SenderOpen /\ Orphan(row) => ~SameConnection(sender, row)
    BY <1>2, TableKnown DEF IInv, SenderOK, Reading
  <2>2. SenderOpen => sender \in todo'
    <3>1. sender \in RowType
      BY <1>2, SocketRows DEF IInv, QueryOK
    <3>2. SenderOpen /\ sender.local.ip.v6 => sender \in Table(sender.transport, TRUE)
      BY <3>1 DEF Table, Open, SenderOpen, RowType, Addresses
    <3> QED
      BY <1>2, <3>2 DEF IInv, SenderOK
  <2> QED
    BY <1>1, <1>2, <2>1, <2>2 DEF SenderOK, Decided, Orphan
<1>5. ResultOK'
  BY <1>2 DEF ResultOK, Decided, unknown, Callers
<1> QED
  BY <1>1, <1>2, <1>3, <1>4, <1>5 DEF IInv

\* A row is looked at: the best rows stay the best, and the sender's row
\* becomes one of them unless it is worse.
LEMMA ScanRowInv ==
  ASSUME IInv, NEW row \in todo, ScanRow(row)
  PROVE  IInv'
<1> DEFINE f == fit(row, peer, server)
<1>1. /\ SystemOK' /\ QueryOK' /\ SeenOK'
      /\ \A r : (Known(r)' <=> Known(r)) /\ (CouldSend(r)' <=> CouldSend(r))
      /\ SenderOpen' <=> SenderOpen
  BY Look DEF ScanRow
<1>2. /\ pc = "scan" /\ pc' = "scan" /\ todo' = todo \ {row}
      /\ caller = unknown /\ caller' = unknown
      /\ sender' = sender /\ peer' = peer /\ server' = server
      /\ QueryOK /\ RowsOK /\ SenderOK
  BY DEF ScanRow, IInv, ResultOK, query
<1>3. Known(row) /\ (MaySend(row, peer, server) <=> CouldSend(row))
  BY <1>2, MaySendIsCouldSend DEF RowsOK, Reading, Known
<1>4. CouldSend(row) => f \in 0 .. 3
  BY <1>2, <1>3, FitOrder DEF Known
<1>5. sender \in RowType /\ CouldSend(sender) /\ fit(sender, peer, server) \in 0 .. 3
  BY <1>2, SocketRows, FitOrder DEF QueryOK
<1> HIDE DEF f
<1>6. CASE ~CouldSend(row)
  <2>1. best' = best /\ best_fit' = best_fit
    BY <1>3, <1>6 DEF ScanRow
  <2>2. RowsOK'
    BY <1>1, <1>2, <2>1 DEF RowsOK, Reading
  <2>3. row # sender
    BY <1>5, <1>6
  <2>4. SenderOK'
    BY <1>1, <1>2, <2>1, <2>3 DEF SenderOK, Reading, Decided, Found, Orphan
  <2>5. ResultOK'
    BY <1>2 DEF ResultOK, Decided, unknown, Callers
  <2> QED
    BY <1>1, <1>2, <2>2, <2>4, <2>5 DEF IInv
<1>7. CASE CouldSend(row)
  <2>1. IF best = {} \/ f > best_fit
        THEN best' = {row} /\ best_fit' = f
        ELSE /\ best' = IF f = best_fit THEN best \cup {row} ELSE best
             /\ best_fit' = best_fit
    BY <1>3, <1>7 DEF ScanRow, Better, f
  <2>2. /\ best_fit' \in 0 .. 3
        /\ \A r \in best' : Known(r) /\ CouldSend(r) /\ fit(r, peer, server) = best_fit'
    BY <1>2, <1>3, <1>4, <1>7, <2>1 DEF RowsOK, f
  <2>3. RowsOK'
    BY <1>1, <1>2, <2>2 DEF RowsOK, Reading
  <2>4. SenderOK'
    <3>1. SUFFICES ASSUME SenderOpen
                   PROVE  /\ \A r \in best' : Orphan(r) => ~SameConnection(sender, r)
                          /\ sender \in todo' \/ Found'
      BY <1>1, <1>2 DEF SenderOK, Reading, Decided, Orphan
    <3>2. \A r \in best' : Orphan(r) => ~SameConnection(sender, r)
      BY <1>2, <2>1, <3>1 DEF SenderOK, Reading
    <3>3. Found' <=> best' # {} /\ (sender \in best' \/ best_fit' > fit(sender, peer, server))
      BY <1>2 DEF Found
    <3>4. best_fit \in 0 .. 3
      BY <1>2 DEF RowsOK
    <3>5. row = sender => Found'
      BY <1>4, <1>7, <2>1, <3>3, <3>4 DEF f
    <3>6. row # sender /\ sender \in todo => sender \in todo'
      BY <1>2
    <3>7. Found => Found'
      <4>1. sender \in best => fit(sender, peer, server) = best_fit
        BY <1>2 DEF RowsOK
      <4> QED
        BY <1>4, <1>5, <1>7, <2>1, <3>3, <3>4, <4>1 DEF Found
    <3> QED
      BY <1>2, <3>1, <3>2, <3>5, <3>6, <3>7 DEF SenderOK
  <2>5. ResultOK'
    BY <1>2 DEF ResultOK, Decided, unknown, Callers
  <2> QED
    BY <1>1, <1>2, <2>3, <2>4, <2>5 DEF IInv
<1> QED
  BY <1>6, <1>7

\* The rows are all looked at: the best of them decide on the user.
LEMMA MatchInv ==
  ASSUME IInv, Match
  PROVE  IInv'
<1>1. /\ SystemOK' /\ QueryOK' /\ SeenOK'
      /\ \A r : (Known(r)' <=> Known(r)) /\ (CouldSend(r)' <=> CouldSend(r))
      /\ SenderOpen' <=> SenderOpen
  BY Look DEF Match
<1>2. /\ pc = "scan" /\ todo = {} /\ pc' \in {"find", "done"}
      /\ best' = best /\ best_fit' = best_fit
      /\ sender' = sender /\ peer' = peer /\ server' = server
      /\ QueryOK /\ RowsOK /\ SenderOK
  BY DEF Match, IInv, query
<1>3. RowsOK'
  BY <1>1, <1>2 DEF RowsOK, Reading
<1>4. SenderOK'
  BY <1>1, <1>2 DEF SenderOK, Reading, Decided, Found, Orphan
<1>5. ResultOK'
  <2>1. pc' = "find" => UniqueRow'
    BY <1>2 DEF Match, UniqueRow
  <2>2. \A row \in best : row.uid \in Nat
    BY <1>2 DEF RowsOK, Known, RowType
  <2>3. CASE \E row \in best : \A other \in best : other.uid = row.uid
    <3>1. PICK row \in best : \A other \in best : other.uid = row.uid
      BY <2>3
    <3>2. caller' = [unknown EXCEPT !.uid = row.uid]
      BY <2>3, <3>1 DEF Match
    <3>3. caller' = [uid |-> row.uid, gid |-> None, pid |-> None]
      BY <3>2 DEF unknown
    <3>4. row.uid # None
      BY <2>2, SettingsAssumption
    <3> QED
      BY <1>2, <2>1, <2>2, <3>1, <3>3, <3>4 DEF ResultOK, Decided, Callers
  <2>4. CASE ~\E row \in best : \A other \in best : other.uid = row.uid
    <3>1. caller' = [uid |-> None, gid |-> None, pid |-> None]
      BY <2>4 DEF Match, unknown
    <3> QED
      BY <1>2, <2>1, <2>4, <3>1 DEF ResultOK, Decided, Callers
  <2> QED
    BY <2>3, <2>4
<1> QED
  BY <1>1, <1>2, <1>3, <1>4, <1>5 DEF IInv

\* The end of the look-up changes nothing that was found out about rows.
LEMMA DecidedInv ==
  ASSUME IInv, Decided, pc' \in {"find", "status", "done"},
         UNCHANGED <<system, query, seen, best, best_fit>>, ResultOK'
  PROVE  IInv'
<1>1. /\ SystemOK' /\ QueryOK' /\ SeenOK'
      /\ \A r : (Known(r)' <=> Known(r)) /\ (CouldSend(r)' <=> CouldSend(r))
      /\ SenderOpen' <=> SenderOpen
  BY Look DEF Decided
<1>2. RowsOK' /\ SenderOK'
  BY <1>1 DEF IInv, RowsOK, SenderOK, Reading, Decided, Found, Orphan, query
<1> QED
  BY <1>1, <1>2 DEF IInv

\* A process with the socket among its files, or one without.
LEMMA ScanProcessInv ==
  ASSUME IInv, NEW p \in todo, ScanProcess(p)
  PROVE  IInv'
<1>1. pc = "find" /\ ResultOK /\ SeenOK /\ Decided
  BY DEF ScanProcess, IInv, Decided
<1>2. PICK row \in best : best = {row}
  BY <1>1 DEF ResultOK, UniqueRow
<1>3. row = CHOOSE r \in best : TRUE
  BY <1>2
<1>4. CASE HasSocket(p, row)
  <2>1. /\ caller' = [caller EXCEPT !.pid = p] /\ pc' = "status"
        /\ best' = best /\ seen' = seen
    BY <1>3, <1>4 DEF ScanProcess
  <2>2. PICK h \in holds : h[1] = p /\ h[2].inode = row.inode
    BY <1>4 DEF HasSocket
  <2>3. h \in seen /\ p \in Processes
    BY <1>1, <2>2 DEF SeenOK
  <2>4. /\ caller'.pid = p /\ caller'.uid = caller.uid /\ caller'.gid = None
        /\ caller' \in Callers
    BY <1>1, <2>1, <2>3 DEF ResultOK, Callers
  <2>5. p # None
    BY <2>3, ProcessesAssumption, SettingsAssumption
  <2>6. ResultOK'
    BY <1>1, <1>2, <2>1, <2>2, <2>3, <2>4, <2>5 DEF ResultOK, Decided
  <2> QED
    BY <1>1, <2>1, <2>6, DecidedInv DEF ScanProcess
<1>5. CASE ~HasSocket(p, row)
  <2>1. caller' = caller /\ pc' = "find" /\ best' = best /\ seen' = seen
    BY <1>1, <1>3, <1>5 DEF ScanProcess
  <2>2. ResultOK'
    BY <1>1, <2>1 DEF ResultOK, Decided, UniqueRow
  <2> QED
    BY <1>1, <2>1, <2>2, DecidedInv DEF ScanProcess
<1> QED
  BY <1>4, <1>5

\* No process has it.
LEMMA NoProcessInv ==
  ASSUME IInv, NoProcess
  PROVE  IInv'
<1>1. /\ pc = "find" /\ pc' = "done" /\ caller' = caller /\ best' = best /\ seen' = seen
      /\ ResultOK /\ Decided
  BY DEF NoProcess, IInv, Decided
<1>2. ResultOK'
  BY <1>1 DEF ResultOK, Decided
<1> QED
  BY <1>1, <1>2, DecidedInv DEF NoProcess

\* The gid of the process, or nothing if it is gone.
LEMMA ReadStatusInv ==
  ASSUME IInv, ReadStatus
  PROVE  IInv'
<1>1. /\ pc = "status" /\ pc' = "done" /\ best' = best /\ seen' = seen
      /\ ResultOK /\ Decided /\ caller \in Callers
  BY DEF ReadStatus, IInv, Decided, ResultOK
<1>2. PICK g \in Nat \cup {None} :
        /\ caller' = [caller EXCEPT !.gid = g]
        /\ g # None => g = Egid[caller.pid]
  <2>1. CASE caller.pid \in alive
    <3>1. caller.pid \in Processes /\ Egid[caller.pid] \in Nat
      BY <1>1, ProcessesAssumption DEF Callers, ResultOK
    <3> QED
      BY <2>1, <3>1 DEF ReadStatus
  <2>2. CASE caller.pid \notin alive
    BY <2>2 DEF ReadStatus
  <2> QED
    BY <2>1, <2>2
<1>3. /\ caller'.uid = caller.uid /\ caller'.pid = caller.pid /\ caller'.gid = g
      /\ caller' \in Callers
  BY <1>1, <1>2 DEF Callers
<1>4. ResultOK'
  BY <1>1, <1>2, <1>3 DEF ResultOK, Decided
<1> QED
  BY <1>1, <1>4, DecidedInv DEF ReadStatus

\* The answer is handed over.
LEMMA ReturnInv ==
  ASSUME IInv, Return
  PROVE  IInv'
BY DEF IInv, Return, SystemOK, Orphan, system

-----------------------------------------------------------------------------
(* The theorems.                                                           *)

\* Every step preserves the invariant.
LEMMA NextInv ==
  ASSUME IInv, [Next]_vars
  PROVE  IInv'
<1>1. CASE UNCHANGED vars
  BY <1>1, QuietInv DEF vars, Identifying, query
<1>2. ASSUME NEW p \in Processes, NEW s \in Sockets, OpenSocket(p, s)
      PROVE  IInv'
  BY <1>2, HoldInv DEF OpenSocket
<1>3. ASSUME NEW p \in Processes, NEW q \in Processes, NEW s \in Sockets, HandOn(p, q, s)
      PROVE  IInv'
  BY <1>3, HoldInv DEF HandOn
<1>4. ASSUME NEW p \in Processes, NEW s \in Sockets, CloseSocket(p, s)
      PROVE  IInv'
  BY <1>4, ReleaseInv DEF CloseSocket
<1>5. ASSUME NEW p \in Processes, Exit(p)
      PROVE  IInv'
  BY <1>5, ReleaseInv DEF Exit
<1>6. ASSUME NEW p \in Processes, Fork(p)
      PROVE  IInv'
  BY <1>6, QuietInv DEF Fork
<1>7. ASSUME NEW row \in orphans, Expire(row)
      PROVE  IInv'
  BY <1>7, QuietInv DEF Expire
<1>8. CASE System
  BY <1>2, <1>3, <1>4, <1>5, <1>6, <1>7, <1>8, SendInv DEF System
<1>9. CASE Daemon
  BY <1>9, ReadV4Inv, ReadV6Inv, MatchInv, NoProcessInv, ReadStatusInv, ReturnInv,
     ScanRowInv, ScanProcessInv DEF Daemon
<1> QED
  BY <1>1, <1>8, <1>9 DEF Next

\* The invariant holds throughout.
THEOREM IdentifyInvariant == Spec => []IInv
<1>1. Init => IInv
  BY DEF Init, IInv, SystemOK
<1>2. IInv /\ [Next]_vars => IInv'
  BY NextInv
<1> QED
  BY <1>1, <1>2, PTL DEF Spec

\* The best row of a process that was found is the socket it had.
LEMMA ProcessHadRow ==
  ASSUME IInv, pc = "done", caller.pid # None
  PROVE  \E row \in best : /\ best = {row} /\ <<caller.pid, row>> \in seen
                           /\ row \in Sockets /\ row.uid = caller.uid
<1>1. ResultOK /\ RowsOK /\ SeenOK /\ Decided
  BY DEF IInv, Decided
<1>2. PICK h \in seen : h[1] = caller.pid /\ \E row \in best : best = {row} /\ h[2].inode = row.inode
  BY <1>1 DEF ResultOK
<1>3. PICK row \in best : best = {row} /\ h[2].inode = row.inode
  BY <1>2
<1>4. h = <<h[1], h[2]>> /\ h[2] \in Sockets
  BY <1>1 DEF SeenOK
<1>5. ~Orphan(row)
  BY <1>3, <1>4, SocketRows DEF Orphan
<1>6. row \in Sockets
  BY <1>1, <1>5 DEF RowsOK, Known, SeenOK
<1>7. h[2] = row
  BY <1>3, <1>4, <1>6, SocketsAssumption
<1>8. row.uid = caller.uid
  BY <1>1, <1>3 DEF ResultOK
<1> QED
  BY <1>2, <1>3, <1>4, <1>6, <1>7, <1>8

\* Nobody is identified who had no socket the query could have come out of,
\* however sockets and processes come and go between the looks.
THEOREM NoStrangerTheorem == Spec => []NoStranger
<1>1. ASSUME IInv, pc = "done"
      PROVE  NoStranger
  <2>1. /\ ResultOK /\ RowsOK /\ QueryOK /\ Decided
        /\ SenderOpen => \A row \in best : Orphan(row) => ~SameConnection(sender, row)
    BY <1>1 DEF IInv, Decided, SenderOK
  <2>2. ASSUME caller.uid # None
        PROVE  \/ \E h \in seen : h[2].uid = caller.uid /\ CouldSend(h[2])
               \/ /\ caller.uid = 0 /\ sender.transport = "Tcp"
                  /\ \A h \in holds : h[2] # sender
    <3>1. PICK row \in best : row.uid = caller.uid
      BY <2>1, <2>2 DEF ResultOK
    <3>2. Known(row) /\ CouldSend(row)
      BY <2>1 DEF RowsOK
    <3>3. CASE Orphan(row)
      <4>1. ~SenderOpen
        BY <2>1, <3>2, <3>3, OrphanIsSender
      <4>2. caller.uid = 0 /\ sender.transport = "Tcp"
        BY <3>1, <3>2, <3>3 DEF Orphan, CouldSend
      <4> QED
        BY <4>1, <4>2 DEF SenderOpen
    <3> QED
      BY <3>1, <3>2, <3>3 DEF Known
  <2>3. ASSUME caller.pid # None
        PROVE  \E h \in seen : h[1] = caller.pid /\ h[2].uid = caller.uid /\ CouldSend(h[2])
    <3>1. PICK row \in best : <<caller.pid, row>> \in seen /\ row.uid = caller.uid
      BY <1>1, <2>3, ProcessHadRow
    <3>2. CouldSend(row)
      BY <2>1 DEF RowsOK
    <3> QED
      BY <3>1, <3>2
  <2>4. caller.gid # None => caller.gid = Egid[caller.pid]
    BY <2>1 DEF ResultOK
  <2> QED
    BY <2>2, <2>3, <2>4 DEF NoStranger
<1>2. IInv => NoStranger
  BY <1>1 DEF NoStranger
<1> QED
  BY <1>2, IdentifyInvariant, PTL

\* A sender that stays is identified as the user it is, unless another
\* user's socket is tied to the query's addresses as closely.
THEOREM SenderTheorem == Spec => []SenderIdentified
<1>1. ASSUME IInv, pc = "done", SenderOpen, caller.uid # sender.uid
      PROVE  \E h \in seen : h[2].uid # sender.uid /\ CouldSend(h[2]) /\ AsClose(h[2], sender)
  <2>1. /\ ResultOK /\ RowsOK /\ QueryOK /\ Decided /\ Found /\ best_fit \in 0 .. 3
        /\ \A row \in best : Orphan(row) => ~SameConnection(sender, row)
    BY <1>1 DEF IInv, Decided, SenderOK, RowsOK
  <2>2. PICK row \in best : row.uid # sender.uid
    BY <1>1, <2>1 DEF ResultOK, Found
  <2>3. Known(row) /\ CouldSend(row) /\ fit(row, peer, server) = best_fit
    BY <2>1 DEF RowsOK
  <2>4. PICK h \in seen : h[2] = row
    BY <2>1, <2>3, OrphanIsSender DEF Known
  <2>5. /\ sender \in RowType /\ CouldSend(sender)
        /\ sender.remote.port = 0 <=> sender.remote.ip.host = "any"
    BY <2>1, SocketRows DEF QueryOK
  <2>6. /\ fit(sender, peer, server) \in 0 .. 3
        /\ sender \in best => fit(sender, peer, server) = best_fit
    BY <2>1, <2>5, FitOrder DEF RowsOK
  <2>7. fit(row, peer, server) >= fit(sender, peer, server)
    BY <2>1, <2>3, <2>6 DEF Found
  <2>8. AsClose(row, sender)
    BY <2>1, <2>3, <2>5, <2>7, FitOrder DEF Known
  <2> QED
    BY <2>2, <2>3, <2>4, <2>8
<1>2. IInv => SenderIdentified
  BY <1>1 DEF SenderIdentified, SenderOpen
<1> QED
  BY <1>2, IdentifyInvariant, PTL

\* The process that is named has the sender's socket, or one tied more
\* closely to the query's addresses.
THEOREM SenderProcessTheorem == Spec => []SenderProcess
<1>1. ASSUME IInv, pc = "done", SenderOpen, caller.pid # None,
             <<caller.pid, sender>> \notin seen
      PROVE  \E h \in seen : CouldSend(h[2]) /\ ~AsClose(sender, h[2])
  <2>1. RowsOK /\ QueryOK /\ Found /\ best_fit \in 0 .. 3
    BY <1>1 DEF IInv, Decided, SenderOK, RowsOK
  <2>2. PICK row \in best : best = {row} /\ <<caller.pid, row>> \in seen
    BY <1>1, ProcessHadRow
  <2>3. Known(row) /\ CouldSend(row) /\ fit(row, peer, server) = best_fit
    BY <2>1 DEF RowsOK
  <2>4. /\ sender \in RowType /\ CouldSend(sender)
        /\ sender.remote.port = 0 <=> sender.remote.ip.host = "any"
    BY <2>1, SocketRows DEF QueryOK
  <2>5. best_fit > fit(sender, peer, server)
    BY <1>1, <2>1, <2>2 DEF Found
  <2>6. fit(sender, peer, server) \in 0 .. 3
    BY <2>1, <2>4, FitOrder
  <2>7. ~AsClose(sender, row)
    BY <2>1, <2>3, <2>4, <2>5, <2>6, FitOrder DEF Known
  <2> QED
    BY <2>2, <2>3, <2>7
<1>2. IInv => SenderProcess
  BY <1>1 DEF SenderProcess, SenderOpen
<1> QED
  BY <1>2, IdentifyInvariant, PTL

-----------------------------------------------------------------------------
(* Types.                                                                  *)

SystemTypes ==
  /\ alive \in SUBSET Processes
  /\ holds \in SUBSET (alive \X Sockets)
  /\ orphans \in SUBSET Rows
  /\ seen \in SUBSET (Processes \X Sockets)

QueryTypes ==
  /\ sender \in Sockets \cup {None}
  /\ peer \in Addresses \cup {None} /\ server \in Addresses \cup {None}
  /\ pc \in {"idle", "v4", "v6", "scan", "find", "status", "done"}
  /\ todo \in IF pc = "find" THEN SUBSET Processes ELSE SUBSET Rows
  /\ best \in SUBSET Rows
  /\ best_fit \in 0 .. 3
  /\ caller \in Callers

\* What is closed leaves rows behind.
LEMMA ReleaseTypes ==
  ASSUME SystemTypes, NEW gone, Release(gone)
  PROVE  holds' = holds \ gone /\ orphans' \in SUBSET Rows
<1>1. ASSUME NEW o \in orphans' PROVE o \in Rows
  <2>1. CASE o \in orphans
    BY <2>1 DEF SystemTypes
  <2>2. CASE \E t \in Open : o = [t EXCEPT !.uid = 0, !.inode = 0]
    <3>1. PICK t \in Open : o = [t EXCEPT !.uid = 0, !.inode = 0]
      BY <2>2
    <3>2. t \in Sockets
      BY DEF SystemTypes, Open
    <3> QED
      BY <3>1, <3>2 DEF Rows
  <2> QED
    BY <1>1, <2>1, <2>2 DEF Release
<1> QED
  BY <1>1 DEF Release

\* The system's own steps.
LEMMA SystemTypeStep ==
  ASSUME SystemTypes, QueryTypes, System
  PROVE  SystemTypes' /\ QueryTypes'
<1> USE DEF Identifying, query, system
<1>1. ASSUME NEW p \in Processes, NEW s \in Sockets, p \in alive, Hold(p, s),
             UNCHANGED <<alive, orphans, Identifying>>
      PROVE  SystemTypes' /\ QueryTypes'
  BY <1>1 DEF Hold, SystemTypes, QueryTypes
<1>2. ASSUME NEW p \in Processes, NEW s \in Sockets, CloseSocket(p, s)
      PROVE  SystemTypes' /\ QueryTypes'
  BY <1>2, ReleaseTypes DEF CloseSocket, SystemTypes, QueryTypes
<1>3. ASSUME NEW p \in Processes, NEW s \in Sockets, Send(p, s)
      PROVE  SystemTypes' /\ QueryTypes'
  <2>1. /\ s.local \in Addresses /\ s.remote \in Addresses
        /\ Listener \in Addresses
    BY SocketsAssumption, SettingsAssumption
  <2>2. peer' \in Addresses
    <3>1. PICK h \in IF is_unspecified(s.local.ip) THEN Hosts ELSE {s.local.ip.host} :
            peer' = [ip |-> [host |-> h, v6 |-> Listener.ip.v6], port |-> s.local.port]
      BY <1>3 DEF Send
    <3>2. h \in Hosts \cup {"any"} /\ Listener.ip.v6 \in BOOLEAN /\ s.local.port \in Nat
      BY <2>1, <3>1 DEF Addresses
    <3> QED
      BY <3>1, <3>2 DEF Addresses
  <2>3. server' \in Addresses
    <3>1. s.remote.ip.host \in Hosts \cup {"any"}
      BY <2>1 DEF Addresses
    <3>2. [Listener EXCEPT !.ip.host = s.remote.ip.host] \in Addresses
      BY <2>1, <3>1 DEF Addresses
    <3> QED
      BY <1>3, <2>1, <3>2 DEF Send
  <2> QED
    BY <1>3, <2>2, <2>3 DEF Send, SystemTypes, QueryTypes
<1>4. ASSUME NEW p \in Processes, Exit(p)
      PROVE  SystemTypes' /\ QueryTypes'
  <2>1. /\ alive' = alive \ {p} /\ Release({h \in holds : h[1] = p})
        /\ UNCHANGED <<seen, Identifying>>
    BY <1>4 DEF Exit
  <2>2. holds' = holds \ {h \in holds : h[1] = p} /\ orphans' \in SUBSET Rows
    BY <2>1, ReleaseTypes
  <2> QED
    BY <2>1, <2>2 DEF SystemTypes, QueryTypes
<1>5. ASSUME NEW p \in Processes, Fork(p)
      PROVE  SystemTypes' /\ QueryTypes'
  BY <1>5 DEF Fork, SystemTypes, QueryTypes
<1>6. ASSUME NEW row \in orphans, Expire(row)
      PROVE  SystemTypes' /\ QueryTypes'
  BY <1>6 DEF Expire, SystemTypes, QueryTypes
<1> QED
  BY <1>1, <1>2, <1>3, <1>4, <1>5, <1>6 DEF System, OpenSocket, HandOn

\* The steps of identify.
LEMMA DaemonTypeStep ==
  ASSUME SystemTypes, QueryTypes, Daemon
  PROVE  SystemTypes' /\ QueryTypes'
<1> USE DEF query, system
<1>1. UNCHANGED <<alive, holds, orphans>> /\ (seen' = seen \/ seen' = {})
  BY DEF Daemon, ReadV4, ReadV6, Match, NoProcess, ReadStatus, Return, ScanRow, ScanProcess
<1>2. SystemTypes'
  BY <1>1 DEF SystemTypes
<1>3. \A transport, v6 : Table(transport, v6) \in SUBSET Rows
  <2>1. Open \subseteq Sockets /\ orphans \subseteq Rows
    BY DEF Open, SystemTypes
  <2>2. Sockets \subseteq Rows
    BY DEF Rows
  <2> QED
    BY <2>1, <2>2 DEF Table
<1>4. CASE ReadV4 \/ ReadV6
  BY <1>2, <1>3, <1>4 DEF ReadV4, ReadV6, QueryTypes
<1>5. ASSUME NEW row \in todo, ScanRow(row) PROVE QueryTypes'
  <2>1. row \in Rows /\ pc' = "scan" /\ pc = "scan" /\ todo' \in SUBSET Rows
    BY <1>5 DEF ScanRow, QueryTypes
  <2>2. fit(row, peer, server) \in 0 .. 3
    BY DEF fit
  <2>3. best' \in SUBSET Rows /\ best_fit' \in 0 .. 3
    <3> DEFINE f == fit(row, peer, server)
    <3>1. \/ best' = {row} /\ best_fit' = f
          \/ (best' = best \/ best' = best \cup {row}) /\ best_fit' = best_fit
      BY <1>5 DEF ScanRow, Better
    <3>2. f \in 0 .. 3
      BY <2>2
    <3> HIDE DEF f
    <3> QED
      BY <2>1, <3>1, <3>2 DEF QueryTypes
  <2> QED
    BY <1>5, <2>1, <2>3 DEF ScanRow, QueryTypes
<1>6. CASE Match
  <2>1. \A row \in Rows : row.uid \in Nat
    <3>1. \A s \in Sockets : s \in RowType
      BY SocketRows
    <3>2. ASSUME NEW row \in Rows PROVE row.uid \in Nat
      <4>1. CASE row \in Sockets
        BY <3>1, <4>1 DEF RowType
      <4>2. CASE \E s \in Sockets : row = [s EXCEPT !.uid = 0, !.inode = 0]
        BY <3>1, <4>2 DEF RowType
      <4> QED
        BY <4>1, <4>2 DEF Rows
    <3> QED
      BY <3>2
  <2>2. caller' \in Callers
    <3>1. CASE \E row \in best : \A other \in best : other.uid = row.uid
      <4>1. (CHOOSE row \in best : TRUE) \in best
        BY <3>1
      <4>2. (CHOOSE row \in best : TRUE).uid \in Nat
        BY <2>1, <4>1 DEF QueryTypes
      <4>3. caller' = [unknown EXCEPT !.uid = (CHOOSE row \in best : TRUE).uid]
        BY <1>6, <3>1 DEF Match
      <4> QED
        BY <4>2, <4>3 DEF unknown, Callers
    <3>2. CASE ~\E row \in best : \A other \in best : other.uid = row.uid
      BY <1>6, <3>2 DEF Match, unknown, Callers
    <3> QED
      BY <3>1, <3>2
  <2>3. \/ pc' = "find" /\ todo' \in SUBSET Processes
        \/ pc' = "done" /\ todo' = {}
    BY <1>6, ProcessesAssumption DEF Match
  <2> QED
    BY <1>2, <1>6, <2>2, <2>3 DEF Match, QueryTypes
<1>7. ASSUME NEW p \in todo, ScanProcess(p) PROVE QueryTypes'
  <2>1. p \in Processes /\ todo \in SUBSET Processes
    BY <1>7 DEF ScanProcess, QueryTypes
  <2>2. \/ /\ caller' = [caller EXCEPT !.pid = p] /\ todo' = {} /\ pc' = "status"
        \/ caller' = caller /\ todo' = todo \ {p} /\ pc' = "find"
    BY <1>7 DEF ScanProcess
  <2>3. caller' \in Callers
    BY <2>1, <2>2 DEF QueryTypes, Callers
  <2> QED
    BY <1>7, <2>1, <2>2, <2>3 DEF ScanProcess, QueryTypes
<1>8. CASE NoProcess \/ Return
  BY <1>2, <1>8 DEF NoProcess, Return, QueryTypes, unknown, Callers
<1>9. CASE ReadStatus
  <2>1. (IF caller.pid \in alive THEN Egid[caller.pid] ELSE None) \in Nat \cup {None}
    BY ProcessesAssumption DEF SystemTypes
  <2>2. caller' = [caller EXCEPT !.gid = IF caller.pid \in alive THEN Egid[caller.pid] ELSE None]
    BY <1>9 DEF ReadStatus
  <2>3. caller' \in Callers
    BY <2>1, <2>2 DEF QueryTypes, Callers
  <2> QED
    BY <1>2, <1>9, <2>3 DEF ReadStatus, QueryTypes
<1> QED
  BY <1>2, <1>4, <1>5, <1>6, <1>7, <1>8, <1>9 DEF Daemon

\* Types of identify and of the system it looks at.
THEOREM TypeCorrect == Spec => []TypeOK
<1>1. Init => SystemTypes /\ QueryTypes
  BY DEF Init, SystemTypes, QueryTypes, unknown, Callers
<1>2. SystemTypes /\ QueryTypes /\ [Next]_vars => SystemTypes' /\ QueryTypes'
  <2>1. CASE UNCHANGED vars
    BY <2>1 DEF vars, SystemTypes, QueryTypes
  <2> QED
    BY <2>1, SystemTypeStep, DaemonTypeStep DEF Next
<1>3. SystemTypes /\ QueryTypes => TypeOK
  BY DEF SystemTypes, QueryTypes, TypeOK
<1> QED
  BY <1>1, <1>2, <1>3, PTL DEF Spec
=============================================================================
