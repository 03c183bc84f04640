------------------------------ MODULE Identify ------------------------------
(***************************************************************************)
(* Who sent a DNS query (src/identify.rs)?  The daemon knows the address   *)
(* the query came from and looks for the socket behind it in the kernel's  *)
(* tables, then for a process that holds that socket, then for the gid of  *)
(* that process.  Each of these is a look of its own at a system that      *)
(* moves on meanwhile: sockets are opened, closed and handed on, processes *)
(* exit.                                                                   *)
(*                                                                         *)
(* An address is [ip, port]; ip.v6 tells the IPv6 form, IPv4-mapped for a  *)
(* host, from the IPv4 one.                                                *)
(***************************************************************************)
EXTENDS Integers

CONSTANTS
  None,
  Hosts,       \* addresses of this machine, "any" not among them
  Sockets,     \* [local, remote, uid, inode, transport], by inode
  Processes,   \* pids
  Egid,        \* the gid of each
  Self,        \* the daemon's pid
  CanInspect,  \* can_inspect_other_processes, probed once
  ByProcess,   \* identify_processes
  Listener     \* the address the daemon listens on

VARIABLES
  alive,    \* the running processes
  holds,    \* <<pid, socket>>: the open file descriptors
  orphans,  \* rows of closed TCP connections the kernel still lists
  sender,   \* the socket the query left from
  peer,     \* the address it came from
  server,   \* the daemon's address in it, as the daemon's socket has it
  seen,     \* <<pid, socket>> held at some time since the query was sent
  pc,       \* how far identify is
  todo,     \* rows, then processes, it has yet to look at
  best,     \* the best rows so far
  best_fit, \* and how well they fit
  caller    \* what it has found out

vars == <<alive, holds, orphans, sender, peer, server, seen, pc, todo, best, best_fit, caller>>

system == <<alive, holds, orphans>>
query == <<sender, peer, server>>

Transports == {"Udp", "Tcp"}
Addresses == [ip : [host : Hosts \cup {"any"}, v6 : BOOLEAN], port : Nat]
unknown == [uid |-> None, gid |-> None, pid |-> None]
Callers == [uid : Nat \cup {None}, gid : Nat \cup {None}, pid : Processes \cup {None}]

ASSUME ProcessesAssumption ==
  /\ Processes \subseteq Nat
  /\ Self \in Processes
  /\ Egid \in [Processes -> Nat]

ASSUME SettingsAssumption ==
  /\ CanInspect \in BOOLEAN
  /\ ByProcess \in BOOLEAN
  /\ Listener \in Addresses /\ Listener.port # 0
  /\ "any" \notin Hosts
  /\ None \notin Nat

-----------------------------------------------------------------------------
(* Rows and how they fit.                                                  *)

is_unspecified(ip) == ip.host = "any"

to_canonical(ip) == IF is_unspecified(ip) THEN ip ELSE [ip EXCEPT !.v6 = FALSE]

same_host(a, b) == to_canonical(a) = to_canonical(b)

local_exact(row, from) == same_host(row.local.ip, from.ip)

unconnected(row) == row.remote.port = 0 /\ is_unspecified(row.remote.ip)

remote_exact(row, to) ==
  /\ row.remote.port = to.port
  /\ is_unspecified(to.ip) \/ same_host(row.remote.ip, to.ip)

\* Mutant: the port alone decides which rows may be the sender.
MaySend_port_only(row, from, to) == row.local.port = from.port

\* The row may be the sender of a packet between these addresses.
MaySend(row, from, to) ==
  /\ row.local.port = from.port
  /\ local_exact(row, from) \/ is_unspecified(row.local.ip)
  /\ unconnected(row) \/ remote_exact(row, to)

\* Mutant: weights that do not fit into two bits.
fit_wide(row, from, to) ==
  (IF remote_exact(row, to) THEN 4 ELSE 0) + (IF local_exact(row, from) THEN 2 ELSE 0)

\* How well it fits: connected to us counts for more than bound to the
\* peer's address.
fit(row, from, to) ==
  (IF remote_exact(row, to) THEN 2 ELSE 0) + (IF local_exact(row, from) THEN 1 ELSE 0)

\* What sockets there are; a connection has both its addresses.
ASSUME SocketsAssumption ==
  /\ Sockets \subseteq [local : Addresses, remote : Addresses, uid : Nat,
                        inode : Nat \ {0}, transport : Transports]
  /\ \A s \in Sockets : /\ s.remote.port = 0 <=> is_unspecified(s.remote.ip)
                        /\ s.transport = "Tcp" /\ ~unconnected(s) => ~is_unspecified(s.local.ip)
  /\ \A s, t \in Sockets : s.inode = t.inode => s = t

\* The two tables of a transport.
Open == {h[2] : h \in holds}
Table(transport, v6) ==
  {row \in Open \cup orphans : row.transport = transport /\ row.local.ip.v6 = v6}

-----------------------------------------------------------------------------

Init ==
  /\ alive = Processes
  /\ holds = {} /\ orphans = {} /\ seen = {}
  /\ sender = None /\ peer = None /\ server = None
  /\ pc = "idle"
  /\ todo = {} /\ best = {} /\ best_fit = 0
  /\ caller = unknown

(***************************************************************************)
(* The system.                                                             *)
(***************************************************************************)

Identifying == <<query, pc, todo, best, best_fit, caller>>

Hold(p, s) ==
  /\ holds' = holds \cup {<<p, s>>}
  /\ seen' = IF pc = "idle" THEN seen ELSE seen \cup {<<p, s>>}

\* Two connections of one protocol differ in an address.
SameConnection(s, t) ==
  /\ s.transport = t.transport /\ s.local.port = t.local.port /\ s.remote.port = t.remote.port
  /\ same_host(s.local.ip, t.local.ip) /\ same_host(s.remote.ip, t.remote.ip)

\* A process opens a socket; its inode is not one in use lately.  UDP
\* sockets may share an address (SO_REUSEADDR), TCP connections may not.
OpenSocket(p, s) ==
  /\ p \in alive
  /\ \A h \in holds \cup seen : h[2] # s
  /\ s.transport = "Tcp" => \A row \in Open \cup orphans : ~SameConnection(s, row)
  /\ Hold(p, s)
  /\ UNCHANGED <<alive, orphans, Identifying>>

\* fork or SCM_RIGHTS: another process holds it too.
HandOn(p, q, s) ==
  /\ <<p, s>> \in holds
  /\ q \in alive
  /\ Hold(q, s)
  /\ UNCHANGED <<alive, orphans, Identifying>>

\* File descriptors are closed.  The kernel lists a closed TCP connection
\* for a while longer, without its owner: uid 0, inode 0.
Release(gone) ==
  /\ holds' = holds \ gone
  /\ orphans' = orphans \cup
       {[s EXCEPT !.uid = 0, !.inode = 0] :
          s \in {t \in Open : /\ t.transport = "Tcp" /\ ~unconnected(t)
                              /\ \A h \in holds \ gone : h[2] # t}}

CloseSocket(p, s) ==
  /\ <<p, s>> \in holds
  /\ Release({<<p, s>>})
  /\ UNCHANGED <<alive, seen, Identifying>>

Exit(p) ==
  /\ p \in alive \ {Self}
  /\ alive' = alive \ {p}
  /\ Release({h \in holds : h[1] = p})
  /\ UNCHANGED <<seen, Identifying>>

\* A process starts, with a pid that was not in use lately.
Fork(p) ==
  /\ p \in Processes \ alive
  /\ \A h \in seen : h[1] # p
  /\ alive' = alive \cup {p}
  /\ UNCHANGED <<holds, orphans, seen, Identifying>>

Expire(row) ==
  /\ row \in orphans
  /\ orphans' = orphans \ {row}
  /\ UNCHANGED <<alive, holds, seen, Identifying>>

\* A query leaves a UDP socket that is not connected elsewhere, or comes in
\* over a TCP connection; an unbound socket gets the address of some
\* interface.
Send(p, s) ==
  /\ pc = "idle"
  /\ <<p, s>> \in holds
  /\ remote_exact(s, Listener) \/ (s.transport = "Udp" /\ unconnected(s))
  /\ \E h \in IF is_unspecified(s.local.ip) THEN Hosts ELSE {s.local.ip.host} :
       peer' = [ip |-> [host |-> h, v6 |-> Listener.ip.v6], port |-> s.local.port]
  /\ server' = IF s.transport = "Udp" THEN Listener
               ELSE [Listener EXCEPT !.ip.host = s.remote.ip.host]
  /\ sender' = s
  /\ seen' = holds
  /\ pc' = "v4"
  /\ UNCHANGED <<system, todo, best, best_fit, caller>>

(***************************************************************************)
(* identify.                                                               *)
(***************************************************************************)

\* socket_tables: the IPv4 table, then the IPv6 table.
ReadV4 ==
  /\ pc = "v4"
  /\ todo' = Table(sender.transport, FALSE)
  /\ pc' = "v6"
  /\ UNCHANGED <<system, query, seen, best, best_fit, caller>>

ReadV6 ==
  /\ pc = "v6"
  /\ todo' = todo \cup Table(sender.transport, TRUE)
  /\ pc' = "scan"
  /\ UNCHANGED <<system, query, seen, best, best_fit, caller>>

\* Mutant: a better row joins the worse ones.
Better_joins(row) ==
  /\ best' = IF fit(row, peer, server) >= best_fit THEN best \cup {row} ELSE best
  /\ best_fit' = IF fit(row, peer, server) >= best_fit THEN fit(row, peer, server) ELSE best_fit

\* A row that fits replaces worse ones and joins equal ones.
Better(row) ==
  IF best = {} \/ fit(row, peer, server) > best_fit
  THEN best' = {row} /\ best_fit' = fit(row, peer, server)
  ELSE /\ best' = IF fit(row, peer, server) = best_fit THEN best \cup {row} ELSE best
       /\ best_fit' = best_fit

\* find_socket, one row, in whatever order the tables list them.
ScanRow(row) ==
  /\ pc = "scan"
  /\ row \in todo
  /\ todo' = todo \ {row}
  /\ IF MaySend(row, peer, server) THEN Better(row) ELSE UNCHANGED <<best, best_fit>>
  /\ UNCHANGED <<system, query, seen, pc, caller>>

UniqueRow == \E row \in best : best = {row}

\* The rows left name one user, or nobody.  /proc is listed as the scan goes
\* on: a process that starts meanwhile may come up too.
Match ==
  /\ pc = "scan"
  /\ todo = {}
  /\ caller' = IF \E row \in best : \A other \in best : other.uid = row.uid
               THEN [unknown EXCEPT !.uid = (CHOOSE row \in best : TRUE).uid]
               ELSE unknown
  /\ IF UniqueRow /\ ByProcess
     THEN pc' = "find" /\ todo' = IF CanInspect THEN Processes ELSE {Self}
     ELSE pc' = "done" /\ todo' = {}
  /\ UNCHANGED <<system, query, seen, best, best_fit>>

\* Mutant: any socket of the owner of the row will do.
HasSocket_of_user(p, row) == \E h \in holds : h[1] = p /\ h[2].uid = row.uid

HasSocket(p, row) == \E h \in holds : h[1] = p /\ h[2].inode = row.inode

\* process_with_socket: the first process with the inode among its files.
ScanProcess(p) ==
  /\ pc = "find"
  /\ p \in todo
  /\ IF HasSocket(p, CHOOSE row \in best : TRUE)
     THEN /\ caller' = [caller EXCEPT !.pid = p]
          /\ todo' = {}
          /\ pc' = "status"
     ELSE /\ todo' = todo \ {p}
          /\ UNCHANGED <<caller, pc>>
  /\ UNCHANGED <<system, query, seen, best, best_fit>>

\* Nobody has it (any longer), or nobody whose files may be read.
NoProcess ==
  /\ pc = "find"
  /\ todo = {}
  /\ pc' = "done"
  /\ UNCHANGED <<system, query, seen, todo, best, best_fit, caller>>

\* The status of a process that is gone cannot be read.
ReadStatus ==
  /\ pc = "status"
  /\ caller' = [caller EXCEPT !.gid = IF caller.pid \in alive THEN Egid[caller.pid] ELSE None]
  /\ pc' = "done"
  /\ UNCHANGED <<system, query, seen, todo, best, best_fit>>

\* The caller is known; on to the next query.
Return ==
  /\ pc = "done"
  /\ pc' = "idle"
  /\ sender' = None /\ peer' = None /\ server' = None
  /\ seen' = {} /\ best' = {} /\ best_fit' = 0
  /\ caller' = unknown
  /\ UNCHANGED <<system, todo>>

System ==
  \/ \E p \in Processes, s \in Sockets :
       OpenSocket(p, s) \/ CloseSocket(p, s) \/ Send(p, s)
  \/ \E p, q \in Processes, s \in Sockets : HandOn(p, q, s)
  \/ \E p \in Processes : Exit(p) \/ Fork(p)
  \/ \E row \in orphans : Expire(row)

Daemon ==
  \/ ReadV4 \/ ReadV6 \/ Match \/ NoProcess \/ ReadStatus \/ Return
  \/ \E row \in todo : ScanRow(row)
  \/ \E p \in todo : ScanProcess(p)

Next == System \/ Daemon

Spec == Init /\ [][Next]_vars

-----------------------------------------------------------------------------
(* Properties.                                                             *)

Rows == Sockets \cup {[s EXCEPT !.uid = 0, !.inode = 0] : s \in Sockets}

\* Types of a look-up in progress.
TypeOK ==
  /\ alive \in SUBSET Processes
  /\ holds \in SUBSET (alive \X Sockets)
  /\ orphans \in SUBSET Rows
  /\ sender \in Sockets \cup {None}
  /\ peer \in Addresses \cup {None} /\ server \in Addresses \cup {None}
  /\ seen \in SUBSET (Processes \X Sockets)
  /\ pc \in {"idle", "v4", "v6", "scan", "find", "status", "done"}
  /\ todo \in IF pc = "find" THEN SUBSET Processes ELSE SUBSET Rows
  /\ best \in SUBSET Rows
  /\ best_fit \in 0 .. 3
  /\ caller \in Callers

\* The kernel may have sent the query from this socket.
CouldSend(s) ==
  /\ s.transport = sender.transport
  /\ s.local.port = peer.port
  /\ s.local.ip.host \in {"any", peer.ip.host}
  /\ \/ s.remote.port = 0
     \/ s.remote.port = server.port /\ server.ip.host \in {"any", s.remote.ip.host}

Connected(s) == s.remote.port # 0
Bound(s) == s.local.ip.host # "any"

\* s is tied to the daemon and to the address of the peer as closely as t.
AsClose(s, t) ==
  \/ Connected(s) /\ ~Connected(t)
  \/ (Connected(s) <=> Connected(t)) /\ (Bound(t) => Bound(s))

\* Whoever is identified held, while the query was under way, a socket it
\* could have come out of; a process that is named held one of the user
\* that is named.  One exception is left: the kernel lists a closed TCP
\* connection as root's, so root also stands for a sender that has closed its
\* connection meanwhile.  A connection that is still open is never taken for
\* root's, whatever else was closed around it.
NoStranger ==
  pc = "done" =>
    /\ caller.uid # None =>
         \/ \E h \in seen : h[2].uid = caller.uid /\ CouldSend(h[2])
         \/ /\ caller.uid = 0 /\ sender.transport = "Tcp"
            /\ \A h \in holds : h[2] # sender
    /\ caller.pid # None =>
         \E h \in seen : h[1] = caller.pid /\ h[2].uid = caller.uid /\ CouldSend(h[2])
    /\ caller.gid # None => caller.gid = Egid[caller.pid]

\* A sender that keeps its socket open until it is answered is identified as
\* the user it is, unless another user has a socket tied as closely to the
\* same addresses; neither the order of the tables, nor that they are read
\* one after the other, nor the sockets of others around it change that.
SenderIdentified ==
  (pc = "done" /\ \E h \in holds : h[2] = sender) =>
    \/ caller.uid = sender.uid
    \/ \E h \in seen :
         h[2].uid # sender.uid /\ CouldSend(h[2]) /\ AsClose(h[2], sender)

\* The process that is named is one that has the sender's socket, if that
\* stays open and no other is tied more closely to the same addresses: never
\* just another process of the same user.
SenderProcess ==
  (pc = "done" /\ caller.pid # None /\ \E h \in holds : h[2] = sender) =>
    \/ <<caller.pid, sender>> \in seen
    \/ \E h \in seen : CouldSend(h[2]) /\ ~AsClose(sender, h[2])

\* "uid is -1 only when no local socket matches the query, which does not
\* happen for queries from this machine" (README.md, line 235).
UidKnown == pc = "done" => caller.uid # None
=============================================================================
