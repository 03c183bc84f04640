----------------------------- MODULE MCIdentify -----------------------------
(* Identify for TLC: sockets of two users on one port, of both families.    *)
EXTENDS Identify

Addr(h, v6, port) == [ip |-> [host |-> h, v6 |-> v6], port |-> port]
Unset(v6) == Addr("any", v6, 0)
Udp(local, remote, uid, inode) ==
  [local |-> local, remote |-> remote, uid |-> uid, inode |-> inode, transport |-> "Udp"]
Tcp(local, remote, uid, inode) == [Udp(local, remote, uid, inode) EXCEPT !.transport = "Tcp"]

On4 == Addr("lo", FALSE, 53)

\* A connected UDP socket, unbound ones of both families that fit alike, and
\* a TCP connection; the connected one cannot have sent a query from another
\* address.
MCSockets ==
  {Udp(Addr("lo", FALSE, 5), On4, 1, 11),
   Udp(Addr("any", TRUE, 5), Unset(TRUE), 2, 12),
   Udp(Addr("any", FALSE, 5), Unset(FALSE), 1, 13),
   Tcp(Addr("lo", FALSE, 5), On4, 2, 21)}

\* A plain client.
OneSocket == {Udp(Addr("any", FALSE, 5), Unset(FALSE), 1, 11)}

MCEgid == [p \in {1, 2} |-> 10 * p]
=============================================================================
