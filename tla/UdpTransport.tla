----------------------------- MODULE UdpTransport -----------------------------
(***************************************************************************)
(* The micro-ROS transport of source/udp_transport.cpp: the life of its    *)
(* static socket number, sock_fd, among the sockets of the other tasks.    *)
(* lwIP gives a freed number to whoever asks next, and binds one socket at *)
(* a time to ROS_UDP_PORT.  micro-ROS calls from one task; the others open *)
(* and close sockets between any two lwIP calls of the transport.          *)
(***************************************************************************)
EXTENDS Naturals

CONSTANTS
  Fds,   \* the socket numbers lwIP has
  NoFd   \* -1

ASSUME NoFdAssumption == NoFd \notin Fds

VARIABLES
  owner,     \* who has each socket: "free", "transport" or "other"
  bound,     \* the sockets bound to ROS_UDP_PORT: one or none
  sock_fd,   \* sock_fd
  pc,        \* the lwIP call the transport makes next, "idle" between calls
  timed,     \* the socket has a receive timeout that is not 0
  status     \* what the last open or close left: "closed", "open", "unbound"

vars == <<owner, bound, sock_fd, pc, timed, status>>

TypeOK ==
  /\ owner \in [Fds -> {"free", "transport", "other"}]
  /\ bound \subseteq Fds
  /\ sock_fd \in Fds \cup {NoFd}
  /\ pc \in {"idle", "socket", "bind", "unwind", "close", "forget",
             "recv", "listen"}
  /\ timed \in BOOLEAN
  /\ status \in {"closed", "open", "unbound"}

Init ==
  /\ owner = [f \in Fds |-> "free"]
  /\ bound = {}
  /\ sock_fd = NoFd
  /\ pc = "idle"
  /\ timed = FALSE
  /\ status = "closed"

Goto(from, to) == pc = from /\ pc' = to
Free(f) == owner' = [owner EXCEPT ![f] = "free"] /\ bound' = bound \ {f}

-----------------------------------------------------------------------------
(* udp_transport_open.  The library opens a transport that is not open:    *)
(* at the start, after a close, or again after an open that failed.        *)
Open ==
  /\ Goto("idle", "socket")
  /\ status # "open"
  /\ UNCHANGED <<owner, bound, sock_fd, timed, status>>

OpenNoSocket ==                                 \* socket() < 0: no number left
  /\ Goto("socket", "idle")
  /\ sock_fd' = NoFd
  /\ status' = "closed"
  /\ UNCHANGED <<owner, bound, timed>>

OpenSocket ==
  /\ Goto("socket", "bind")
  /\ \E f \in Fds :
       /\ owner[f] = "free"
       /\ owner' = [owner EXCEPT ![f] = "transport"]
       /\ sock_fd' = f
  /\ timed' = FALSE
  /\ UNCHANGED <<bound, status>>

OpenBind ==
  /\ Goto("bind", "idle")
  /\ bound = {}
  /\ bound' = {sock_fd}
  /\ status' = "open"
  /\ UNCHANGED <<owner, sock_fd, timed>>

OpenBindFails ==                                \* the port is taken, or no memory
  /\ Goto("bind", "unwind")
  /\ UNCHANGED <<owner, bound, sock_fd, timed, status>>

OpenUnwindNot ==
  /\ Goto("unwind", "idle")
  /\ status' = "unbound"
  /\ UNCHANGED <<owner, bound, sock_fd, timed>>

OpenUnwind ==                                   \* close(sock_fd), and no more
  /\ Goto("unwind", "idle")
  /\ Free(sock_fd)
  /\ status' = "unbound"
  /\ UNCHANGED <<sock_fd, timed>>

(* udp_transport_close *)
Close ==
  /\ Goto("idle", IF sock_fd # NoFd THEN "close" ELSE "idle")
  /\ UNCHANGED <<owner, bound, sock_fd, timed, status>>

CloseSocket ==
  /\ Goto("close", "forget")
  /\ Free(sock_fd)
  /\ UNCHANGED <<sock_fd, timed, status>>

CloseForgetNot ==
  /\ Goto("forget", "idle")
  /\ status' = "closed"
  /\ UNCHANGED <<owner, bound, sock_fd, timed>>

CloseForget ==
  /\ Goto("forget", "idle")
  /\ sock_fd' = NoFd
  /\ status' = "closed"
  /\ UNCHANGED <<owner, bound, timed>>

(* udp_transport_read sets the receive timeout of the socket, then waits   *)
(* for a datagram; lwIP takes a timeout of 0 for an endless one.           *)
(* udp_transport_write sends and changes nothing kept here.                *)
ReadUntimed(positive) ==
  /\ Goto("idle", IF positive THEN "recv" ELSE "listen")
  /\ sock_fd # NoFd
  /\ UNCHANGED <<owner, bound, sock_fd, timed, status>>

Read(positive) ==
  /\ Goto("idle", IF positive THEN "recv" ELSE "listen")
  /\ sock_fd # NoFd
  /\ timed' = positive
  /\ UNCHANGED <<owner, bound, sock_fd, status>>

ReadReceives ==                                 \* a datagram, or an error
  /\ pc \in {"recv", "listen"}
  /\ pc' = "idle"
  /\ UNCHANGED <<owner, bound, sock_fd, timed, status>>

ReadTimesOut ==
  /\ pc \in {"recv", "listen"}
  /\ pc' = "idle"
  /\ timed
  /\ UNCHANGED <<owner, bound, sock_fd, timed, status>>

Transport ==
  \/ OpenNoSocket \/ OpenSocket \/ OpenBind \/ OpenBindFails \/ OpenUnwind
  \/ CloseSocket \/ CloseForget
  \/ ReadTimesOut

-----------------------------------------------------------------------------
(* The sockets of the other tasks. *)
OtherOpens(f) ==
  /\ owner[f] = "free"
  /\ owner' = [owner EXCEPT ![f] = "other"]
  /\ bound' \in {bound} \cup (IF bound = {} THEN {{f}} ELSE {})
  /\ UNCHANGED <<sock_fd, pc, timed, status>>

OtherCloses(f) ==
  /\ owner[f] = "other"
  /\ Free(f)
  /\ UNCHANGED <<sock_fd, pc, timed, status>>

Next ==
  \/ Open \/ Close \/ Transport \/ ReadReceives
  \/ \E positive \in BOOLEAN : Read(positive)
  \/ \E f \in Fds : OtherOpens(f) \/ OtherCloses(f)

Spec == Init /\ [][Next]_vars

(* A call under way goes on and a receive timeout expires.  Nobody has to  *)
(* send us a datagram.                                                     *)
FairSpec == Spec /\ WF_vars(Transport)

-----------------------------------------------------------------------------
(* Between the socket() of an open and the close() that ends it, the       *)
(* transport has one socket, the one sock_fd names; otherwise it has none: *)
(* every path of open and close gives back what it took (udp_transport_    *)
(* open and udp_transport_close, udp_transport.cpp:13-47).                 *)
HasSocket ==
  pc \in {"bind", "unwind"} \/ (status = "open" /\ pc # "forget")
SocketsAccounted ==
  {f \in Fds : owner[f] = "transport"} = IF HasSocket THEN {sock_fd} ELSE {}

(* udp_transport_read and udp_transport_close (udp_transport.cpp:41-76)    *)
(* only use a socket of the transport, unless the last open failed in      *)
(* bind: then sock_fd keeps a number that was closed (udp_transport.cpp:   *)
(* 34) and may meanwhile be somebody else's.                               *)
UsesOwnSocket ==
  (pc \in {"recv", "listen", "close"} /\ status # "unbound") => owner[sock_fd] = "transport"

(* No step of the transport takes a socket from another task, except the   *)
(* close() of such a stale number (udp_transport.cpp:43).                  *)
StaleClose == CloseSocket /\ status = "unbound"
OthersKeepTheirs ==
  [][\A f \in Fds :
       owner[f] = "other" => owner'[f] = "other" \/ OtherCloses(f) \/ StaleClose]_vars

(* A read with a positive timeout returns, whatever timeout the socket had *)
(* before (udp_transport.cpp:64-69).                                       *)
ReadReturns == pc = "recv" ~> pc # "recv"
=============================================================================
