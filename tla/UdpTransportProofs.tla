-------------------------- MODULE UdpTransportProofs --------------------------
(***************************************************************************)
(* Proofs about module UdpTransport, for any set of socket numbers.        *)
(***************************************************************************)
EXTENDS UdpTransport, TLAPS

(* The inductive invariant: which calls can be under way in which status,  *)
(* and what sock_fd then is.                                               *)
OpeningIsNotOpen == pc \in {"socket", "bind", "unwind"} => status # "open"
InUseIsNumber == pc \in {"recv", "listen", "close", "forget"} => sock_fd # NoFd
ClosedHasNoNumber ==
  status = "closed" /\ pc \notin {"bind", "unwind"} => sock_fd = NoFd
HasSocketNumber == HasSocket => sock_fd \in Fds
TransportHolds ==
  \A f \in Fds : owner[f] = "transport" <=> HasSocket /\ f = sock_fd

IInv ==
  /\ TypeOK
  /\ OpeningIsNotOpen
  /\ InUseIsNumber
  /\ ClosedHasNoNumber
  /\ HasSocketNumber
  /\ TransportHolds

(* sock_fd starts at -1 (udp_transport.cpp:10). *)
LEMMA InitInv == Init => IInv
  BY DEF Init, IInv, TypeOK, OpeningIsNotOpen, InUseIsNumber,
         ClosedHasNoNumber, HasSocketNumber, TransportHolds, HasSocket

(* Every call of the transport (udp_transport.cpp:13-76), and whatever the *)
(* other tasks do with their sockets, keeps the invariant.                 *)
LEMMA StepInv == IInv /\ [Next]_vars => IInv'
  <1> SUFFICES ASSUME IInv, [Next]_vars PROVE IInv'
    OBVIOUS
  <1> USE NoFdAssumption
      DEF IInv, TypeOK, OpeningIsNotOpen, InUseIsNumber, ClosedHasNoNumber,
          HasSocketNumber, TransportHolds, HasSocket, Goto, Free
  <1>1. CASE Open
    BY <1>1 DEF Open
  <1>2. CASE OpenNoSocket
    BY <1>2 DEF OpenNoSocket
  <1>3. CASE OpenSocket
    BY <1>3 DEF OpenSocket
  <1>4. CASE OpenBind
    BY <1>4 DEF OpenBind
  <1>5. CASE OpenBindFails
    BY <1>5 DEF OpenBindFails
  <1>6. CASE OpenUnwind
    BY <1>6 DEF OpenUnwind
  <1>7. CASE Close
    BY <1>7 DEF Close
  <1>8. CASE CloseSocket
    BY <1>8 DEF CloseSocket
  <1>9. CASE CloseForget
    BY <1>9 DEF CloseForget
  <1>10. ASSUME NEW positive \in BOOLEAN, Read(positive) PROVE IInv'
    <2>1. timed' \in BOOLEAN
      BY <1>10, Zenon DEF Read
    <2>2. QED
      BY <1>10, <2>1 DEF Read
  <1>11. CASE ReadReceives \/ ReadTimesOut
    BY <1>11 DEF ReadReceives, ReadTimesOut
  <1>12. ASSUME NEW f \in Fds, OtherOpens(f) PROVE IInv'
    <2>1. bound' \subseteq Fds
      BY <1>12 DEF OtherOpens
    <2>2. QED
      BY <1>12, <2>1 DEF OtherOpens
  <1>13. ASSUME NEW f \in Fds, OtherCloses(f) PROVE IInv'
    BY <1>13 DEF OtherCloses
  <1>14. CASE UNCHANGED vars
    BY <1>14 DEF vars
  <1>15. QED
    BY <1>1, <1>2, <1>3, <1>4, <1>5, <1>6, <1>7, <1>8, <1>9, <1>10, <1>11,
       <1>12, <1>13, <1>14
    DEF Next, Transport

LEMMA Inductive == Spec => []IInv
  BY InitInv, StepInv, PTL DEF Spec

(* sock_fd and the table of sockets keep their types through every call    *)
(* (udp_transport.cpp:10-76).                                              *)
THEOREM TypeCorrect == Spec => []TypeOK
  BY Inductive, PTL DEF IInv

-----------------------------------------------------------------------------
(* Open and close give back every socket they take (udp_transport.cpp:13-  *)
(* 47), for any number of sockets and any behaviour of the other tasks.    *)
THEOREM NothingLeaks == Spec => []SocketsAccounted
<1>1. IInv => SocketsAccounted
  <2> SUFFICES ASSUME IInv PROVE SocketsAccounted
    OBVIOUS
  <2>1. CASE HasSocket
    BY <2>1 DEF IInv, TransportHolds, HasSocketNumber, SocketsAccounted
  <2>2. CASE ~HasSocket
    BY <2>2 DEF IInv, TransportHolds, SocketsAccounted
  <2>3. QED
    BY <2>1, <2>2
<1>2. QED
  BY <1>1, Inductive, PTL

(* Read and close only touch a socket of the transport, unless the last    *)
(* open failed in bind (udp_transport.cpp:33-36, 41-76).                   *)
THEOREM OnlyOwnSockets == Spec => []UsesOwnSocket
<1>1. IInv => UsesOwnSocket
  BY DEF IInv, TypeOK, InUseIsNumber, ClosedHasNoNumber, HasSocketNumber,
         TransportHolds, HasSocket, UsesOwnSocket
<1>2. QED
  BY <1>1, Inductive, PTL

(* The transport takes no socket from another task but by closing the      *)
(* stale number of an open that failed in bind (udp_transport.cpp:34, 43). *)
THEOREM OthersAreSafe == Spec => OthersKeepTheirs
<1>1. ASSUME IInv, [Next]_vars, NEW f \in Fds, owner[f] = "other"
      PROVE  owner'[f] = "other" \/ OtherCloses(f) \/ StaleClose
  <2> USE <1>1 DEF IInv, TypeOK, Goto, Free
  <2>1. CASE OpenSocket
    BY <2>1 DEF OpenSocket
  <2>2. CASE OpenUnwind
    <3>1. owner[sock_fd] = "transport"
      BY <2>2 DEF OpenUnwind, TransportHolds, HasSocketNumber, HasSocket
    <3>2. QED
      BY <2>2, <3>1 DEF OpenUnwind
  <2>3. CASE CloseSocket
    <3>1. CASE status = "unbound"
      BY <2>3, <3>1 DEF StaleClose
    <3>2. CASE status # "unbound"
      <4>1. owner[sock_fd] = "transport"
        BY <2>3, <3>2 DEF CloseSocket, TransportHolds, HasSocketNumber,
           HasSocket, InUseIsNumber, ClosedHasNoNumber
      <4>2. QED
        BY <2>3, <4>1 DEF CloseSocket
    <3>3. QED
      BY <3>1, <3>2
  <2>4. ASSUME NEW g \in Fds, OtherOpens(g) PROVE owner'[f] = "other"
    BY <2>4 DEF OtherOpens
  <2>5. ASSUME NEW g \in Fds, OtherCloses(g), g # f PROVE owner'[f] = "other"
    BY <2>5 DEF OtherCloses
  <2>6. ASSUME owner' = owner PROVE owner'[f] = "other"
    BY <2>6
  <2>7. QED
    BY <2>1, <2>2, <2>3, <2>4, <2>5, <2>6
    DEF Next, Transport, Open, OpenNoSocket, OpenBind, OpenBindFails, Close,
        CloseForget, Read, ReadReceives, ReadTimesOut, vars
<1>2. IInv /\ [Next]_vars =>
        [\A f \in Fds :
           owner[f] = "other" => owner'[f] = "other" \/ OtherCloses(f) \/ StaleClose]_vars
  BY <1>1
<1>3. QED
  BY <1>2, Inductive, PTL DEF Spec, OthersKeepTheirs
=============================================================================
