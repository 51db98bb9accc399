---------------------------- MODULE UdpMulticast ----------------------------
(***************************************************************************)
(* The multicast programs: servers (UDPMultiSvr_IPC.cpp) that have joined  *)
(* a group and clients (UDPMultiClient_IPC.cpp) that send to it.  Both     *)
(* loop for ever on one socket and keep one address variable, which every  *)
(* recvfrom overwrites and every sendto uses.  A datagram may be lost or   *)
(* overtaken; one to a closed port may come back to its sender's recvfrom  *)
(* as WSAECONNRESET.                                                       *)
(*                                                                         *)
(* Lengths come from strlen of the receive buffers: the server receives    *)
(* into 0 bytes, so that every message fails with WSAEMSGSIZE, and answers *)
(* with 0 bytes.  Contents are therefore left out.  Nothing but a client's *)
(* message arrives at a server, so that its recvfrom never returns zero.   *)
(***************************************************************************)
EXTENDS Naturals, FiniteSets

CONSTANTS Servers,
          Clients,    \* runs of the client, each with a port of its own
          Group,      \* 239.255.255.250
          AnyAddress \* INADDR_ANY, which the server's addr starts with

ASSUME NamesAssumption == Group \notin Servers /\ AnyAddress \notin Clients
ASSUME FiniteAssumption == IsFiniteSet(Servers) /\ IsFiniteSet(Clients)

VARIABLES
  srv,     \* each server: the call it makes next
  saddr,   \* its addr
  cl,      \* each client: the call it makes next
  caddr,   \* its addr
  toSrv,   \* messages under way, by server, client and how they were sent
  toCli,   \* answers under way, by client and server
  srvErr,  \* WSAECONNRESETs under way to each server
  cliErr   \* the same to each client

vars == <<srv, saddr, cl, caddr, toSrv, toCli, srvErr, cliErr>>
net == <<toSrv, toCli, srvErr, cliErr>>
serverVars == <<srv, saddr>>
clientVars == <<cl, caddr>>

(* A message goes to the group or to the server's own address. *)
Ways == {"group", "own"}

TypeOK ==
  /\ srv \in [Servers -> {"off", "recv", "send"}]
  /\ saddr \in [Servers -> Clients \cup {AnyAddress}]
  /\ cl \in [Clients -> {"off", "send", "recv", "gone"}]
  /\ caddr \in [Clients -> Servers \cup {Group}]
  /\ toSrv \in [Servers \X Clients \X Ways -> Nat]
  /\ toCli \in [Clients \X Servers -> Nat]
  /\ srvErr \in [Servers -> Nat]
  /\ cliErr \in [Clients -> Nat]

Init ==
  /\ srv = [s \in Servers |-> "off"]
  /\ saddr = [s \in Servers |-> AnyAddress]
  /\ cl = [c \in Clients |-> "off"]
  /\ caddr = [c \in Clients |-> Group]
  /\ toSrv = [p \in Servers \X Clients \X Ways |-> 0]
  /\ toCli = [p \in Clients \X Servers |-> 0]
  /\ srvErr = [s \in Servers |-> 0]
  /\ cliErr = [c \in Clients |-> 0]

Plus(n, k) == [n EXCEPT ![k] = @ + 1]
Minus(n, k) == [n EXCEPT ![k] = @ - 1]

-----------------------------------------------------------------------------
(* Server *)

(* Up to the read-print loop; the socket has joined the group. *)
ServerStart(s) ==
  /\ srv[s] = "off"
  /\ srv' = [srv EXCEPT ![s] = "recv"]
  /\ UNCHANGED <<saddr, clientVars, net>>

(* WSAEMSGSIZE, which is not zero; the sender's address is stored. *)
Recv(s, c) ==
  /\ srv[s] = "recv"
  /\ \E way \in Ways : /\ toSrv[<<s, c, way>>] > 0
                        /\ toSrv' = Minus(toSrv, <<s, c, way>>)
  /\ saddr' = [saddr EXCEPT ![s] = c]
  /\ srv' = [srv EXCEPT ![s] = "send"]
  /\ UNCHANGED <<clientVars, toCli, srvErr, cliErr>>

(* recvfrom returns without anything having come. *)
RecvErrorSpurious(s) ==
  /\ srv[s] = "recv"
  /\ srvErr' = Minus(srvErr, s)
  /\ srv' = [srv EXCEPT ![s] = "send"]
  /\ UNCHANGED <<saddr, clientVars, toSrv, toCli, cliErr>>

(* WSAECONNRESET is not zero either; the address is the one of before. *)
RecvError(s) ==
  /\ srv[s] = "recv"
  /\ srvErr[s] > 0
  /\ srvErr' = Minus(srvErr, s)
  /\ srv' = [srv EXCEPT ![s] = "send"]
  /\ UNCHANGED <<saddr, clientVars, toSrv, toCli, cliErr>>

(* Nothing can be sent to INADDR_ANY. *)
Send(s) ==
  /\ srv[s] = "send"
  /\ toCli' = IF saddr[s] = AnyAddress THEN toCli ELSE Plus(toCli, <<saddr[s], s>>)
  /\ srv' = [srv EXCEPT ![s] = "recv"]
  /\ UNCHANGED <<saddr, clientVars, toSrv, srvErr, cliErr>>

ServerKilled(s) ==
  /\ srv[s] # "off"
  /\ srv' = [srv EXCEPT ![s] = "off"]
  /\ saddr' = [saddr EXCEPT ![s] = AnyAddress]
  /\ srvErr' = [srvErr EXCEPT ![s] = 0]
  /\ UNCHANGED <<clientVars, toSrv, toCli, cliErr>>

-----------------------------------------------------------------------------
(* Client *)

Start(c) ==
  /\ cl[c] = "off"
  /\ cl' = [cl EXCEPT ![c] = "send"]
  /\ UNCHANGED <<caddr, serverVars, net>>

(* A datagram to the group reaches every member there is. *)
Destinations(c) ==
  IF caddr[c] = Group THEN {s \in Servers : srv[s] # "off"} \X {c} \X {"group"}
  ELSE {<<caddr[c], c, "own">>}

SendMessage(c) ==
  /\ cl[c] = "send"
  /\ toSrv' = [p \in DOMAIN toSrv |->
                 IF p \in Destinations(c) THEN toSrv[p] + 1 ELSE toSrv[p]]
  /\ cl' = [cl EXCEPT ![c] = "recv"]
  /\ UNCHANGED <<caddr, serverVars, toCli, srvErr, cliErr>>

Answered(c, s) ==
  /\ cl[c] = "recv"
  /\ toCli[<<c, s>>] > 0
  /\ toCli' = Minus(toCli, <<c, s>>)
  /\ cl' = [cl EXCEPT ![c] = "send"]
  /\ UNCHANGED <<serverVars, toSrv, srvErr, cliErr>>

(* The client receives into another variable and sends to the group again. *)
RecvAnswerKeepsGroup(c, s) == Answered(c, s) /\ UNCHANGED caddr

(* The next message goes to the server that answered and to no other. *)
RecvAnswer(c, s) == Answered(c, s) /\ caddr' = [caddr EXCEPT ![c] = s]

(* The result is not looked at; the address is the one of before. *)
RecvAnswerError(c) ==
  /\ cl[c] = "recv"
  /\ cliErr[c] > 0
  /\ cliErr' = Minus(cliErr, c)
  /\ cl' = [cl EXCEPT ![c] = "send"]
  /\ UNCHANGED <<caddr, serverVars, toSrv, toCli, srvErr>>

ClientKilled(c) ==
  /\ cl[c] \in {"send", "recv"}
  /\ cl' = [cl EXCEPT ![c] = "gone"]
  /\ cliErr' = [cliErr EXCEPT ![c] = 0]
  /\ UNCHANGED <<caddr, serverVars, toSrv, toCli, srvErr>>

-----------------------------------------------------------------------------
(* Network *)

Lose ==
  /\ \/ \E p \in DOMAIN toSrv : toSrv[p] > 0 /\ toSrv' = Minus(toSrv, p) /\ UNCHANGED toCli
     \/ \E p \in DOMAIN toCli : toCli[p] > 0 /\ toCli' = Minus(toCli, p) /\ UNCHANGED toSrv
  /\ UNCHANGED <<serverVars, clientVars, srvErr, cliErr>>

(* The port is closed and the sender, if it still has its own, is told; but *)
(* not of a message to the group.                                           *)
ServerUnreachable(s, c) ==
  /\ srv[s] = "off"
  /\ toSrv[<<s, c, "own">>] > 0
  /\ toSrv' = Minus(toSrv, <<s, c, "own">>)
  /\ cliErr' = IF cl[c] = "gone" THEN cliErr ELSE Plus(cliErr, c)
  /\ UNCHANGED <<serverVars, clientVars, toCli, srvErr>>

ClientUnreachable(c, s) ==
  /\ cl[c] = "gone"
  /\ toCli[<<c, s>>] > 0
  /\ toCli' = Minus(toCli, <<c, s>>)
  /\ srvErr' = IF srv[s] = "off" THEN srvErr ELSE Plus(srvErr, s)
  /\ UNCHANGED <<serverVars, clientVars, toSrv, cliErr>>

-----------------------------------------------------------------------------
ServerStep(s) == (\E c \in Clients : Recv(s, c)) \/ RecvError(s) \/ Send(s)

ClientStep(c) ==
  SendMessage(c) \/ (\E s \in Servers : RecvAnswer(c, s)) \/ RecvAnswerError(c)

Network ==
  \/ Lose
  \/ \E s \in Servers, c \in Clients : ServerUnreachable(s, c) \/ ClientUnreachable(c, s)

Environment ==
  \/ \E s \in Servers : ServerStart(s) \/ ServerKilled(s)
  \/ \E c \in Clients : Start(c) \/ ClientKilled(c)

Next ==
  \/ \E s \in Servers : ServerStep(s)
  \/ \E c \in Clients : ClientStep(c)
  \/ Network
  \/ Environment

Spec == Init /\ [][Next]_vars

-----------------------------------------------------------------------------
(* Properties *)

(* Everything that makes somebody send: datagrams and errors under way, and *)
(* programs about to send.                                                  *)
Units(n) == UNION {{k} \X (1 .. n[k]) : k \in DOMAIN n}
Total(n) == Cardinality(Units(n))
Activity ==
  Total(toSrv) + Total(toCli) + Total(srvErr) + Total(cliErr)
    + Cardinality({s \in Servers : srv[s] = "send"})
    + Cardinality({c \in Clients : cl[c] = "send" /\ caddr[c] # Group})

(* Clients that have sent to the group, or never will. *)
Started == {c \in Clients : cl[c] # "off" /\ ~(cl[c] = "send" /\ caddr[c] = Group)}

(* Two loops that answer each other do not multiply what they send: each    *)
(* client adds at most one datagram per server, with its one message to the *)
(* group, and no interleaving of answers, errors, deaths and restarts adds  *)
(* another.                                                                 *)
NoStorm == Activity <= Cardinality(Servers) * Cardinality(Started)
=============================================================================
