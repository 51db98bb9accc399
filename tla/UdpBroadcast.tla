---------------------------- MODULE UdpBroadcast ----------------------------
(***************************************************************************)
(* UDPBroadcastSvr.cpp and UDPBroadcastClient.cpp.  Nothing is broadcast:  *)
(* the client sends one datagram to port 9009 of 127.0.0.1 and waits for   *)
(* one answer; a run of the server answers the first datagram it gets and  *)
(* ends, with what else its socket holds.  Neither looks at the results of *)
(* recvfrom, and there is no timeout.                                      *)
(***************************************************************************)
EXTENDS Naturals, Sequences

CONSTANTS Servers,     \* processes of the server program
          Clients,
          Nobody,      \* no process has bound the port; no client
          Gone,        \* the address of a client socket that was closed
          Nothing,     \* the client's socket is empty
          Reply,       \* "Broadcast message from Server"
          Unreachable, \* a pending WSAECONNRESET
          Room         \* datagrams the server's socket holds

ASSUME NamesAssumption ==
  /\ Nobody \notin Servers \cup Clients /\ Gone \notin Clients /\ Gone # Nobody
  /\ Nothing # Reply /\ Nothing # Unreachable /\ Reply # Unreachable
  /\ Room \in Nat \ {0}

VARIABLES
  svr,    \* each server process: the call it makes next
  sender, \* server: Sender_addr
  port,   \* the server process that has bound MYPORT
  inbox,  \* the senders of the datagrams in its socket
  cl,     \* each client: the call it makes next
  box     \* what its socket has for recvfrom

vars == <<svr, sender, port, inbox, cl, box>>

Over == {"idle", "ok", "failed", "killed"}

TypeOK ==
  /\ svr \in [Servers -> Over \cup {"bind", "recv", "send", "close"}]
  /\ sender \in [Servers -> Clients \cup {Gone, Nobody}]
  /\ port \in Servers \cup {Nobody}
  /\ \A s \in Servers : port = s <=> svr[s] \in {"recv", "send", "close"}
  /\ inbox \in Seq(Clients \cup {Gone}) /\ Len(inbox) <= Room
  /\ cl \in [Clients -> Over \cup {"send", "recv", "print", "blank"}]
  /\ box \in [Clients -> {Nothing, Reply, Unreachable}]

Init ==
  /\ svr = [s \in Servers |-> "idle"]
  /\ sender = [s \in Servers |-> Nobody]
  /\ port = Nobody
  /\ inbox = <<>>
  /\ cl = [c \in Clients |-> "idle"]
  /\ box = [c \in Clients |-> Nothing]

-----------------------------------------------------------------------------
(* Server process s *)

SvrGoto(s, call) == svr' = [svr EXCEPT ![s] = call]

(* WSAStartup, socket and setsockopt; if the option cannot be set the       *)
(* program ends.                                                            *)
SvrSetup(s) ==
  /\ svr[s] \in Over
  /\ SvrGoto(s, "bind") \/ SvrGoto(s, "failed")
  /\ sender' = [sender EXCEPT ![s] = Nobody]
  /\ UNCHANGED <<port, inbox, cl, box>>

Bind(s) ==
  /\ svr[s] = "bind"
  /\ port = Nobody
  /\ port' = s
  /\ SvrGoto(s, "recv")
  /\ UNCHANGED <<sender, inbox, cl, box>>

(* The error is reported and the program goes on. *)
BindFailsGoesOn(s) ==
  /\ svr[s] = "bind"
  /\ port # Nobody
  /\ SvrGoto(s, "recv")
  /\ UNCHANGED <<sender, port, inbox, cl, box>>

(* The port is in use. *)
BindFails(s) ==
  /\ svr[s] = "bind"
  /\ port # Nobody
  /\ SvrGoto(s, "failed")
  /\ UNCHANGED <<sender, port, inbox, cl, box>>

(* recvfrom is not asked for the address. *)
SvrRecvNoAddress(s) ==
  /\ svr[s] = "recv"
  /\ inbox # <<>>
  /\ inbox' = Tail(inbox)
  /\ SvrGoto(s, "send")
  /\ UNCHANGED <<sender, port, cl, box>>

SvrRecv(s) ==
  /\ svr[s] = "recv"
  /\ inbox # <<>>
  /\ sender' = [sender EXCEPT ![s] = Head(inbox)]
  /\ inbox' = Tail(inbox)
  /\ SvrGoto(s, "send")
  /\ UNCHANGED <<port, cl, box>>

(* The answer goes to everybody. *)
SvrSendBroadcast(s) ==
  /\ svr[s] = "send"
  /\ box' = [c \in Clients |-> IF cl[c] = "recv" THEN Reply ELSE box[c]]
  /\ SvrGoto(s, "close")
  /\ UNCHANGED <<sender, port, inbox, cl>>

(* The answer goes back to the sender only; sendto succeeds as well when    *)
(* nobody is there.                                                         *)
SvrSend(s) ==
  /\ svr[s] = "send"
  /\ box' = [c \in Clients |-> IF c = sender[s] THEN Reply ELSE box[c]]
  /\ SvrGoto(s, "close")
  /\ UNCHANGED <<sender, port, inbox, cl>>

SvrSendFails(s) ==
  /\ svr[s] = "send"
  /\ port' = Nobody /\ inbox' = <<>>
  /\ SvrGoto(s, "failed")
  /\ UNCHANGED <<sender, cl, box>>

(* The server goes back to recvfrom. *)
SvrCloseLoops(s) ==
  /\ svr[s] = "close"
  /\ SvrGoto(s, "recv")
  /\ UNCHANGED <<sender, port, inbox, cl, box>>

(* closesocket: the datagrams still in the socket are lost, nobody is told. *)
SvrClose(s) ==
  /\ svr[s] = "close"
  /\ port' = Nobody /\ inbox' = <<>>
  /\ SvrGoto(s, "ok")
  /\ UNCHANGED <<sender, cl, box>>

SvrKilled(s) ==
  /\ svr[s] \notin Over
  /\ IF port = s THEN port' = Nobody /\ inbox' = <<>> ELSE UNCHANGED <<port, inbox>>
  /\ SvrGoto(s, "killed")
  /\ UNCHANGED <<sender, cl, box>>

-----------------------------------------------------------------------------
(* Client c *)

Goto(c, call) == cl' = [cl EXCEPT ![c] = call]

Start(c) ==
  /\ cl[c] \in Over
  /\ Goto(c, "send")
  /\ UNCHANGED <<svr, sender, port, inbox, box>>

(* The option cannot be set. *)
SetupFails(c) ==
  /\ cl[c] = "send"
  /\ Goto(c, "failed")
  /\ UNCHANGED <<svr, sender, port, inbox, box>>

(* The result of sendto is not looked at.  With nobody at the port the      *)
(* kernel may say so, or may not; a full socket drops the datagram.         *)
Send(c) ==
  /\ cl[c] = "send"
  /\ inbox' = IF port # Nobody /\ Len(inbox) < Room THEN Append(inbox, c) ELSE inbox
  /\ \/ port = Nobody /\ box' = [box EXCEPT ![c] = Unreachable]
     \/ UNCHANGED box
  /\ Goto(c, "recv")
  /\ UNCHANGED <<svr, sender, port>>

Recv(c) ==
  /\ cl[c] = "recv"
  /\ box[c] = Reply
  /\ box' = [box EXCEPT ![c] = Nothing]
  /\ Goto(c, "print")
  /\ UNCHANGED <<svr, sender, port, inbox>>

(* recvbuff is too short for the answer. *)
RecvFailsShort(c) ==
  /\ cl[c] = "recv"
  /\ box[c] # Nothing
  /\ box' = [box EXCEPT ![c] = Nothing]
  /\ Goto(c, "blank")
  /\ UNCHANGED <<svr, sender, port, inbox>>

(* recvbuff is still empty, and is printed as the answer. *)
RecvFails(c) ==
  /\ cl[c] = "recv"
  /\ box[c] = Unreachable
  /\ box' = [box EXCEPT ![c] = Nothing]
  /\ Goto(c, "blank")
  /\ UNCHANGED <<svr, sender, port, inbox>>

(* The socket is closed; a later run gets another port. *)
Leaves(c) ==
  /\ box' = [box EXCEPT ![c] = Nothing]
  /\ inbox' = [k \in DOMAIN inbox |-> IF inbox[k] = c THEN Gone ELSE inbox[k]]
  /\ sender' = [s \in Servers |-> IF sender[s] = c THEN Gone ELSE sender[s]]
  /\ UNCHANGED <<svr, port>>

Close(c) ==
  /\ \/ cl[c] = "print" /\ Goto(c, "ok")
     \/ cl[c] = "blank" /\ Goto(c, "failed")
  /\ Leaves(c)

Killed(c) ==
  /\ cl[c] \in {"send", "recv", "print"}
  /\ Goto(c, "killed")
  /\ Leaves(c)

-----------------------------------------------------------------------------
SvrStep(s) ==
  Bind(s) \/ BindFails(s) \/ SvrRecv(s) \/ SvrSend(s) \/ SvrSendFails(s) \/ SvrClose(s)

ClientStep(c) == SetupFails(c) \/ Send(c) \/ Recv(c) \/ RecvFails(c) \/ Close(c)

Environment ==
  \/ \E s \in Servers : SvrSetup(s) \/ SvrKilled(s)
  \/ \E c \in Clients : Start(c) \/ Killed(c)

Next ==
  \/ \E s \in Servers : SvrStep(s)
  \/ \E c \in Clients : ClientStep(c)
  \/ Environment

Spec == Init /\ [][Next]_vars

(* The programs are scheduled; nobody has to start them. *)
FairSpec ==
  /\ Spec
  /\ \A s \in Servers : WF_vars(SvrStep(s))
  /\ \A c \in Clients : WF_vars(ClientStep(c))

-----------------------------------------------------------------------------
(* Properties *)

Phase(c) ==
  CASE cl[c] \in Over -> cl[c]
    [] cl[c] = "send" -> "out"
    [] cl[c] = "recv" /\ box[c] = Reply -> "answered"
    [] cl[c] = "recv" /\ box[c] # Reply -> "asked"
    [] cl[c] = "print" -> "got"
    [] cl[c] = "blank" -> "failed"

RR == INSTANCE RequestReply WITH phase <- [c \in Clients |-> Phase(c)]

(* These programs keep the promise of RequestReply too, whatever becomes of *)
(* other clients and of the servers: a run of the client asks once and is   *)
(* answered at most once, an answer is never lost, and a run that prints    *)
(* nothing has not been answered.                                           *)
Session == RR!Spec

(* A server whose socket has got a datagram ends, whoever sent it and       *)
(* whether or not the sender is still there.                                *)
ServerEnds ==
  \A s \in Servers : port = s /\ inbox # <<>> ~> port # s

(* The client whose datagram is the first in the socket of a server that    *)
(* listens does not wait for ever, unless the server is killed or cannot    *)
(* send.                                                                    *)
FirstIsServed ==
  \A c \in Clients, s \in Servers :
    svr[s] = "recv" /\ inbox # <<>> /\ Head(inbox) = c ~>
      cl[c] # "recv" \/ svr[s] \in {"killed", "failed"}

(* Client c waits and nothing is on its way to it. *)
Lost(c) ==
  /\ cl[c] = "recv"
  /\ box[c] = Nothing
  /\ \A s \in Servers : svr[s] = "send" => sender[s] # c
  /\ \A k \in DOMAIN inbox : inbox[k] # c

(* Who asks before there is a server, or is not the first of those a run of *)
(* the server hears, waits until it is killed: no server started later      *)
(* answers it, and no answer meant for another client reaches it.           *)
LostForGood ==
  [][\A c \in Clients : Lost(c) => Lost(c)' \/ cl'[c] = "killed"]_vars
=============================================================================
