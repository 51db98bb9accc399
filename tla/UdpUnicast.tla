----------------------------- MODULE UdpUnicast -----------------------------
(***************************************************************************)
(* The UDP echo server (UDPUniServer_IPC.cpp) and its clients              *)
(* (UDPUniClient_IPC.cpp), which reach it at 127.0.0.1.  On the loopback a *)
(* datagram is lost only when nobody has bound the port, the server's      *)
(* socket is full or the server ends; to a closed port the sender's next   *)
(* recvfrom fails with WSAECONNRESET.  Neither program has a timeout.      *)
(***************************************************************************)
EXTENDS Naturals, Sequences

CONSTANTS Clients,
          Texts,       \* what users type
          Nothing,     \* a zeroed or never written buffer
          Gone,        \* the address of a client socket that was closed
          Unreachable, \* a pending WSAECONNRESET
          Room         \* datagrams the server's socket holds

ASSUME NamesAssumption ==
  /\ Nothing \notin Texts /\ Gone \notin Clients /\ Unreachable \notin Texts
  /\ Room \in Nat \ {0}

VARIABLES
  srv,     \* server: the call it makes next
  buffer,  \* server: its buffer, zeroed before every recvfrom
  from,    \* server: the address recvfrom stored
  inbox,   \* datagrams in the server's socket
  reset,   \* the server's socket has a WSAECONNRESET pending
  cl,      \* each client: the call it makes next
  asked,   \* client: buffer, the last text its user typed
  buffer1, \* client: buffer1, never zeroed
  events   \* what its socket has for recvfrom

vars == <<srv, buffer, from, inbox, reset, cl, asked, buffer1, events>>
serverVars == <<srv, buffer, from, reset>>

MaybeText == Texts \cup {Nothing}
Datagrams == [from : Clients \cup {Gone}, text : Texts]

TypeOK ==
  /\ srv \in {"off", "recv", "send"}
  /\ buffer \in MaybeText /\ (srv = "send" <=> buffer # Nothing)
  /\ from \in Clients \cup {Gone}
  /\ inbox \in Seq(Datagrams) /\ Len(inbox) <= Room
  /\ reset \in BOOLEAN
  /\ cl \in [Clients -> {"off", "prompt", "wait"}]
  /\ asked \in [Clients -> MaybeText]
  /\ buffer1 \in [Clients -> MaybeText]
  /\ events \in [Clients -> Seq(Texts \cup {Unreachable})]

Init ==
  /\ srv = "off" /\ buffer = Nothing /\ from = Gone
  /\ inbox = <<>> /\ reset = FALSE
  /\ cl = [c \in Clients |-> "off"]
  /\ asked = [c \in Clients |-> Nothing]
  /\ buffer1 = [c \in Clients |-> Nothing]
  /\ events = [c \in Clients |-> <<>>]

-----------------------------------------------------------------------------
(* Server *)

(* socket and bind. *)
ServerStart ==
  /\ srv = "off"
  /\ srv' = "recv"
  /\ UNCHANGED <<buffer, from, inbox, reset, cl, asked, buffer1, events>>

Recv ==
  /\ srv = "recv"
  /\ inbox # <<>>
  /\ buffer' = Head(inbox).text
  /\ from' = Head(inbox).from
  /\ inbox' = Tail(inbox)
  /\ srv' = "send"
  /\ UNCHANGED <<reset, cl, asked, buffer1, events>>

(* The result is tested for zero, as the other UDP programs do. *)
RecvFailsTruthy ==
  /\ srv = "recv" /\ reset
  /\ reset' = FALSE
  /\ srv' = "send"
  /\ UNCHANGED <<buffer, from, inbox, cl, asked, buffer1, events>>

(* The failing recvfrom takes a datagram with it. *)
RecvFailsDiscards ==
  /\ srv = "recv" /\ reset
  /\ reset' = FALSE
  /\ inbox' = IF inbox = <<>> THEN inbox ELSE Tail(inbox)
  /\ UNCHANGED <<srv, buffer, from, cl, asked, buffer1, events>>

(* An answer to a client that had gone: the error is ignored. *)
RecvFails ==
  /\ srv = "recv" /\ reset
  /\ reset' = FALSE
  /\ UNCHANGED <<srv, buffer, from, inbox, cl, asked, buffer1, events>>

(* The whole buffer goes back, whatever the length of the question. *)
Send ==
  /\ srv = "send"
  /\ IF from = Gone
     THEN reset' = TRUE /\ UNCHANGED events
     ELSE events' = [events EXCEPT ![from] = Append(@, buffer)] /\ UNCHANGED reset
  /\ buffer' = Nothing
  /\ srv' = "recv"
  /\ UNCHANGED <<from, inbox, cl, asked, buffer1>>

(* Nothing in the loop ends the server: it is killed.  What its socket held *)
(* is gone and nobody is told.                                              *)
ServerKilled ==
  /\ srv # "off"
  /\ srv' = "off" /\ buffer' = Nothing /\ from' = Gone
  /\ inbox' = <<>> /\ reset' = FALSE
  /\ UNCHANGED <<cl, asked, buffer1, events>>

-----------------------------------------------------------------------------
(* Client *)

Start(c) ==
  /\ cl[c] = "off"
  /\ cl' = [cl EXCEPT ![c] = "prompt"]
  /\ UNCHANGED <<serverVars, inbox, asked, buffer1, events>>

(* cin and sendto.  With no server the kernel may say so, or may not. *)
Ask(c) ==
  /\ cl[c] = "prompt"
  /\ \E t \in Texts :
       /\ asked' = [asked EXCEPT ![c] = t]
       /\ inbox' = IF srv # "off" /\ Len(inbox) < Room
                   THEN Append(inbox, [from |-> c, text |-> t]) ELSE inbox
  /\ \/ srv = "off" /\ events' = [events EXCEPT ![c] = Append(@, Unreachable)]
     \/ UNCHANGED events
  /\ cl' = [cl EXCEPT ![c] = "wait"]
  /\ UNCHANGED <<serverVars, buffer1>>

(* sendto fails, and the user is asked again. *)
AskFails(c) ==
  /\ cl[c] = "prompt"
  /\ \E t \in Texts : asked' = [asked EXCEPT ![c] = t]
  /\ UNCHANGED <<serverVars, inbox, cl, buffer1, events>>

(* The loop goes back to the prompt with whatever it got. *)
Returns(c) ==
  /\ cl[c] = "wait"
  /\ events[c] # <<>>
  /\ events' = [events EXCEPT ![c] = Tail(@)]
  /\ cl' = [cl EXCEPT ![c] = "prompt"]
  /\ UNCHANGED <<serverVars, inbox, asked>>

(* An answer is all of the server's buffer, 100 bytes, and buffer1 has 50:  *)
(* recvfrom stores what fits, which has the text, and fails with            *)
(* WSAEMSGSIZE, but the code only tests the result for zero.                *)
RecvAnswer(c) ==
  /\ Returns(c) /\ Head(events[c]) # Unreachable
  /\ buffer1' = [buffer1 EXCEPT ![c] = Head(events[c])]

(* recvfrom is repeated until it succeeds. *)
RecvUnreachableRetried(c) ==
  /\ cl[c] = "wait" /\ events[c] # <<>> /\ Head(events[c]) = Unreachable
  /\ UNCHANGED vars

(* recvfrom fails when no answer has come for a while. *)
RecvTimesOut(c) ==
  /\ cl[c] = "wait"
  /\ cl' = [cl EXCEPT ![c] = "prompt"]
  /\ UNCHANGED <<serverVars, inbox, asked, buffer1, events>>

(* SOCKET_ERROR is not zero either: buffer1 is printed as it was. *)
RecvUnreachable(c) ==
  /\ Returns(c) /\ Head(events[c]) = Unreachable
  /\ UNCHANGED buffer1

(* The socket is closed; a later run gets another port. *)
ClientExit(c) ==
  /\ cl' = [cl EXCEPT ![c] = "off"]
  /\ asked' = [asked EXCEPT ![c] = Nothing]
  /\ buffer1' = [buffer1 EXCEPT ![c] = Nothing]
  /\ events' = [events EXCEPT ![c] = <<>>]
  /\ inbox' = [k \in DOMAIN inbox |->
                 IF inbox[k].from = c THEN [inbox[k] EXCEPT !.from = Gone] ELSE inbox[k]]
  /\ from' = IF from = c THEN Gone ELSE from
  /\ UNCHANGED <<srv, buffer, reset>>

(* The user types exit. *)
Quit(c) == cl[c] = "prompt" /\ ClientExit(c)

ClientKilled(c) == cl[c] # "off" /\ ClientExit(c)

-----------------------------------------------------------------------------
ServerStep == Recv \/ RecvFails \/ Send

ClientStep(c) == RecvAnswer(c) \/ RecvUnreachable(c)

Environment ==
  \/ ServerStart
  \/ ServerKilled
  \/ \E c \in Clients : Start(c) \/ Ask(c) \/ AskFails(c) \/ Quit(c) \/ ClientKilled(c)

Next == ServerStep \/ (\E c \in Clients : ClientStep(c)) \/ Environment

Spec == Init /\ [][Next]_vars

(* Both programs are scheduled; nobody has to type. *)
FairSpec ==
  Spec /\ WF_vars(ServerStep) /\ \A c \in Clients : WF_vars(ClientStep(c))

-----------------------------------------------------------------------------
(* Properties *)

(* A client's socket holds at most one thing, only while it waits, and an   *)
(* answer in it is the echo of the question it waits on: never another      *)
(* client's, nor one to an earlier question.  Datagrams carry no number; it *)
(* is the wait without a timeout that pairs them.                           *)
AnswersOwnQuestion ==
  \A c \in Clients : events[c] # <<>> =>
    cl[c] = "wait" /\ events[c] \in {<<asked[c]>>, <<Unreachable>>}

(* The question of c is in the server's socket, in its buffer, or answered. *)
Pending(c) ==
  \/ \E k \in DOMAIN inbox : inbox[k].from = c
  \/ srv = "send" /\ from = c
  \/ events[c] # <<>>

(* A question the server's socket has taken is not lost, whatever errors    *)
(* the sockets of other clients cause, except by the end of the server.     *)
Kept ==
  \A c \in Clients :
    cl[c] = "wait" /\ Pending(c) /\ cl'[c] = "wait" /\ srv' # "off" => Pending(c)'

KeptUntilAnswered == [][Kept]_vars

(* Who waits for something that is on its way is back at the prompt in the  *)
(* end.  (Who waits for something that was lost waits for ever.)            *)
PendingAnswered ==
  \A c \in Clients :
    cl[c] = "wait" /\ Pending(c) ~> cl[c] # "wait" \/ srv = "off"
=============================================================================
