------------------------------ MODULE TcpEcho -------------------------------
(***************************************************************************)
(* The Winsock echo server (WinSockSvr.cpp) and its clients                *)
(* (WinSockClient.cpp) over TCP, which is a stream: a recv may return any  *)
(* part of what was sent, or parts of several sends.  The server accepts   *)
(* one client, echoes what it receives until that client is gone and ends. *)
(* A client sends what the user types, takes one recv for the answer and   *)
(* prompts again.  Each program runs once.                                 *)
(***************************************************************************)
EXTENDS Integers, Sequences

CONSTANTS Clients, NoClient,
          MaxInput,    \* longest line a user types (a bound)
          MaxTyped,    \* bytes a user types in a run (a bound)
          BufSize,     \* size of buf, 4096 in both programs
          InRoom,      \* bytes to the server the kernel takes before send blocks
          OutRoom      \* the same towards the client

ASSUME SizesAssumption ==
  /\ NoClient \notin Clients
  /\ MaxInput \in Nat \ {0} /\ MaxTyped \in Nat /\ BufSize \in Nat \ {0}
  /\ InRoom \in Nat \ {0} /\ OutRoom \in Nat /\ OutRoom > BufSize

VARIABLES
  srv,     \* server: the call it makes next
  conn,    \* the client behind clientSocket
  buf,     \* what its last recv returned
  cl,      \* each client: the call it makes next
  link,    \* its connection as the server's kernel has it
  c2s,     \* bytes on their way to the server
  s2c,     \* bytes on their way to the client
  left,    \* bytes of its line a blocked send has still to hand over
  typed,   \* how many bytes the lines of its user have had
  read     \* all bytes the client has received

vars == <<srv, conn, buf, cl, link, c2s, s2c, left, typed, read>>
clientVars == <<cl, left, typed, read>>

(* A byte is its place in all that the user typed, or one that the server   *)
(* made up: the NUL of a zeroed buf, or whatever lies behind a full one.    *)
NUL == 0
Beyond == -1
Typed == Nat \ {NUL}
Bytes == Nat \cup {Beyond}

TypeOK ==
  /\ srv \in {"off", "accept", "recv", "send", "gone"}
  /\ conn \in Clients \cup {NoClient}
  /\ buf \in Seq(Typed) /\ Len(buf) <= BufSize
  /\ cl \in [Clients -> {"off", "prompt", "send", "reply", "done"}]
  /\ link \in [Clients -> {"none", "backlog", "up", "down"}]
  /\ c2s \in [Clients -> Seq(Typed)] /\ \A c \in Clients : Len(c2s[c]) <= InRoom
  /\ s2c \in [Clients -> Seq(Bytes)] /\ \A c \in Clients : Len(s2c[c]) <= OutRoom
  /\ left \in [Clients -> 0 .. MaxInput + 1]
  /\ typed \in [Clients -> Nat]
  /\ read \in [Clients -> Seq(Bytes)]

Init ==
  /\ srv = "off" /\ conn = NoClient /\ buf = <<>>
  /\ cl = [c \in Clients |-> "off"]
  /\ link = [c \in Clients |-> "none"]
  /\ c2s = [c \in Clients |-> <<>>] /\ s2c = [c \in Clients |-> <<>>]
  /\ left = [c \in Clients |-> 0] /\ typed = [c \in Clients |-> 0]
  /\ read = [c \in Clients |-> <<>>]

(* n bytes from behind the m-th on. *)
Following(m, n) == [k \in 1 .. n |-> m + k]
Unsent(c) == Following(typed[c] - left[c], left[c])
Least(a, b) == IF a < b THEN a ELSE b

-----------------------------------------------------------------------------
(* Server *)

(* WSAStartup, socket, bind and listen. *)
ServerStart ==
  /\ srv = "off"
  /\ srv' = "accept"
  /\ UNCHANGED <<conn, buf, link, c2s, s2c, clientVars>>

Accept(c) ==
  /\ srv = "accept"
  /\ link[c] = "backlog"
  /\ srv' = "recv" /\ conn' = c
  /\ link' = [link EXCEPT ![c] = "up"]
  /\ UNCHANGED <<buf, c2s, s2c, clientVars>>

(* recv waits until the buffer is full. *)
RecvWaitAll ==
  /\ srv = "recv"
  /\ Len(c2s[conn]) >= BufSize
  /\ buf' = SubSeq(c2s[conn], 1, BufSize)
  /\ c2s' = [c2s EXCEPT ![conn] = SubSeq(@, BufSize + 1, Len(@))]
  /\ srv' = "send"
  /\ UNCHANGED <<conn, link, s2c, clientVars>>

(* One byte more than the buffer holds. *)
RecvOneMore ==
  /\ srv = "recv"
  /\ c2s[conn] # <<>>
  /\ LET n == Least(BufSize + 1, Len(c2s[conn])) IN
       /\ buf' = SubSeq(c2s[conn], 1, n)
       /\ c2s' = [c2s EXCEPT ![conn] = SubSeq(@, n + 1, Len(@))]
  /\ srv' = "send"
  /\ UNCHANGED <<conn, link, s2c, clientVars>>

(* recv returns any part of what has arrived, as much as buf holds. *)
Recv ==
  /\ srv = "recv"
  /\ \E n \in 1 .. BufSize :
       /\ n <= Len(c2s[conn])
       /\ buf' = SubSeq(c2s[conn], 1, n)
       /\ c2s' = [c2s EXCEPT ![conn] = SubSeq(@, n + 1, Len(@))]
  /\ srv' = "send"
  /\ UNCHANGED <<conn, link, s2c, clientVars>>

(* The byte at buf[bytesReceived]. *)
Extra == IF Len(buf) < BufSize THEN NUL ELSE Beyond

EchoWith(reply) ==
  /\ srv = "send"
  /\ Len(s2c[conn]) + Len(reply) <= OutRoom
  /\ s2c' = [s2c EXCEPT ![conn] = IF cl[conn] = "done" THEN @ ELSE @ \o reply]
  /\ buf' = <<>>
  /\ srv' = "recv"
  /\ UNCHANGED <<conn, link, c2s, clientVars>>

(* bytesReceived - 1 for bytesReceived + 1. *)
SendOneShort == EchoWith(SubSeq(buf, 1, Len(buf) - 1))

(* send(clientSocket, buf, bytesReceived + 1), which blocks while the       *)
(* client leaves too much unread.                                           *)
Send == EchoWith(Append(buf, Extra))

(* The end of the process closes its sockets.  A connection with bytes the  *)
(* server has not read is reset, and loses those the client has not read.   *)
ServerExit ==
  /\ srv' = "gone" /\ conn' = NoClient /\ buf' = <<>>
  /\ link' = [c \in Clients |-> IF link[c] = "none" THEN "none" ELSE "down"]
  /\ s2c' = [c \in Clients |-> IF c2s[c] = <<>> THEN s2c[c] ELSE <<>>]
  /\ c2s' = [c \in Clients |-> <<>>]
  /\ UNCHANGED clientVars

(* The zero that says the client has gone is taken for a short message. *)
RecvEndsUnchecked ==
  /\ srv = "recv"
  /\ cl[conn] = "done"
  /\ UNCHANGED vars

(* recv returns zero; or an error, whatever is still unread, for a client   *)
(* that was killed or closed with part of an answer unread.                 *)
RecvEnds == srv = "recv" /\ cl[conn] = "done" /\ ServerExit

(* Sending to a client that has gone ends the program sooner or later. *)
SendFails == srv = "send" /\ cl[conn] = "done" /\ ServerExit

ServerKilled == srv \in {"accept", "recv", "send"} /\ ServerExit

-----------------------------------------------------------------------------
(* Client *)

ClientGoto(c, call) == cl' = [cl EXCEPT ![c] = call]

(* The kernel of a listening server completes the connection by itself. *)
Connect(c) ==
  /\ cl[c] = "off"
  /\ srv \in {"accept", "recv", "send"}
  /\ ClientGoto(c, "prompt")
  /\ link' = [link EXCEPT ![c] = "backlog"]
  /\ UNCHANGED <<left, srv, conn, buf, c2s, s2c, typed, read>>

(* Nobody listens: the program ends. *)
ConnectFails(c) ==
  /\ cl[c] = "off"
  /\ srv \in {"off", "gone"}
  /\ ClientGoto(c, "done")
  /\ UNCHANGED <<left, srv, conn, buf, link, c2s, s2c, typed, read>>

(* A line of k characters is sent with its NUL. *)
TypeLine(c, k) ==
  /\ cl[c] = "prompt"
  /\ typed[c] + k + 1 <= MaxTyped
  /\ typed' = [typed EXCEPT ![c] = @ + k + 1]
  /\ left' = [left EXCEPT ![c] = k + 1]
  /\ ClientGoto(c, "send")
  /\ UNCHANGED <<srv, conn, buf, link, c2s, s2c, read>>

(* send returns when the kernel has all of it.  On a connection that is     *)
(* down it may still succeed, to no effect.                                 *)
SendLine(c) ==
  /\ cl[c] = "send"
  /\ LET n == IF link[c] = "down" THEN left[c] ELSE Least(left[c], InRoom - Len(c2s[c])) IN
       /\ n > 0
       /\ left' = [left EXCEPT ![c] = @ - n]
       /\ c2s' = IF link[c] = "down" THEN c2s
                 ELSE [c2s EXCEPT ![c] = @ \o SubSeq(Unsent(c), 1, n)]
       /\ IF n = left[c] THEN ClientGoto(c, "reply") ELSE UNCHANGED cl
  /\ UNCHANGED <<srv, conn, buf, link, s2c, typed, read>>

SendLineFails(c) ==
  /\ cl[c] = "send"
  /\ link[c] = "down"
  /\ ClientGoto(c, "done")
  /\ left' = [left EXCEPT ![c] = 0]
  /\ UNCHANGED <<srv, conn, buf, link, c2s, s2c, typed, read>>

(* One recv, whatever part of the answer it returns. *)
RecvReply(c) ==
  /\ cl[c] = "reply"
  /\ \E n \in 1 .. BufSize :
       /\ n <= Len(s2c[c])
       /\ read' = [read EXCEPT ![c] = @ \o SubSeq(s2c[c], 1, n)]
       /\ s2c' = [s2c EXCEPT ![c] = SubSeq(@, n + 1, Len(@))]
  /\ ClientGoto(c, "prompt")
  /\ UNCHANGED <<left, srv, conn, buf, link, c2s, typed>>

(* Zero or an error prints nothing, and the client prompts again. *)
RecvReplyEnds(c) ==
  /\ cl[c] = "reply"
  /\ link[c] = "down" /\ s2c[c] = <<>>
  /\ ClientGoto(c, "prompt")
  /\ UNCHANGED <<left, srv, conn, buf, link, c2s, s2c, typed, read>>

(* An empty line: shutdown and closesocket.  What was sent still arrives. *)
Quit(c) ==
  /\ cl[c] = "prompt"
  /\ ClientGoto(c, "done")
  /\ s2c' = [s2c EXCEPT ![c] = <<>>]
  /\ UNCHANGED <<left, srv, conn, buf, link, c2s, typed, read>>

ClientKilled(c) ==
  /\ cl[c] \in {"prompt", "send", "reply"}
  /\ ClientGoto(c, "done")
  /\ s2c' = [s2c EXCEPT ![c] = <<>>]
  /\ left' = [left EXCEPT ![c] = 0]
  /\ UNCHANGED <<srv, conn, buf, link, c2s, typed, read>>

-----------------------------------------------------------------------------
ServerStep ==
  \/ \E c \in Clients : Accept(c)
  \/ Recv
  \/ Send
  \/ RecvEnds
  \/ SendFails

(* What a client does without its user. *)
ClientStep(c) ==
  SendLine(c) \/ SendLineFails(c) \/ RecvReply(c) \/ RecvReplyEnds(c)

Environment ==
  \/ ServerStart
  \/ ServerKilled
  \/ \E c \in Clients :
       \/ Connect(c)
       \/ ConnectFails(c)
       \/ \E k \in 1 .. MaxInput : TypeLine(c, k)
       \/ Quit(c)
       \/ ClientKilled(c)

Next == ServerStep \/ (\E c \in Clients : ClientStep(c)) \/ Environment

Spec == Init /\ [][Next]_vars

(* Both programs are scheduled and TCP delivers; users may do nothing. *)
FairSpec ==
  Spec /\ WF_vars(ServerStep) /\ \A c \in Clients : WF_vars(ClientStep(c))

-----------------------------------------------------------------------------
(* Properties *)

InBuf(c) == IF conn = c THEN buf ELSE <<>>

Elements(w) == {w[k] : k \in DOMAIN w}

(* The typed ones among some bytes, and that those in a sequence are the    *)
(* first, the second, the third and so on.                                  *)
TypedIn(bytes) == bytes \ {NUL, Beyond}
InOrder(w) ==
  \A k \in DOMAIN w : w[k] > 0 => TypedIn({w[j] : j \in 1 .. k - 1}) = 1 .. w[k] - 1

(* Leaving aside the bytes the server makes up, what a client reads is what *)
(* its user typed, in order; and while the connection lasts and the client  *)
(* lives, nothing is lost or doubled between the two programs, however TCP  *)
(* cuts the stream and however far the answers fall behind the lines.       *)
EchoInOrder ==
  \A c \in Clients :
    /\ InOrder(read[c]) /\ TypedIn(Elements(read[c])) \subseteq 1 .. typed[c]
    /\ link[c] \in {"backlog", "up"} /\ cl[c] # "done" =>
         LET stream == read[c] \o s2c[c] \o InBuf(c) \o c2s[c] \o Unsent(c)
         IN  InOrder(stream) /\ TypedIn(Elements(stream)) = 1 .. typed[c]

(* The server waits in send until the client reads more. *)
SendBlocked(c) ==
  srv = "send" /\ conn = c /\ Len(s2c[c]) + Len(buf) + 1 > OutRoom

(* The client being served always gets an answer to its line, and is not    *)
(* left in send, unless the answers it has not read fill what the kernel    *)
(* takes: then each program waits in send for the other to recv.            *)
AnswerComes ==
  \A c \in Clients :
    LET served(call) == cl[c] = call /\ link[c] = "up" IN
      /\ served("reply") ~> ~served("reply")
      /\ served("send") ~> ~served("send") \/ SendBlocked(c)

(* Once its client has gone the server ends, after what it still has to do. *)
ServerEnds ==
  (conn # NoClient /\ \E c \in Clients : conn = c /\ cl[c] = "done") ~> srv = "gone"

(* "Echo message back to client": the server returns the bytes of the       *)
(* message it received and no others.                                       *)
EchoesMessage ==
  \A c \in Clients : NUL \notin Elements(s2c[c]) /\ Beyond \notin Elements(s2c[c])
=============================================================================
