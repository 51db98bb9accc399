------------------------- MODULE UdpBroadcastProofs -------------------------
(***************************************************************************)
(* Proofs about UdpBroadcast for any number of servers and clients and any *)
(* room in the socket: the datagram of a client is in one place at most,   *)
(* so that it is answered at most once, and the programs implement         *)
(* RequestReply.                                                           *)
(***************************************************************************)
EXTENDS UdpBroadcast, SequenceTheorems, TLAPS

(* Nothing has been put in the socket of client c, which waits.             *)
Waits(c) == cl[c] = "recv" /\ box[c] = Nothing

Serving(s, c) == svr[s] = "send" /\ sender[s] = c

(* The datagram of a client is in the server's socket once, or is being     *)
(* answered, or neither.                                                    *)
OnePlace ==
  \A c \in Clients :
    /\ \A k \in DOMAIN inbox : inbox[k] = c =>
         /\ Waits(c)
         /\ \A s \in Servers : ~Serving(s, c)
         /\ \A l \in DOMAIN inbox : inbox[l] = c => l = k
    /\ \A s \in Servers : Serving(s, c) => Waits(c)
    /\ box[c] # Nothing => cl[c] = "recv"

IInv == TypeOK /\ OnePlace

LEMMA QueueTail ==
  ASSUME NEW S, NEW q \in Seq(S), q # <<>>
  PROVE  /\ Head(q) = q[1] /\ Head(q) \in S /\ 1 \in DOMAIN q
         /\ Tail(q) \in Seq(S) /\ Len(Tail(q)) = Len(q) - 1
         /\ \A k \in DOMAIN Tail(q) : k + 1 \in DOMAIN q /\ k + 1 # 1 /\ Tail(q)[k] = q[k + 1]
OBVIOUS

LEMMA QueueAppend ==
  ASSUME NEW S, NEW q \in Seq(S), NEW e \in S
  PROVE  /\ Append(q, e) \in Seq(S) /\ Len(Append(q, e)) = Len(q) + 1
         /\ DOMAIN Append(q, e) = DOMAIN q \cup {Len(q) + 1}
         /\ Len(q) + 1 \notin DOMAIN q
         /\ \A k \in DOMAIN q : Append(q, e)[k] = q[k]
         /\ Append(q, e)[Len(q) + 1] = e
OBVIOUS

LEMMA QueueMapped ==
  ASSUME NEW S, NEW q \in Seq(S), NEW t, t = [k \in DOMAIN q |-> t[k]],
         \A k \in DOMAIN q : t[k] \in S
  PROVE  t \in Seq(S) /\ Len(t) = Len(q) /\ DOMAIN t = DOMAIN q
<1>1. Len(q) \in Nat /\ DOMAIN q = 1..Len(q)
  OBVIOUS
<1>2. t \in [1..Len(q) -> S]
  BY <1>1
<1>3. t \in Seq(S)
  BY <1>1, <1>2, SeqDef
<1>4. DOMAIN t = 1..Len(t) /\ Len(t) \in Nat
  BY <1>3
<1> QED
  BY <1>1, <1>2, <1>3, <1>4

LEMMA EmptyQueue == \A S : <<>> \in Seq(S) /\ Len(<<>>) = 0 /\ DOMAIN <<>> = {}
OBVIOUS

LEMMA Initially == Init => IInv
<1> SUFFICES ASSUME Init PROVE IInv
  OBVIOUS
<1>1. TypeOK
  BY NamesAssumption, EmptyQueue DEF Init, TypeOK, Over
<1>2. OnePlace
  BY EmptyQueue DEF Init, OnePlace, Waits, Serving
<1> QED
  BY <1>1, <1>2 DEF IInv

-----------------------------------------------------------------------------
(* The steps of a server *)

(* The server leaves its socket alone, or has none.                         *)
LEMMA ServerQuiet ==
  ASSUME IInv, NEW s \in Servers, SvrSetup(s) \/ Bind(s) \/ BindFails(s)
  PROVE  IInv'
<1>0. TypeOK /\ OnePlace
  BY DEF IInv
<1>1. /\ svr' \in [Servers -> Over \cup {"bind", "recv", "send", "close"}]
      /\ svr'[s] # "send" /\ \A q \in Servers : q # s => svr'[q] = svr[q]
      /\ sender' \in [Servers -> Clients \cup {Gone, Nobody}]
      /\ \A q \in Servers : q # s => sender'[q] = sender[q]
      /\ UNCHANGED <<inbox, cl, box>>
  BY <1>0 DEF TypeOK, Over, SvrGoto, SvrSetup, Bind, BindFails
<1>2. port' \in Servers \cup {Nobody}
  BY <1>0 DEF TypeOK, SvrSetup, Bind, BindFails
<1>3. \A q \in Servers : port' = q <=> svr'[q] \in {"recv", "send", "close"}
  BY <1>0, NamesAssumption DEF TypeOK, Over, SvrGoto, SvrSetup, Bind, BindFails
<1>4. TypeOK'
  BY <1>0, <1>1, <1>2, <1>3 DEF TypeOK
<1>5. OnePlace'
  BY <1>0, <1>1 DEF OnePlace, Waits, Serving
<1> QED
  BY <1>4, <1>5 DEF IInv

(* The first datagram moves from the socket to Sender_addr.                 *)
LEMMA SvrRecvStep ==
  ASSUME IInv, NEW s \in Servers, SvrRecv(s)
  PROVE  IInv'
<1>0. TypeOK /\ OnePlace /\ inbox \in Seq(Clients \cup {Gone})
  BY DEF IInv, TypeOK
<1>1. /\ Head(inbox) = inbox[1] /\ Head(inbox) \in Clients \cup {Gone} /\ 1 \in DOMAIN inbox
      /\ inbox' \in Seq(Clients \cup {Gone}) /\ Len(inbox') = Len(inbox) - 1
      /\ \A k \in DOMAIN inbox' :
           k + 1 \in DOMAIN inbox /\ k + 1 # 1 /\ inbox'[k] = inbox[k + 1]
  BY <1>0, QueueTail DEF SvrRecv
<1>2. /\ svr' = [svr EXCEPT ![s] = "send"] /\ svr[s] = "recv"
      /\ sender' = [sender EXCEPT ![s] = inbox[1]]
      /\ UNCHANGED <<port, cl, box>>
  BY <1>1 DEF SvrRecv, SvrGoto
<1>3. TypeOK'
  <2>1. /\ svr' \in [Servers -> Over \cup {"bind", "recv", "send", "close"}]
        /\ sender' \in [Servers -> Clients \cup {Gone, Nobody}]
        /\ \A q \in Servers : port' = q <=> svr'[q] \in {"recv", "send", "close"}
    BY <1>0, <1>1, <1>2 DEF TypeOK
  <2>2. Len(inbox') <= Room
    BY <1>0, <1>1, NamesAssumption DEF TypeOK
  <2> QED
    BY <1>0, <1>1, <1>2, <2>1, <2>2 DEF TypeOK
<1>4. OnePlace'
  <2> SUFFICES ASSUME NEW c \in Clients
               PROVE  /\ \A k \in DOMAIN inbox' : inbox'[k] = c =>
                           /\ Waits(c)'
                           /\ \A q \in Servers : ~Serving(q, c)'
                           /\ \A l \in DOMAIN inbox' : inbox'[l] = c => l = k
                      /\ \A q \in Servers : Serving(q, c)' => Waits(c)'
                      /\ box'[c] # Nothing => cl'[c] = "recv"
    BY DEF OnePlace
  <2>1. /\ Waits(c)' = Waits(c)
        /\ \A q \in Servers : q # s => Serving(q, c)' = Serving(q, c)
        /\ Serving(s, c)' => inbox[1] = c
    BY <1>0, <1>2 DEF TypeOK, Waits, Serving
  <2>2. ASSUME NEW k \in DOMAIN inbox', inbox'[k] = c
        PROVE  /\ Waits(c) /\ inbox[1] # c /\ \A q \in Servers : ~Serving(q, c)
               /\ \A l \in DOMAIN inbox' : inbox'[l] = c => l = k
    <3>1. k + 1 \in DOMAIN inbox /\ k + 1 # 1 /\ inbox[k + 1] = c
      BY <1>1, <2>2
    <3>2. /\ Waits(c) /\ \A q \in Servers : ~Serving(q, c)
          /\ \A l \in DOMAIN inbox : inbox[l] = c => l = k + 1
      BY <1>0, <3>1 DEF OnePlace
    <3>3. ASSUME NEW l \in DOMAIN inbox', inbox'[l] = c PROVE l = k
      <4>1. l + 1 = k + 1
        BY <1>1, <3>2, <3>3
      <4> QED
        BY <1>1, <4>1
    <3> QED
      BY <1>1, <3>1, <3>2, <3>3
  <2>3. inbox[1] = c => Waits(c)
    BY <1>0, <1>1 DEF OnePlace
  <2> QED
    BY <1>0, <1>2, <2>1, <2>2, <2>3 DEF OnePlace
<1> QED
  BY <1>3, <1>4 DEF IInv

(* The one server that has the port answers the client it serves.           *)
LEMMA SvrSendStep ==
  ASSUME IInv, NEW s \in Servers, SvrSend(s)
  PROVE  IInv'
<1>0. TypeOK /\ OnePlace
  BY DEF IInv
<1>1. /\ svr' = [svr EXCEPT ![s] = "close"] /\ svr[s] = "send"
      /\ box' = [c \in Clients |-> IF c = sender[s] THEN Reply ELSE box[c]]
      /\ UNCHANGED <<sender, port, inbox, cl>>
  BY DEF SvrSend, SvrGoto
<1>2. TypeOK'
  BY <1>0, <1>1 DEF TypeOK
<1>3. \A q \in Servers : svr'[q] # "send"
  BY <1>0, <1>1 DEF TypeOK
<1>4. \A c \in Clients :
        IF c = sender[s] THEN cl[c] = "recv" /\ \A k \in DOMAIN inbox : inbox[k] # c
        ELSE box'[c] = box[c]
  BY <1>0, <1>1 DEF OnePlace, Waits, Serving
<1>5. OnePlace'
  BY <1>0, <1>1, <1>3, <1>4 DEF OnePlace, Waits, Serving
<1> QED
  BY <1>2, <1>5 DEF IInv

(* The socket is closed with what it has.                                   *)
LEMMA ServerEndsStep ==
  ASSUME IInv, NEW s \in Servers, SvrSendFails(s) \/ SvrClose(s) \/ SvrKilled(s)
  PROVE  IInv'
<1>0. TypeOK /\ OnePlace
  BY DEF IInv
<1>1. /\ svr' \in [Servers -> Over \cup {"bind", "recv", "send", "close"}]
      /\ svr'[s] \in Over /\ \A q \in Servers : q # s => svr'[q] = svr[q]
      /\ UNCHANGED <<sender, cl, box>>
  BY <1>0 DEF TypeOK, Over, SvrGoto, SvrSendFails, SvrClose, SvrKilled
<1>2. IF port = s THEN port' = Nobody /\ inbox' = <<>> ELSE UNCHANGED <<port, inbox>>
  BY <1>0 DEF TypeOK, SvrSendFails, SvrClose, SvrKilled
<1>3. TypeOK'
  <2>1. /\ port' \in Servers \cup {Nobody}
        /\ \A q \in Servers : port' = q <=> svr'[q] \in {"recv", "send", "close"}
    BY <1>0, <1>1, <1>2, NamesAssumption DEF TypeOK, Over
  <2>2. inbox' \in Seq(Clients \cup {Gone}) /\ Len(inbox') <= Room
    <3>1. /\ inbox \in Seq(Clients \cup {Gone}) /\ Len(inbox) <= Room
          /\ <<>> \in Seq(Clients \cup {Gone}) /\ Len(<<>>) = 0 /\ 0 <= Room
      BY <1>0, EmptyQueue, NamesAssumption DEF TypeOK
    <3>2. inbox' = inbox \/ inbox' = <<>>
      BY <1>2
    <3> QED
      BY <3>1, <3>2
  <2> QED
    BY <1>0, <1>1, <2>1, <2>2 DEF TypeOK
<1>4. OnePlace'
  <2>1. \A q \in Servers, c \in Clients : Serving(q, c)' => Serving(q, c)
    BY <1>1 DEF Serving, Over
  <2>2. inbox' = inbox \/ inbox' = <<>>
    BY <1>2
  <2>3. \A c \in Clients : Waits(c)' = Waits(c)
    BY <1>1 DEF Waits
  <2> QED
    BY <1>0, <1>1, <2>1, <2>2, <2>3, EmptyQueue DEF OnePlace
<1> QED
  BY <1>3, <1>4 DEF IInv

-----------------------------------------------------------------------------
(* The steps of a client *)

(* The socket of the client is empty, and stays or becomes so.              *)
LEMMA ClientQuiet ==
  ASSUME IInv, NEW c \in Clients, Start(c) \/ SetupFails(c) \/ Recv(c) \/ RecvFails(c)
  PROVE  IInv'
<1>0. TypeOK /\ OnePlace
  BY DEF IInv
<1>1. /\ cl' \in [Clients -> Over \cup {"send", "recv", "print", "blank"}]
      /\ box' \in [Clients -> {Nothing, Reply, Unreachable}]
      /\ \A d \in Clients : d # c => cl'[d] = cl[d] /\ box'[d] = box[d]
      /\ box'[c] = Nothing /\ cl'[c] # "recv"
      /\ UNCHANGED <<svr, sender, port, inbox>>
  BY <1>0, NamesAssumption
  DEF TypeOK, OnePlace, Over, Goto, Start, SetupFails, Recv, RecvFails
<1>2. ~Waits(c)
  BY NamesAssumption DEF Waits, Over, Start, SetupFails, Recv, RecvFails
<1>3. TypeOK'
  BY <1>0, <1>1 DEF TypeOK
<1>4. OnePlace'
  BY <1>0, <1>1, <1>2 DEF OnePlace, Waits, Serving
<1> QED
  BY <1>3, <1>4 DEF IInv

(* A client that has not asked has nothing on its way.                      *)
LEMMA SendStep ==
  ASSUME IInv, NEW c \in Clients, Send(c)
  PROVE  IInv'
<1>0. TypeOK /\ OnePlace /\ inbox \in Seq(Clients \cup {Gone}) /\ Len(inbox) \in Nat
  BY DEF IInv, TypeOK
<1>1. /\ box[c] = Nothing /\ \A s \in Servers : ~Serving(s, c)
      /\ \A k \in DOMAIN inbox : inbox[k] # c
  BY <1>0 DEF Send, OnePlace, Waits
<1>2. /\ cl' = [cl EXCEPT ![c] = "recv"] /\ UNCHANGED <<svr, sender, port>>
      /\ box' = box \/ (port = Nobody /\ box' = [box EXCEPT ![c] = Unreachable])
  BY DEF Send, Goto
<1>3. \/ inbox' = inbox
      \/ /\ port # Nobody /\ Len(inbox) < Room
         /\ inbox' \in Seq(Clients \cup {Gone}) /\ Len(inbox') = Len(inbox) + 1
         /\ DOMAIN inbox' = DOMAIN inbox \cup {Len(inbox) + 1}
         /\ Len(inbox) + 1 \notin DOMAIN inbox
         /\ \A k \in DOMAIN inbox : inbox'[k] = inbox[k]
         /\ inbox'[Len(inbox) + 1] = c
  <2>1. CASE port # Nobody /\ Len(inbox) < Room
    <3>1. inbox' = Append(inbox, c)
      BY <2>1 DEF Send
    <3> QED
      BY <1>0, <2>1, <3>1, QueueAppend
  <2> QED
    BY <2>1 DEF Send
<1>4. TypeOK'
  <2>1. inbox' \in Seq(Clients \cup {Gone}) /\ Len(inbox') <= Room
    BY <1>0, <1>3, NamesAssumption DEF TypeOK
  <2> QED
    BY <1>0, <1>2, <2>1 DEF TypeOK
<1>5. OnePlace'
  <2> SUFFICES ASSUME NEW d \in Clients
               PROVE  /\ \A k \in DOMAIN inbox' : inbox'[k] = d =>
                           /\ Waits(d)'
                           /\ \A s \in Servers : ~Serving(s, d)'
                           /\ \A l \in DOMAIN inbox' : inbox'[l] = d => l = k
                      /\ \A s \in Servers : Serving(s, d)' => Waits(d)'
                      /\ box'[d] # Nothing => cl'[d] = "recv"
    BY DEF OnePlace
  <2>0. \A s \in Servers : Serving(s, d)' = Serving(s, d)
    BY <1>2 DEF Serving
  <2>1. CASE d = c
    <3>1. ASSUME NEW k \in DOMAIN inbox', inbox'[k] = c
          PROVE  k = Len(inbox) + 1 /\ Waits(c)'
      <4>1. k = Len(inbox) + 1 /\ port # Nobody
        BY <1>1, <1>3, <3>1
      <4> QED
        BY <1>0, <1>1, <1>2, <4>1 DEF TypeOK, Waits
    <3> QED
      BY <1>0, <1>1, <1>2, <2>0, <2>1, <3>1 DEF TypeOK
  <2>2. CASE d # c
    <3>1. /\ Waits(d)' = Waits(d) /\ box'[d] = box[d] /\ cl'[d] = cl[d]
          /\ \A k \in DOMAIN inbox' : inbox'[k] = d => k \in DOMAIN inbox /\ inbox[k] = d
      BY <1>0, <1>2, <1>3, <2>2 DEF TypeOK, Waits
    <3> QED
      BY <1>0, <2>0, <3>1 DEF OnePlace
  <2> QED
    BY <2>1, <2>2
<1> QED
  BY <1>4, <1>5 DEF IInv

(* A client that ends leaves no address behind that anybody will have.      *)
LEMMA LeavesStep ==
  ASSUME IInv, NEW c \in Clients, Close(c) \/ Killed(c)
  PROVE  IInv'
<1>0. /\ TypeOK /\ OnePlace
      /\ inbox \in Seq(Clients \cup {Gone}) /\ Len(inbox) <= Room
      /\ \A k \in DOMAIN inbox : inbox[k] \in Clients \cup {Gone}
  BY DEF IInv, TypeOK
<1>1. /\ box' = [box EXCEPT ![c] = Nothing]
      /\ inbox' = [k \in DOMAIN inbox |-> IF inbox[k] = c THEN Gone ELSE inbox[k]]
      /\ sender' = [s \in Servers |-> IF sender[s] = c THEN Gone ELSE sender[s]]
      /\ UNCHANGED <<svr, port>>
  BY DEF Close, Killed, Leaves
<1>2. /\ cl' \in [Clients -> Over \cup {"send", "recv", "print", "blank"}]
      /\ \A d \in Clients : d # c => cl'[d] = cl[d]
  BY <1>0 DEF TypeOK, Over, Goto, Close, Killed
<1>3. /\ inbox' \in Seq(Clients \cup {Gone})
      /\ Len(inbox') = Len(inbox) /\ DOMAIN inbox' = DOMAIN inbox
  <2>1. inbox' = [k \in DOMAIN inbox |-> inbox'[k]]
    BY <1>1
  <2>2. \A k \in DOMAIN inbox : inbox'[k] \in Clients \cup {Gone}
    BY <1>0, <1>1
  <2> QED
    BY <1>0, <2>1, <2>2, QueueMapped
<1>4. TypeOK'
  <2>1. /\ sender' \in [Servers -> Clients \cup {Gone, Nobody}]
        /\ box' \in [Clients -> {Nothing, Reply, Unreachable}]
    BY <1>0, <1>1 DEF TypeOK
  <2> QED
    BY <1>0, <1>1, <1>2, <1>3, <2>1 DEF TypeOK
<1>5. OnePlace'
  <2>1. c # Gone
    BY NamesAssumption
  <2>2. /\ \A k \in DOMAIN inbox' : inbox'[k] # c
        /\ \A s \in Servers : ~Serving(s, c)'
        /\ box'[c] = Nothing
    BY <1>0, <1>1, <2>1 DEF TypeOK, Serving
  <2>3. ASSUME NEW d \in Clients, d # c
        PROVE  /\ Waits(d)' = Waits(d) /\ box'[d] = box[d] /\ cl'[d] = cl[d]
               /\ \A s \in Servers : Serving(s, d)' => Serving(s, d)
               /\ \A k \in DOMAIN inbox' : inbox'[k] = d => inbox[k] = d
    <3>1. d # Gone
      BY NamesAssumption
    <3> QED
      BY <1>0, <1>1, <1>2, <2>3, <3>1 DEF TypeOK, Waits, Serving
  <2> QED
    BY <1>0, <1>3, <2>2, <2>3 DEF OnePlace
<1> QED
  BY <1>4, <1>5 DEF IInv

LEMMA Inductive == IInv /\ [Next]_vars => IInv'
<1> SUFFICES ASSUME IInv, [Next]_vars PROVE IInv'
  OBVIOUS
<1>1. ASSUME NEW s \in Servers, SvrStep(s) \/ SvrSetup(s) \/ SvrKilled(s) PROVE IInv'
  BY <1>1, ServerQuiet, SvrRecvStep, SvrSendStep, ServerEndsStep DEF SvrStep
<1>2. ASSUME NEW c \in Clients, ClientStep(c) \/ Start(c) \/ Killed(c) PROVE IInv'
  BY <1>2, ClientQuiet, SendStep, LeavesStep DEF ClientStep
<1>3. CASE UNCHANGED vars
  BY <1>3 DEF vars, IInv, TypeOK, OnePlace, Waits, Serving
<1> QED
  BY <1>1, <1>2, <1>3 DEF Next, Environment

(* Every variable keeps its type: one process has the port, exactly while   *)
(* it uses its socket, which never holds more than fits.                    *)
THEOREM TypeCorrect == Spec => []TypeOK
<1>1. IInv => TypeOK
  BY DEF IInv
<1> QED
  BY <1>1, Initially, Inductive, PTL DEF Spec

-----------------------------------------------------------------------------
(* The refinement *)

LEMMA SamePhase ==
  ASSUME NEW d \in Clients, cl'[d] = cl[d],
         cl[d] = "recv" => (box'[d] = Reply <=> box[d] = Reply)
  PROVE  Phase(d)' = Phase(d)
BY DEF Phase

LEMMA OneMoves ==
  ASSUME NEW c \in Clients, \A d \in Clients \ {c} : Phase(d)' = Phase(d)
  PROVE  RR!Become(c, Phase(c)')
BY DEF RR!Become

LEMMA NobodyMoves ==
  ASSUME \A d \in Clients : Phase(d)' = Phase(d)
  PROVE  UNCHANGED [c \in Clients |-> Phase(c)]
OBVIOUS

(* A step of client c is a step of its session.                             *)
LEMMA ClientMoves ==
  ASSUME IInv, NEW c \in Clients, ClientStep(c) \/ Start(c) \/ Killed(c)
  PROVE  [RR!Next]_[d \in Clients |-> Phase(d)]
<1> DEFINE Bar == [d \in Clients |-> Phase(d)]
<1>0. TypeOK /\ OnePlace
  BY DEF IInv
<1>1. ASSUME NEW d \in Clients \ {c} PROVE Phase(d)' = Phase(d)
  <2>1. cl'[d] = cl[d] /\ box'[d] = box[d]
    BY <1>0 DEF TypeOK, ClientStep, Start, SetupFails, Send, Recv, RecvFails,
                Close, Killed, Leaves, Goto
  <2> QED
    BY <2>1, SamePhase
<1>2. RR!Become(c, Phase(c)')
  BY <1>1, OneMoves
<1>3. ASSUME Phase(c)' = Phase(c) PROVE UNCHANGED Bar
  BY <1>1, <1>3, NobodyMoves
<1>4. CASE Start(c)
  <2>1. Phase(c) \in RR!Over /\ Phase(c)' = "out"
    BY <1>0, <1>4 DEF TypeOK, Start, Goto, Phase, Over, RR!Over
  <2> QED
    BY <1>2, <2>1 DEF RR!Start, RR!Next
<1>5. CASE SetupFails(c)
  <2>1. Phase(c) = "out" /\ Phase(c)' = "failed"
    BY <1>0, <1>5 DEF TypeOK, SetupFails, Goto, Phase, Over
  <2> QED
    BY <1>2, <2>1 DEF RR!GiveUp, RR!Next
<1>6. CASE Send(c)
  <2>1. box'[c] # Reply /\ cl'[c] = "recv"
    BY <1>0, <1>6, NamesAssumption DEF TypeOK, OnePlace, Send, Goto
  <2>2. Phase(c) = "out" /\ Phase(c)' = "asked"
    BY <1>6, <2>1 DEF Send, Phase, Over
  <2> QED
    BY <1>2, <2>2 DEF RR!Ask, RR!Next
<1>7. CASE Recv(c)
  <2>1. Phase(c) = "answered" /\ Phase(c)' = "got"
    BY <1>0, <1>7 DEF TypeOK, Recv, Goto, Phase, Over
  <2> QED
    BY <1>2, <2>1 DEF RR!Receive, RR!Next
<1>8. CASE RecvFails(c)
  <2>1. Phase(c) = "asked" /\ Phase(c)' = "failed"
    BY <1>0, <1>8, NamesAssumption DEF TypeOK, RecvFails, Goto, Phase, Over
  <2> QED
    BY <1>2, <2>1 DEF RR!GiveUp, RR!Next
<1>9. CASE Close(c)
  <2>1. \/ Phase(c) = "got" /\ Phase(c)' = "ok"
        \/ Phase(c) = "failed" /\ Phase(c)' = "failed"
    BY <1>0, <1>9 DEF TypeOK, Close, Goto, Phase, Over
  <2> QED
    BY <1>2, <1>3, <2>1 DEF RR!Finish, RR!Next
<1>10. CASE Killed(c)
  <2>1. Phase(c) \in RR!Underway /\ Phase(c)' = "killed"
    BY <1>0, <1>10 DEF TypeOK, Killed, Goto, Phase, Over, RR!Underway
  <2> QED
    BY <1>2, <2>1 DEF RR!Killed, RR!Next
<1> QED
  BY <1>4, <1>5, <1>6, <1>7, <1>8, <1>9, <1>10 DEF ClientStep

(* The answer is the one step of a server that a session sees.              *)
LEMMA AnswerMoves ==
  ASSUME IInv, NEW s \in Servers, SvrSend(s)
  PROVE  [RR!Next]_[d \in Clients |-> Phase(d)]
<1> DEFINE Bar == [d \in Clients |-> Phase(d)]
<1>0. TypeOK /\ OnePlace
  BY DEF IInv
<1>1. \A d \in Clients : d # sender[s] => Phase(d)' = Phase(d)
  <2>1. \A d \in Clients : d # sender[s] => cl'[d] = cl[d] /\ box'[d] = box[d]
    BY <1>0 DEF TypeOK, SvrSend
  <2> QED
    BY <2>1, SamePhase
<1>2. CASE sender[s] \notin Clients
  <2>1. UNCHANGED Bar
    BY <1>1, <1>2, NobodyMoves
  <2> QED
    BY <2>1
<1>3. CASE sender[s] \in Clients
  <2>1. PICK c \in Clients : c = sender[s]
    BY <1>3
  <2>2. cl[c] = "recv" /\ box[c] = Nothing /\ cl'[c] = "recv" /\ box'[c] = Reply
    BY <1>0, <2>1 DEF TypeOK, OnePlace, Waits, Serving, SvrSend
  <2>3. Phase(c) = "asked" /\ Phase(c)' = "answered"
    BY <2>2, NamesAssumption DEF Phase, Over
  <2>4. RR!Become(c, Phase(c)')
    BY <1>1, <2>1, OneMoves
  <2> QED
    BY <2>3, <2>4 DEF RR!Answer, RR!Next
<1> QED
  BY <1>2, <1>3

LEMMA StepImplements ==
  ASSUME IInv, [Next]_vars
  PROVE  [RR!Next]_[c \in Clients |-> Phase(c)]
<1>1. CASE UNCHANGED <<cl, box>>
  <2>1. UNCHANGED [c \in Clients |-> Phase(c)]
    BY <1>1, SamePhase, NobodyMoves
  <2> QED
    BY <2>1
<1>2. ASSUME NEW s \in Servers, SvrStep(s) \/ SvrSetup(s) \/ SvrKilled(s)
      PROVE  UNCHANGED <<cl, box>> \/ SvrSend(s)
  BY <1>2 DEF SvrStep, SvrSetup, SvrKilled, Bind, BindFails, SvrRecv, SvrSendFails, SvrClose
<1>3. CASE UNCHANGED vars
  BY <1>1, <1>3 DEF vars
<1> QED
  BY <1>1, <1>2, <1>3, ClientMoves, AnswerMoves DEF Next, Environment

(* Without timeouts, checks or acknowledgements the programs still keep the *)
(* promise of RequestReply to any number of clients, also when servers come *)
(* and go: one answer at most to one datagram, and none that is lost.       *)
THEOREM ImplementsRequestReply == Spec => Session
<1>1. Init => RR!Init
  BY DEF Init, RR!Init, Phase, Over
<1>2. IInv /\ [Next]_vars => [RR!Next]_[c \in Clients |-> Phase(c)]
  BY StepImplements
<1> QED
  BY <1>1, <1>2, Initially, Inductive, PTL DEF Spec, Session, RR!Spec

-----------------------------------------------------------------------------
(* A client whose datagram is nowhere keeps waiting: a server answers only  *)
(* what it has taken from its socket, and only the client itself puts its   *)
(* address there.                                                           *)
LEMMA LostStays ==
  ASSUME IInv, [Next]_vars, NEW c \in Clients, Lost(c)
  PROVE  Lost(c)' \/ cl'[c] = "killed"
<1>0. TypeOK /\ inbox \in Seq(Clients \cup {Gone})
  BY DEF IInv, TypeOK
<1>1. ASSUME NEW s \in Servers,
             \/ SvrSetup(s) \/ Bind(s) \/ BindFails(s)
             \/ SvrSendFails(s) \/ SvrClose(s) \/ SvrKilled(s)
      PROVE  Lost(c)'
  <2>1. /\ UNCHANGED <<cl, box>> /\ inbox' \in {inbox, <<>>}
        /\ \A q \in Servers : svr'[q] = "send" => svr[q] = "send" /\ sender'[q] = sender[q]
    BY <1>0, <1>1 DEF TypeOK, Over, SvrGoto, SvrSetup, Bind, BindFails,
                      SvrSendFails, SvrClose, SvrKilled
  <2> QED
    BY <2>1, EmptyQueue DEF Lost
<1>2. ASSUME NEW s \in Servers, SvrRecv(s) PROVE Lost(c)'
  <2>1. /\ Head(inbox) = inbox[1] /\ 1 \in DOMAIN inbox
        /\ \A k \in DOMAIN inbox' : k + 1 \in DOMAIN inbox /\ inbox'[k] = inbox[k + 1]
    BY <1>0, <1>2, QueueTail DEF SvrRecv
  <2>2. UNCHANGED <<cl, box>> /\ sender'[s] # c
        /\ \A q \in Servers : q # s => svr'[q] = svr[q] /\ sender'[q] = sender[q]
    BY <1>0, <1>2, <2>1 DEF TypeOK, SvrRecv, SvrGoto, Lost
  <2> QED
    BY <2>1, <2>2 DEF Lost
<1>3. ASSUME NEW s \in Servers, SvrSend(s) PROVE Lost(c)'
  BY <1>0, <1>3 DEF TypeOK, SvrSend, SvrGoto, Lost
<1>4. ASSUME NEW d \in Clients, Send(d) PROVE Lost(c)'
  <2>1. d # c
    BY <1>4 DEF Send, Lost
  <2>2. /\ cl'[c] = cl[c] /\ box'[c] = box[c] /\ UNCHANGED <<svr, sender>>
        /\ inbox' \in {inbox, Append(inbox, d)}
    BY <1>0, <1>4, <2>1 DEF TypeOK, Send, Goto
  <2>3. \A k \in DOMAIN inbox' : inbox'[k] # c
    BY <1>0, <2>1, <2>2, QueueAppend DEF Lost
  <2> QED
    BY <2>2, <2>3 DEF Lost
<1>5. ASSUME NEW d \in Clients, Start(d) \/ SetupFails(d) \/ Recv(d) \/ RecvFails(d)
      PROVE  Lost(c)'
  <2>1. d # c
    BY <1>5, NamesAssumption DEF Start, SetupFails, Recv, RecvFails, Over, Lost
  <2>2. cl'[c] = cl[c] /\ box'[c] = box[c] /\ UNCHANGED <<svr, sender, inbox>>
    BY <1>0, <1>5, <2>1 DEF TypeOK, Start, SetupFails, Recv, RecvFails, Goto
  <2> QED
    BY <2>2 DEF Lost
<1>6. ASSUME NEW d \in Clients, Close(d) \/ Killed(d)
      PROVE  Lost(c)' \/ cl'[c] = "killed"
  <2>1. CASE d = c
    BY <1>0, <1>6, <2>1 DEF TypeOK, Close, Killed, Goto, Lost
  <2>2. CASE d # c
    <3>1. cl'[c] = cl[c] /\ box'[c] = box[c] /\ UNCHANGED svr
      BY <1>0, <1>6, <2>2 DEF TypeOK, Close, Killed, Leaves, Goto
    <3>2. /\ DOMAIN inbox' = DOMAIN inbox
          /\ \A k \in DOMAIN inbox' : inbox'[k] \in {inbox[k], Gone}
          /\ \A s \in Servers : sender'[s] \in {sender[s], Gone}
      BY <1>6 DEF Close, Killed, Leaves
    <3> QED
      BY <3>1, <3>2, NamesAssumption DEF Lost
  <2> QED
    BY <2>1, <2>2
<1>7. CASE UNCHANGED vars
  BY <1>7 DEF vars, Lost
<1> QED
  BY <1>1, <1>2, <1>3, <1>4, <1>5, <1>6, <1>7
  DEF Next, Environment, SvrStep, ClientStep

(* Who is not answered by the server it asked is never answered, by however *)
(* many servers are started after it.                                       *)
THEOREM LostIsForGood == Spec => LostForGood
<1>1. IInv /\ [Next]_vars => [\A c \in Clients : Lost(c) => Lost(c)' \/ cl'[c] = "killed"]_vars
  BY LostStays
<1> QED
  BY <1>1, Initially, Inductive, PTL DEF Spec, LostForGood

-----------------------------------------------------------------------------
(* What can be proved of FirstIsServed and ServerEnds: the datagram that is *)
(* first in the socket stays first until it is read, and its sender is the  *)
(* one that is answered.                                                    *)

(* Client c is the next that server s answers, or has been answered.        *)
Due(c, s) ==
  /\ cl[c] = "recv"
  /\ \/ svr[s] = "recv" /\ inbox # <<>> /\ Head(inbox) = c
     \/ Serving(s, c)
     \/ box[c] = Reply

FirstKept ==
  \A c \in Clients, s \in Servers : Due(c, s) =>
    Due(c, s)' \/ cl'[c] # "recv" \/ svr'[s] \in {"killed", "failed"}

(* Server s has a datagram to read, or has read the one that it reads.      *)
Ending(s) == (svr[s] = "recv" /\ inbox # <<>>) \/ svr[s] \in {"send", "close"}

EndingKept == \A s \in Servers : Ending(s) => Ending(s)' \/ port' # s

LEMMA FirstStays ==
  ASSUME IInv, NEW c \in Clients, ClientStep(c) \/ Start(c) \/ Killed(c), inbox # <<>>
  PROVE  /\ inbox' # <<>>
         /\ \A d \in Clients : d # c /\ Head(inbox) = d => Head(inbox') = d
<1>0. TypeOK /\ inbox \in Seq(Clients \cup {Gone})
  BY DEF IInv, TypeOK
<1>1. Head(inbox) = inbox[1] /\ 1 \in DOMAIN inbox
  BY <1>0, QueueTail
<1>2. CASE Close(c) \/ Killed(c)
  <2>1. inbox' = [k \in DOMAIN inbox |-> IF inbox[k] = c THEN Gone ELSE inbox[k]]
    BY <1>2 DEF Close, Killed, Leaves
  <2>2. /\ inbox' = [k \in DOMAIN inbox |-> inbox'[k]]
        /\ \A k \in DOMAIN inbox : inbox'[k] \in Clients \cup {Gone}
    BY <1>0, <2>1
  <2>3. inbox' \in Seq(Clients \cup {Gone}) /\ DOMAIN inbox' = DOMAIN inbox
    BY <1>0, <2>2, QueueMapped
  <2>4. inbox' # <<>>
    BY <1>1, <2>3, EmptyQueue
  <2>5. Head(inbox') = inbox'[1]
    BY <2>3, <2>4, QueueTail
  <2> QED
    BY <1>1, <2>1, <2>4, <2>5
<1>3. CASE Send(c)
  <2>1. inbox' = inbox \/ inbox' = Append(inbox, c)
    BY <1>3 DEF Send
  <2>2. /\ Append(inbox, c) # <<>>
        /\ Head(Append(inbox, c)) = Head(inbox)
    <3>1. /\ Append(inbox, c) \in Seq(Clients \cup {Gone})
          /\ 1 \in DOMAIN Append(inbox, c) /\ Append(inbox, c)[1] = inbox[1]
      BY <1>0, <1>1, QueueAppend
    <3>2. Append(inbox, c) # <<>>
      BY <3>1, EmptyQueue
    <3> QED
      BY <1>1, <3>1, <3>2, QueueTail
  <2> QED
    BY <2>1, <2>2
<1>4. CASE SetupFails(c) \/ Recv(c) \/ RecvFails(c) \/ Start(c)
  BY <1>4 DEF SetupFails, Recv, RecvFails, Start
<1> QED
  BY <1>2, <1>3, <1>4 DEF ClientStep

(* The one server with the port is the only one that has calls to make      *)
(* between bind and the end of its run.                                     *)
LEMMA OnlyOneListens ==
  ASSUME TypeOK, NEW s \in Servers, svr[s] \in {"recv", "send", "close"}, NEW q \in Servers,
         \/ Bind(q) \/ SvrRecv(q) \/ SvrSend(q) \/ SvrSendFails(q) \/ SvrClose(q)
  PROVE  q = s
BY NamesAssumption DEF TypeOK, Bind, SvrRecv, SvrSend, SvrSendFails, SvrClose

LEMMA DueStays ==
  ASSUME IInv, [Next]_vars, NEW c \in Clients, NEW s \in Servers, Due(c, s)
  PROVE  Due(c, s)' \/ cl'[c] # "recv" \/ svr'[s] \in {"killed", "failed"}
<1>0. TypeOK /\ OnePlace /\ inbox \in Seq(Clients \cup {Gone}) /\ cl[c] = "recv"
  BY DEF IInv, TypeOK, Due
<1>1. CASE box[c] = Reply
  <2>1. ASSUME NEW d \in Clients, ClientStep(d) \/ Start(d) \/ Killed(d)
        PROVE  cl'[c] # "recv" \/ (cl'[c] = "recv" /\ box'[c] = Reply)
    <3>1. CASE d = c
      BY <1>0, <1>1, <2>1, <3>1, NamesAssumption
      DEF TypeOK, ClientStep, SetupFails, Send, Recv, RecvFails, Close, Killed, Start, Goto, Over
    <3>2. CASE d # c
      BY <1>0, <1>1, <2>1, <3>2
      DEF TypeOK, ClientStep, SetupFails, Send, Recv, RecvFails, Close, Killed, Start, Goto, Leaves
    <3> QED
      BY <3>1, <3>2
  <2>2. ASSUME NEW q \in Servers, SvrStep(q) \/ SvrSetup(q) \/ SvrKilled(q)
        PROVE  cl'[c] = "recv" /\ box'[c] = Reply
    BY <1>0, <1>1, <2>2
    DEF TypeOK, SvrStep, SvrSetup, SvrKilled, Bind, BindFails, SvrRecv, SvrSend, SvrSendFails, SvrClose
  <2>3. CASE UNCHANGED vars
    BY <1>0, <1>1, <2>3 DEF vars, Due
  <2> QED
    BY <2>1, <2>2, <2>3 DEF Next, Environment, Due
<1>2. CASE svr[s] = "recv" /\ inbox # <<>> /\ Head(inbox) = c
  <2>1. ASSUME NEW d \in Clients, ClientStep(d) \/ Start(d) \/ Killed(d)
        PROVE  cl'[c] # "recv" \/ Due(c, s)'
    <3>1. svr' = svr
      BY <2>1 DEF ClientStep, SetupFails, Send, Recv, RecvFails, Close, Killed, Leaves, Start
    <3>2. CASE d = c
      BY <1>0, <2>1, <3>2
      DEF TypeOK, ClientStep, SetupFails, Send, Recv, RecvFails, Close, Killed, Start, Goto, Over
    <3>3. CASE d # c
      BY <1>2, <2>1, <3>1, <3>3, FirstStays DEF Due
    <3> QED
      BY <3>2, <3>3
  <2>2. ASSUME SvrRecv(s) PROVE Due(c, s)'
    BY <1>0, <1>2, <2>2 DEF TypeOK, SvrRecv, SvrGoto, Due, Serving
  <2>3. ASSUME NEW q \in Servers, q # s, SvrStep(q) \/ SvrSetup(q) \/ SvrKilled(q)
        PROVE  Due(c, s)'
    <3>1. BindFails(q) \/ SvrSetup(q) \/ SvrKilled(q)
      BY <1>0, <1>2, <2>3, OnlyOneListens DEF SvrStep
    <3>2. port # q
      BY <1>0, <1>2, <2>3 DEF TypeOK
    <3>3. svr'[s] = svr[s] /\ UNCHANGED <<inbox, cl, box>>
      BY <1>0, <2>3, <3>1, <3>2 DEF TypeOK, BindFails, SvrSetup, SvrKilled, SvrGoto
    <3> QED
      BY <1>0, <1>2, <3>3 DEF Due
  <2>4. ASSUME SvrStep(s) \/ SvrSetup(s) \/ SvrKilled(s)
        PROVE  SvrRecv(s) \/ svr'[s] = "killed"
    BY <1>0, <1>2, <2>4
    DEF TypeOK, SvrStep, SvrSetup, SvrKilled, Bind, BindFails, SvrSend, SvrSendFails, SvrClose,
        SvrGoto, Over
  <2>5. CASE UNCHANGED vars
    BY <1>2, <2>5 DEF vars, Due, Serving
  <2> QED
    BY <2>1, <2>2, <2>3, <2>4, <2>5 DEF Next, Environment
<1>3. CASE Serving(s, c)
  <2>1. ASSUME NEW d \in Clients, ClientStep(d) \/ Start(d) \/ Killed(d)
        PROVE  cl'[c] # "recv" \/ Due(c, s)'
    <3>1. CASE d = c
      BY <1>0, <2>1, <3>1
      DEF TypeOK, ClientStep, SetupFails, Send, Recv, RecvFails, Close, Killed, Start, Goto, Over
    <3>2. CASE d # c
      <4>1. /\ svr' = svr
            /\ sender' = sender \/ sender' = [q \in Servers |-> IF sender[q] = d THEN Gone ELSE sender[q]]
        BY <2>1 DEF ClientStep, SetupFails, Send, Recv, RecvFails, Close, Killed, Leaves, Start
      <4>2. Serving(s, c)'
        BY <1>3, <3>2, <4>1 DEF Serving
      <4> QED
        BY <4>2 DEF Due
    <3> QED
      BY <3>1, <3>2
  <2>2. ASSUME NEW q \in Servers, q # s, SvrStep(q) \/ SvrSetup(q) \/ SvrKilled(q)
        PROVE  Due(c, s)'
    <3>1. BindFails(q) \/ SvrSetup(q) \/ SvrKilled(q)
      BY <1>0, <1>3, <2>2, OnlyOneListens DEF SvrStep, Serving
    <3>2. svr'[s] = svr[s] /\ sender'[s] = sender[s] /\ cl' = cl
      BY <1>0, <2>2, <3>1 DEF TypeOK, BindFails, SvrSetup, SvrKilled, SvrGoto
    <3> QED
      BY <1>0, <1>3, <3>2 DEF Due, Serving
  <2>3. ASSUME SvrStep(s) \/ SvrSetup(s) \/ SvrKilled(s)
        PROVE  SvrSend(s) \/ svr'[s] \in {"killed", "failed"}
    BY <1>0, <1>3, <2>3
    DEF TypeOK, Serving, SvrStep, SvrSetup, SvrKilled, Bind, BindFails, SvrRecv, SvrSendFails,
        SvrClose, SvrGoto, Over
  <2>4. ASSUME SvrSend(s) PROVE Due(c, s)'
    BY <1>0, <1>3, <2>4 DEF SvrSend, Serving, Due
  <2>5. CASE UNCHANGED vars
    BY <1>0, <1>3, <2>5 DEF vars, Due, Serving
  <2> QED
    BY <2>1, <2>2, <2>3, <2>4, <2>5 DEF Next, Environment
<1> QED
  BY <1>1, <1>2, <1>3 DEF Due

(* The safety half of FirstIsServed: who is first in the socket of a server *)
(* that listens remains first, is the one whose address the server answers  *)
(* and finds the answer, or the server is killed or cannot send.            *)
THEOREM FirstStaysFirst == Spec => [][FirstKept]_vars
<1>1. IInv /\ [Next]_vars => [FirstKept]_vars
  BY DueStays DEF FirstKept
<1> QED
  BY <1>1, Initially, Inductive, PTL DEF Spec

LEMMA EndingStays ==
  ASSUME IInv, [Next]_vars, NEW s \in Servers, Ending(s)
  PROVE  Ending(s)' \/ port' # s
<1>0. /\ TypeOK /\ svr[s] \in {"recv", "send", "close"} /\ port = s
      /\ svr[s] = "recv" => inbox # <<>>
  BY DEF IInv, TypeOK, Ending
<1>1. ASSUME NEW c \in Clients, ClientStep(c) \/ Start(c) \/ Killed(c)
      PROVE  Ending(s)'
  <2>1. svr' = svr
    BY <1>1 DEF ClientStep, SetupFails, Send, Recv, RecvFails, Close, Killed, Leaves, Start
  <2>2. inbox # <<>> => inbox' # <<>>
    BY <1>1, FirstStays
  <2> QED
    BY <1>0, <2>1, <2>2 DEF Ending
<1>2. ASSUME NEW q \in Servers, q # s, SvrStep(q) \/ SvrSetup(q) \/ SvrKilled(q)
      PROVE  Ending(s)'
  <2>1. BindFails(q) \/ SvrSetup(q) \/ SvrKilled(q)
    BY <1>0, <1>2, OnlyOneListens DEF SvrStep
  <2>2. svr'[s] = svr[s] /\ inbox' = inbox
    BY <1>0, <1>2, <2>1 DEF TypeOK, BindFails, SvrSetup, SvrKilled, SvrGoto
  <2> QED
    BY <1>0, <2>2 DEF Ending
<1>3. CASE SvrStep(s) \/ SvrSetup(s) \/ SvrKilled(s)
  <2>1. CASE SvrRecv(s) \/ SvrSend(s)
    BY <1>0, <2>1 DEF TypeOK, SvrRecv, SvrSend, SvrGoto, Ending
  <2>2. CASE SvrSendFails(s) \/ SvrClose(s) \/ SvrKilled(s)
    BY <1>0, <2>2, NamesAssumption DEF SvrSendFails, SvrClose, SvrKilled
  <2> QED
    BY <1>0, <1>3, <2>1, <2>2 DEF SvrStep, SvrSetup, Bind, BindFails, Over
<1>4. CASE UNCHANGED vars
  BY <1>0, <1>4 DEF vars, Ending
<1> QED
  BY <1>1, <1>2, <1>3, <1>4 DEF Next, Environment

(* The safety half of ServerEnds: a server that has something to read keeps *)
(* it, whoever closes or is killed, and has no way back to an empty socket  *)
(* but through the end of its run.                                          *)
THEOREM EndsOnceItHasRead == Spec => [][EndingKept]_vars
<1>1. IInv /\ [Next]_vars => [EndingKept]_vars
  BY EndingStays DEF EndingKept
<1> QED
  BY <1>1, Initially, Inductive, PTL DEF Spec
=============================================================================
