-------------------------- MODULE UdpUnicastProofs --------------------------
(***************************************************************************)
(* Proofs about UdpUnicast for any number of clients and any room in the   *)
(* server's socket: a client's question is in at most one place, so that   *)
(* the one thing its recvfrom can get is the answer to it.                 *)
(***************************************************************************)
EXTENDS UdpUnicast, SequenceTheorems, TLAPS

(* The question of c is the k-th datagram in the server's socket: it is     *)
(* what c waits on, and it is nowhere else.                                 *)
InInboxOnly(c, k) ==
  /\ cl[c] = "wait" /\ inbox[k].text = asked[c] /\ events[c] = <<>>
  /\ ~(srv = "send" /\ from = c)
  /\ \A l \in DOMAIN inbox : inbox[l].from = c => l = k

OnePlace ==
  \A c \in Clients :
    /\ \A k \in DOMAIN inbox : inbox[k].from = c => InInboxOnly(c, k)
    /\ srv = "send" /\ from = c =>
         cl[c] = "wait" /\ buffer = asked[c] /\ events[c] = <<>>

OffIsEmpty == srv = "off" => inbox = <<>>

IInv == TypeOK /\ OnePlace /\ OffIsEmpty /\ AnswersOwnQuestion

(* What happens to a queue at its ends, and to one whose elements change.   *)
LEMMA QueueTail ==
  ASSUME NEW S, NEW s \in Seq(S), s # <<>>
  PROVE  /\ Head(s) = s[1] /\ Head(s) \in S /\ 1 \in DOMAIN s
         /\ Tail(s) \in Seq(S) /\ Len(Tail(s)) = Len(s) - 1
         /\ \A k \in DOMAIN Tail(s) : k + 1 \in DOMAIN s /\ Tail(s)[k] = s[k + 1]
         /\ \A k \in DOMAIN s : k # 1 => k - 1 \in DOMAIN Tail(s) /\ Tail(s)[k - 1] = s[k]
  OBVIOUS

LEMMA QueueAppend ==
  ASSUME NEW S, NEW s \in Seq(S), NEW e \in S
  PROVE  /\ Append(s, e) \in Seq(S) /\ Len(Append(s, e)) = Len(s) + 1
         /\ DOMAIN Append(s, e) = DOMAIN s \cup {Len(s) + 1}
         /\ Len(s) + 1 \notin DOMAIN s
         /\ \A k \in DOMAIN s : Append(s, e)[k] = s[k]
         /\ Append(s, e)[Len(s) + 1] = e
  OBVIOUS

LEMMA QueueOfOne ==
  ASSUME NEW S, NEW e \in S
  PROVE  Append(<<>>, e) = <<e>> /\ <<e>> \in Seq(S)
  OBVIOUS

LEMMA QueueMapped ==
  ASSUME NEW S, NEW s \in Seq(S), NEW t, t = [k \in DOMAIN s |-> t[k]],
         \A k \in DOMAIN s : t[k] \in S
  PROVE  t \in Seq(S) /\ Len(t) = Len(s) /\ DOMAIN t = DOMAIN s
<1>1. Len(s) \in Nat /\ DOMAIN s = 1 .. Len(s)
  OBVIOUS
<1>2. t \in [1 .. Len(s) -> S]
  BY <1>1
<1>3. t \in Seq(S)
  BY <1>1, <1>2, SeqDef
<1>4. DOMAIN t = 1 .. Len(t) /\ Len(t) \in Nat
  BY <1>3
<1> QED
  BY <1>1, <1>2, <1>3, <1>4

LEMMA EmptyQueue == \A S : <<>> \in Seq(S) /\ Len(<<>>) = 0 /\ DOMAIN <<>> = {}
  OBVIOUS

LEMMA Initially == Init => IInv
<1> SUFFICES ASSUME Init PROVE IInv
  OBVIOUS
<1> USE NamesAssumption DEF Init
<1>1. TypeOK
  <2>1. inbox \in Seq(Datagrams) /\ Len(inbox) <= Room
    BY EmptyQueue
  <2>2. events \in [Clients -> Seq(Texts \cup {Unreachable})]
    BY EmptyQueue
  <2> QED
    BY <2>1, <2>2 DEF TypeOK, MaybeText
<1>2. OnePlace /\ OffIsEmpty /\ AnswersOwnQuestion
  BY EmptyQueue DEF OnePlace, OffIsEmpty, AnswersOwnQuestion
<1> QED
  BY <1>1, <1>2 DEF IInv

(* The actions that end a run of a client. *)
LEMMA ClientExitStep ==
  ASSUME IInv, NEW c \in Clients, ClientExit(c)
  PROVE  IInv'
<1> USE DEF ClientExit
<1>1. /\ inbox \in Seq(Datagrams) /\ Len(inbox) <= Room
      /\ \A k \in DOMAIN inbox : inbox[k] \in Datagrams
  BY DEF IInv, TypeOK
<1>2. \A k \in DOMAIN inbox :
        /\ inbox'[k] \in Datagrams
        /\ inbox'[k].text = inbox[k].text
        /\ inbox'[k].from = IF inbox[k].from = c THEN Gone ELSE inbox[k].from
  BY <1>1 DEF Datagrams
<1>3. inbox' \in Seq(Datagrams) /\ Len(inbox') = Len(inbox) /\ DOMAIN inbox' = DOMAIN inbox
  <2>1. inbox' = [k \in DOMAIN inbox |-> inbox'[k]]
    OBVIOUS
  <2> QED
    BY <1>1, <1>2, <2>1, QueueMapped, SMTT(30)
<1>4. TypeOK'
  BY <1>1, <1>3, EmptyQueue DEF IInv, TypeOK, MaybeText
<1>5. OnePlace'
  BY <1>2, <1>3, NamesAssumption DEF IInv, TypeOK, OnePlace, InInboxOnly
<1>6. OffIsEmpty' /\ AnswersOwnQuestion'
  BY <1>1, <1>3, EmptyQueue DEF IInv, TypeOK, OffIsEmpty, AnswersOwnQuestion
<1> QED
  BY <1>4, <1>5, <1>6 DEF IInv

LEMMA Inductive == IInv /\ [Next]_vars => IInv'
<1> SUFFICES ASSUME IInv, [Next]_vars PROVE IInv'
  OBVIOUS
<1> USE DEF serverVars
<1>0. /\ TypeOK /\ OnePlace /\ OffIsEmpty /\ AnswersOwnQuestion
      /\ inbox \in Seq(Datagrams) /\ Len(inbox) \in Nat /\ DOMAIN inbox = 1 .. Len(inbox)
  BY DEF IInv, TypeOK
<1>1. CASE ServerStart
  <2>1. TypeOK'
    BY <1>0, <1>1 DEF ServerStart, TypeOK
  <2> QED
    BY <1>0, <1>1, <2>1
    DEF ServerStart, IInv, OnePlace, InInboxOnly, OffIsEmpty, AnswersOwnQuestion
<1>2. CASE Recv
  <2>1. /\ Head(inbox) = inbox[1] /\ 1 \in DOMAIN inbox /\ Head(inbox) \in Datagrams
        /\ inbox' \in Seq(Datagrams) /\ Len(inbox') = Len(inbox) - 1
        /\ \A k \in DOMAIN inbox' :
             k + 1 \in DOMAIN inbox /\ k + 1 # 1 /\ inbox'[k] = inbox[k + 1]
    BY <1>0, <1>2, QueueTail DEF Recv
  <2>2. Head(inbox).text \in Texts /\ Head(inbox).from \in Clients \cup {Gone}
    BY <2>1 DEF Datagrams
  <2>3. TypeOK'
    BY <1>0, <1>2, <2>1, <2>2, NamesAssumption DEF Recv, TypeOK, MaybeText
  <2>4. OnePlace'
    <3> SUFFICES ASSUME NEW c \in Clients
                 PROVE  /\ \A k \in DOMAIN inbox' : inbox'[k].from = c => InInboxOnly(c, k)'
                        /\ from' = c => cl[c] = "wait" /\ buffer' = asked[c] /\ events[c] = <<>>
      BY <1>2 DEF Recv, OnePlace
    <3>1. from' = c => InInboxOnly(c, 1)
      BY <1>0, <1>2, <2>1 DEF Recv, OnePlace
    <3>2. ASSUME NEW k \in DOMAIN inbox', inbox'[k].from = c
          PROVE  InInboxOnly(c, k)'
      <4>1. InInboxOnly(c, k + 1) /\ from' # c
        BY <1>0, <1>2, <2>1, <3>2 DEF Recv, OnePlace, InInboxOnly
      <4>2. \A l \in DOMAIN inbox' : inbox'[l].from = c => l = k
        <5> SUFFICES ASSUME NEW l \in DOMAIN inbox', inbox'[l].from = c PROVE l = k
          OBVIOUS
        <5>1. l + 1 = k + 1
          BY <2>1, <4>1 DEF InInboxOnly
        <5> QED
          BY <2>1, <5>1
      <4> QED
        BY <1>2, <2>1, <3>2, <4>1, <4>2 DEF Recv, InInboxOnly
    <3> QED
      BY <1>2, <3>1, <3>2 DEF Recv, InInboxOnly
  <2> QED
    BY <1>0, <1>2, <2>3, <2>4 DEF Recv, IInv, OffIsEmpty, AnswersOwnQuestion
<1>3. CASE RecvFails
  <2>1. TypeOK'
    BY <1>0, <1>3 DEF RecvFails, TypeOK
  <2> QED
    BY <1>0, <1>3, <2>1
    DEF RecvFails, IInv, OnePlace, InInboxOnly, OffIsEmpty, AnswersOwnQuestion
<1>4. CASE Send
  <2>1. /\ buffer \in Texts
        /\ from # Gone => from \in Clients /\ events[from] = <<>> /\ cl[from] = "wait"
                          /\ buffer = asked[from]
        /\ \A k \in DOMAIN inbox : inbox[k].from # from \/ from = Gone
    BY <1>0, <1>4 DEF Send, TypeOK, MaybeText, OnePlace, InInboxOnly
  <2>2. CASE from = Gone
    <3>1. TypeOK'
      BY <1>0, <1>4, <2>2, NamesAssumption DEF Send, TypeOK, MaybeText
    <3> QED
      BY <1>0, <1>4, <2>2, <3>1
      DEF Send, IInv, OnePlace, InInboxOnly, OffIsEmpty, AnswersOwnQuestion
  <2>3. CASE from # Gone
    <3>1. /\ events' = [events EXCEPT ![from] = <<buffer>>] /\ UNCHANGED reset
          /\ <<buffer>> \in Seq(Texts \cup {Unreachable})
      <4>1. Append(<<>>, buffer) = <<buffer>> /\ <<buffer>> \in Seq(Texts \cup {Unreachable})
        BY <2>1, QueueOfOne
      <4>2. events' = [events EXCEPT ![from] = Append(@, buffer)] /\ UNCHANGED reset
        BY <1>4, <2>3 DEF Send
      <4>3. events[from] = <<>>
        BY <2>1, <2>3
      <4> QED
        BY <4>1, <4>2, <4>3
    <3>2. TypeOK'
      BY <1>0, <1>4, <2>1, <3>1, NamesAssumption DEF Send, TypeOK, MaybeText
    <3>3. OnePlace' /\ OffIsEmpty'
      BY <1>0, <1>4, <2>1, <2>3, <3>1
      DEF Send, TypeOK, OnePlace, InInboxOnly, OffIsEmpty
    <3>4. AnswersOwnQuestion'
      BY <1>0, <1>4, <2>1, <2>3, <3>1 DEF Send, TypeOK, AnswersOwnQuestion
    <3> QED
      BY <3>2, <3>3, <3>4 DEF IInv
  <2> QED
    BY <2>2, <2>3
<1>5. CASE ServerKilled
  <2>1. TypeOK'
    <3>1. inbox' \in Seq(Datagrams) /\ Len(inbox') <= Room
      BY <1>5, EmptyQueue, NamesAssumption DEF ServerKilled
    <3> QED
      BY <1>0, <1>5, <3>1 DEF ServerKilled, TypeOK, MaybeText
  <2> QED
    BY <1>0, <1>5, <2>1, EmptyQueue
    DEF ServerKilled, IInv, OnePlace, InInboxOnly, OffIsEmpty, AnswersOwnQuestion
<1>6. ASSUME NEW c \in Clients, Start(c) PROVE IInv'
  <2>1. TypeOK'
    BY <1>0, <1>6 DEF Start, TypeOK
  <2> QED
    BY <1>0, <1>6, <2>1
    DEF Start, TypeOK, IInv, OnePlace, InInboxOnly, OffIsEmpty, AnswersOwnQuestion
<1>7. ASSUME NEW c \in Clients, Ask(c) PROVE IInv'
  <2>1. PICK t \in Texts :
          /\ asked' = [asked EXCEPT ![c] = t]
          /\ inbox' = IF srv # "off" /\ Len(inbox) < Room
                      THEN Append(inbox, [from |-> c, text |-> t]) ELSE inbox
    BY <1>7 DEF Ask
  <2>2. [from |-> c, text |-> t] \in Datagrams
    BY DEF Datagrams
  <2>3. /\ events[c] = <<>> /\ ~(srv = "send" /\ from = c)
        /\ \A k \in DOMAIN inbox : inbox[k].from # c
    BY <1>0, <1>7 DEF Ask, OnePlace, InInboxOnly, AnswersOwnQuestion
  <2>4. \/ UNCHANGED events
        \/ srv = "off" /\ events' = [events EXCEPT ![c] = <<Unreachable>>]
    BY <1>7, <2>3, QueueOfOne DEF Ask
  <2>5. \/ inbox' = inbox
        \/ /\ inbox' \in Seq(Datagrams) /\ Len(inbox') = Len(inbox) + 1 /\ Len(inbox) < Room
           /\ srv # "off"
           /\ DOMAIN inbox' = DOMAIN inbox \cup {Len(inbox) + 1}
           /\ Len(inbox) + 1 \notin DOMAIN inbox
           /\ \A k \in DOMAIN inbox : inbox'[k] = inbox[k]
           /\ inbox'[Len(inbox) + 1] = [from |-> c, text |-> t]
    <3>1. CASE srv # "off" /\ Len(inbox) < Room
      <4> DEFINE e == [from |-> c, text |-> t]
      <4>1. inbox' = Append(inbox, e)
        BY <2>1, <3>1
      <4> HIDE DEF e
      <4>2. e \in Datagrams
        BY <2>2 DEF e
      <4>3. /\ inbox' \in Seq(Datagrams) /\ Len(inbox') = Len(inbox) + 1
            /\ DOMAIN inbox' = DOMAIN inbox \cup {Len(inbox) + 1}
            /\ Len(inbox) + 1 \notin DOMAIN inbox
            /\ \A k \in DOMAIN inbox : inbox'[k] = inbox[k]
            /\ inbox'[Len(inbox) + 1] = e
        BY <1>0, <4>1, <4>2, QueueAppend
      <4> QED
        BY <3>1, <4>3 DEF e
    <3> QED
      BY <2>1, <3>1
  <2>6. TypeOK'
    <3>1. inbox' \in Seq(Datagrams) /\ Len(inbox') <= Room
      BY <1>0, <2>5, NamesAssumption DEF TypeOK
    <3>2. events' \in [Clients -> Seq(Texts \cup {Unreachable})]
      <4>1. <<Unreachable>> \in Seq(Texts \cup {Unreachable})
        BY QueueOfOne
      <4> QED
        BY <1>0, <2>4, <4>1 DEF TypeOK
    <3> QED
      BY <1>0, <1>7, <2>1, <3>1, <3>2 DEF Ask, TypeOK, MaybeText
  <2>7. OnePlace'
    <3> SUFFICES ASSUME NEW d \in Clients
                 PROVE  /\ \A k \in DOMAIN inbox' : inbox'[k].from = d => InInboxOnly(d, k)'
                        /\ srv = "send" /\ from = d =>
                             cl'[d] = "wait" /\ buffer = asked'[d] /\ events'[d] = <<>>
      BY <1>7 DEF Ask, OnePlace
    <3>1. CASE d = c
      <4>1. /\ cl'[c] = "wait" /\ asked'[c] = t /\ srv' = srv /\ from' = from
            /\ srv # "off" => events'[c] = <<>>
        BY <1>0, <1>7, <2>1, <2>3, <2>4 DEF Ask, TypeOK
      <4>2. ASSUME NEW k \in DOMAIN inbox', inbox'[k].from = c
            PROVE  k = Len(inbox) + 1 /\ srv # "off" /\ inbox'[k].text = t
        BY <2>3, <2>5, <4>2
      <4> QED
        BY <2>3, <3>1, <4>1, <4>2 DEF InInboxOnly
    <3>2. CASE d # c
      <4>1. /\ cl'[d] = cl[d] /\ asked'[d] = asked[d] /\ events'[d] = events[d]
            /\ srv' = srv /\ from' = from /\ buffer' = buffer
        BY <1>0, <1>7, <2>1, <2>4, <3>2 DEF Ask, TypeOK
      <4>2. ASSUME NEW k \in DOMAIN inbox', inbox'[k].from = d
            PROVE  k \in DOMAIN inbox /\ inbox'[k] = inbox[k]
        BY <2>5, <3>2, <4>2
      <4> QED
        BY <1>0, <4>1, <4>2 DEF OnePlace, InInboxOnly
    <3> QED
      BY <3>1, <3>2
  <2>8. OffIsEmpty' /\ AnswersOwnQuestion'
    BY <1>0, <1>7, <2>1, <2>3, <2>4, <2>5
    DEF Ask, TypeOK, OffIsEmpty, AnswersOwnQuestion
  <2> QED
    BY <2>6, <2>7, <2>8 DEF IInv
<1>11. ASSUME NEW c \in Clients, AskFails(c) PROVE IInv'
  <2>1. /\ events[c] = <<>> /\ ~(srv = "send" /\ from = c)
        /\ \A k \in DOMAIN inbox : inbox[k].from # c
    BY <1>0, <1>11 DEF AskFails, OnePlace, InInboxOnly, AnswersOwnQuestion
  <2>2. TypeOK'
    BY <1>0, <1>11 DEF AskFails, TypeOK, MaybeText
  <2> QED
    BY <1>0, <1>11, <2>1, <2>2
    DEF AskFails, TypeOK, IInv, OnePlace, InInboxOnly, OffIsEmpty, AnswersOwnQuestion
<1>8. ASSUME NEW c \in Clients, Returns(c), UNCHANGED buffer1 \/ RecvAnswer(c) PROVE IInv'
  <2>1. /\ Head(events[c]) \in Texts \cup {Unreachable}
        /\ Tail(events[c]) = <<>>
        /\ Tail(events[c]) \in Seq(Texts \cup {Unreachable})
    <3>1. events[c] \in Seq(Texts \cup {Unreachable}) /\ events[c] # <<>>
      BY <1>0, <1>8 DEF Returns, TypeOK
    <3>2. events[c] = <<asked[c]>> \/ events[c] = <<Unreachable>>
      BY <1>0, <3>1 DEF AnswersOwnQuestion
    <3> QED
      BY <3>1, <3>2, QueueTail, EmptyQueue
  <2>2. TypeOK'
    BY <1>0, <1>8, <2>1 DEF Returns, RecvAnswer, TypeOK, MaybeText
  <2>3. OnePlace' /\ OffIsEmpty' /\ AnswersOwnQuestion'
    BY <1>0, <1>8, <2>1
    DEF Returns, TypeOK, OnePlace, InInboxOnly, OffIsEmpty, AnswersOwnQuestion
  <2> QED
    BY <2>2, <2>3 DEF IInv
<1>9. ASSUME NEW c \in Clients, ClientExit(c) PROVE IInv'
  BY <1>9, ClientExitStep
<1>10. CASE UNCHANGED vars
  BY <1>0, <1>10
  DEF vars, IInv, TypeOK, OnePlace, InInboxOnly, OffIsEmpty, AnswersOwnQuestion
<1> QED
  BY <1>1, <1>2, <1>3, <1>4, <1>5, <1>6, <1>7, <1>8, <1>9, <1>10, <1>11
  DEF Next, ServerStep, ClientStep, Environment, RecvAnswer, RecvUnreachable, Quit, ClientKilled

(* No step but the end of the server takes the question of a waiting client *)
(* from where it is without putting it in the next place.                   *)
LEMMA KeepsQuestions == IInv /\ [Next]_vars => [Kept]_vars
<1> SUFFICES ASSUME IInv, Next, NEW c \in Clients,
                    cl[c] = "wait", Pending(c), cl'[c] = "wait", srv' # "off"
             PROVE  Pending(c)'
  BY DEF Kept
<1> USE DEF serverVars
<1>0. /\ TypeOK /\ OnePlace
      /\ inbox \in Seq(Datagrams) /\ DOMAIN inbox = 1 .. Len(inbox) /\ Len(inbox) \in Nat
  BY DEF IInv, TypeOK
<1>1. CASE ServerStart \/ RecvFails
  BY <1>0, <1>1 DEF ServerStart, RecvFails, Pending
<1>2. CASE Recv
  <2>1. /\ Head(inbox) = inbox[1]
        /\ \A k \in DOMAIN inbox :
             k # 1 => k - 1 \in DOMAIN inbox' /\ inbox'[k - 1] = inbox[k]
    BY <1>0, <1>2, QueueTail DEF Recv
  <2>2. CASE \E k \in DOMAIN inbox : inbox[k].from = c
    <3> PICK k \in DOMAIN inbox : inbox[k].from = c
      BY <2>2
    <3> QED
      BY <1>2, <2>1 DEF Recv, Pending
  <2>3. CASE ~ \E k \in DOMAIN inbox : inbox[k].from = c
    BY <1>2, <2>3 DEF Recv, Pending
  <2> QED
    BY <2>2, <2>3
<1>3. CASE Send
  <2>1. CASE from = c
    <3>1. events'[c] = Append(events[c], buffer) /\ events[c] = <<>>
      BY <1>0, <1>3, <2>1, NamesAssumption DEF Send, TypeOK, OnePlace
    <3>2. events'[c] = <<buffer>>
      BY <3>1, QueueOfOne
    <3> QED
      BY <3>2 DEF Pending
  <2>2. CASE from # c
    BY <1>0, <1>3, <2>2 DEF Send, TypeOK, Pending
  <2> QED
    BY <2>1, <2>2
<1>4. CASE ServerKilled
  BY <1>4 DEF ServerKilled
<1>5. ASSUME NEW d \in Clients, Start(d) \/ AskFails(d) PROVE Pending(c)'
  BY <1>5 DEF Start, AskFails, Pending
<1>6. ASSUME NEW d \in Clients, Ask(d) PROVE Pending(c)'
  <2>1. c # d
    BY <1>6 DEF Ask
  <2>2. events'[c] = events[c] /\ srv' = srv /\ from' = from
    BY <1>0, <1>6, <2>1 DEF Ask, TypeOK
  <2>3. \A k \in DOMAIN inbox : k \in DOMAIN inbox' /\ inbox'[k] = inbox[k]
    <3> PICK t \in Texts : inbox' = IF srv # "off" /\ Len(inbox) < Room
                                    THEN Append(inbox, [from |-> d, text |-> t]) ELSE inbox
      BY <1>6 DEF Ask
    <3>1. [from |-> d, text |-> t] \in Datagrams
      BY DEF Datagrams
    <3> QED
      BY <1>0, <3>1, QueueAppend
  <2> QED
    BY <2>2, <2>3 DEF Pending
<1>7. ASSUME NEW d \in Clients, Returns(d) PROVE Pending(c)'
  BY <1>0, <1>7 DEF Returns, TypeOK, Pending
<1>8. ASSUME NEW d \in Clients, ClientExit(d) PROVE Pending(c)'
  <2>1. c # d
    BY <1>0, <1>8 DEF ClientExit, TypeOK
  <2>2. events'[c] = events[c] /\ srv' = srv /\ (from = c => from' = c)
    BY <1>0, <1>8, <2>1 DEF ClientExit, TypeOK
  <2>3. \A k \in DOMAIN inbox :
          inbox[k].from = c => k \in DOMAIN inbox' /\ inbox'[k] = inbox[k]
    BY <1>8, <2>1 DEF ClientExit
  <2> QED
    BY <2>2, <2>3 DEF Pending
<1> QED
  BY <1>1, <1>2, <1>3, <1>4, <1>5, <1>6, <1>7, <1>8
  DEF Next, ServerStep, ClientStep, Environment, RecvAnswer, RecvUnreachable, Quit, ClientKilled

(* Every variable keeps its type; the server's buffer has a text exactly    *)
(* between recvfrom and sendto, and its socket never holds more than fits.  *)
THEOREM TypeCorrect == Spec => []TypeOK
<1>1. IInv => TypeOK
  BY DEF IInv
<1> QED
  BY <1>1, Initially, Inductive, PTL DEF Spec

(* What a client's recvfrom can get is the echo of the question it waits    *)
(* on, or an error.                                                         *)
THEOREM AnswersPaired == Spec => []AnswersOwnQuestion
<1>1. IInv => AnswersOwnQuestion
  BY DEF IInv
<1> QED
  BY <1>1, Initially, Inductive, PTL DEF Spec

(* A question the server's socket has taken stays there, in the server's    *)
(* buffer or in the asker's socket, until the asker reads or the server     *)
(* ends.                                                                    *)
THEOREM QuestionsKept == Spec => KeptUntilAnswered
<1> QED
  BY Initially, Inductive, KeepsQuestions, PTL DEF Spec, KeptUntilAnswered
=============================================================================
