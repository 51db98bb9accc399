-------------------------- MODULE NamedPipeProofs ---------------------------
(***************************************************************************)
(* Proofs about NamedPipe for every set of clients and pipe instances: its *)
(* type invariant, HandleDiscipline, ReplyIsolation, DropsOnlyDeadClients  *)
(* and the implementation of RequestReply.  All rest on one inductive      *)
(* invariant, IInv.                                                        *)
(***************************************************************************)
EXTENDS NamedPipe, TLAPS

(* An instance has one client at most. *)
OneHolder ==
  \A c, d \in Clients : hnd[c] = hnd[d] /\ hnd[c] # NoPipe => c = d

(* A client has a handle from CreateFile to the end of its run. *)
HolderPhase == \A c \in Clients : hnd[c] # NoPipe <=> cpc[c] \in Holding

(* The server end of an instance at each point of its owner's code. *)
InstanceStates ==
  \A i \in Instances :
    /\ srv[i] = "listening" => mpc # "spawn" /\ ~Held(i) /\ c2s[i] = <<>>
    /\ MainOwns(i) => srv[i] \in {"listening", "connected"}
    /\ tpc[i] \in {"start", "read", "answer", "flush", "disconnect", "dead"}
         => srv[i] = "connected"
    /\ tpc[i] = "close" => srv[i] = "disconnected"
    /\ tpc[i] = "disconnect" => s2c[i] = <<>>
    /\ ~Held(i) => s2c[i] = <<>>

(* The request of a waiting client is at one place: in the pipe, in the     *)
(* thread's buffer, answered in the pipe, or it was dropped unanswered.     *)
Waiting(c, i) ==
  \/ c2s[i] = <<>> /\ s2c[i] = <<>> /\ (tpc[i] = "answer" => req[i] = c)
  \/ c2s[i] = <<>> /\ s2c[i] = <<c>> /\ tpc[i] # "answer"
  \/ /\ \E size \in Sizes : c2s[i] = <<[from |-> c, size |-> size]>>
     /\ s2c[i] = <<>> /\ tpc[i] # "answer"

Silent(i) == c2s[i] = <<>> /\ s2c[i] = <<>> /\ tpc[i] # "answer"

Conversation ==
  \A c \in Clients : hnd[c] # NoPipe =>
    IF cpc[c] = "read" THEN Waiting(c, hnd[c]) ELSE Silent(hnd[c])

IInv == /\ TypeOK
        /\ HandleDiscipline
        /\ OneHolder
        /\ HolderPhase
        /\ InstanceStates
        /\ Conversation

-----------------------------------------------------------------------------
LEMMA Queues ==
  /\ <<>> \in Seq(Clients) /\ <<>> \in Seq(Messages)
  /\ \A q \in Seq(Clients), c \in Clients : Append(q, c) \in Seq(Clients)
  /\ \A q \in Seq(Messages), m \in Messages : Append(q, m) \in Seq(Messages)
  /\ \A q \in Seq(Clients) : q # <<>> => Tail(q) \in Seq(Clients)
  /\ \A q \in Seq(Messages) :
       q # <<>> => Head(q) \in Messages /\ Tail(q) \in Seq(Messages)
  OBVIOUS

LEMMA OneElement ==
  \A x : Append(<<>>, x) = <<x>> /\ <<x>> # <<>> /\ Head(<<x>>) = x /\ Tail(<<x>>) = <<>>
  OBVIOUS

(* What is said of a client's conversation still holds after a step that    *)
(* touches neither the client nor its instance.                             *)
LEMMA Undisturbed ==
  ASSUME IInv, NEW d \in Clients, hnd[d] # NoPipe,
         hnd'[d] = hnd[d], cpc'[d] = cpc[d],
         c2s'[hnd[d]] = c2s[hnd[d]], s2c'[hnd[d]] = s2c[hnd[d]],
         tpc'[hnd[d]] = tpc[hnd[d]], req'[hnd[d]] = req[hnd[d]]
  PROVE  IF cpc'[d] = "read" THEN Waiting(d, hnd[d])' ELSE Silent(hnd[d])'
  BY DEF IInv, Conversation, Waiting, Silent

(* A client run that ends, and the end of the server process: the two steps *)
(* many actions share.                                                      *)
LEMMA ClientExitStep ==
  ASSUME IInv, NEW c \in Clients, NEW how \in Ended, ClientExit(c, how)
  PROVE  IInv'
<1> USE NamesAssumption, Queues DEF IInv, ClientExit, ClientGoto,
             TypeOK, HandleDiscipline, MainOwns, ThreadOwns, Held,
             Ended, Holding, serverVars
<1>1. TypeOK' /\ HandleDiscipline'
  OBVIOUS
<1>2. (OneHolder /\ HolderPhase)'
  BY DEF OneHolder, HolderPhase
<1>3. InstanceStates'
  BY DEF InstanceStates, OneHolder
<1>4. Conversation'
  <2> SUFFICES ASSUME NEW d \in Clients, hnd'[d] # NoPipe
               PROVE  IF cpc'[d] = "read" THEN Waiting(d, hnd[d])' ELSE Silent(hnd[d])'
    BY DEF Conversation
  <2>1. d # c /\ hnd[d] # hnd[c] /\ hnd'[d] = hnd[d] /\ cpc'[d] = cpc[d]
    BY DEF OneHolder
  <2>2. s2c'[hnd[d]] = s2c[hnd[d]]
    BY <2>1
  <2> QED
    BY <2>1, <2>2 DEF Conversation, Waiting, Silent
<1> QED
  BY <1>1, <1>2, <1>3, <1>4

LEMMA ProcessExitStep == IInv /\ ProcessExit => IInv'
  BY NamesAssumption, Queues
  DEF IInv, ProcessExit, TypeOK, HandleDiscipline, MainOwns, ThreadOwns,
      OneHolder, HolderPhase, InstanceStates, Conversation, Waiting, Silent,
      Held, Ended, Holding, Serving, clientVars

LEMMA Inductive == IInv /\ [Next]_vars => IInv'
<1> SUFFICES ASSUME IInv, [Next]_vars PROVE IInv'
  OBVIOUS
<1> USE NamesAssumption, Queues
      DEF IInv, TypeOK, HandleDiscipline, MainOwns, ThreadOwns, OneHolder,
             HolderPhase, InstanceStates, Conversation, Waiting, Silent, Held,
             Ended, Holding, Serving, serverVars, clientVars
<1>1. CASE ServerStart
  <2>1. TypeOK' /\ HandleDiscipline' /\ OneHolder' /\ HolderPhase'
    BY <1>1 DEF ServerStart
  <2>2. InstanceStates'
    BY <1>1 DEF ServerStart
  <2>3. Conversation'
    <3>1. UNCHANGED <<tpc, req, c2s, s2c, cpc, hnd>>
      BY <1>1 DEF ServerStart
    <3> QED
      BY <3>1
  <2> QED
    BY <2>1, <2>2, <2>3
<1>2. ASSUME NEW i \in Instances, CreateNamedPipe(i) PROVE IInv'
  <2>1. TypeOK' /\ HandleDiscipline'
    BY <1>2 DEF CreateNamedPipe, Free
  <2>2. OneHolder' /\ HolderPhase' /\ InstanceStates'
    BY <1>2 DEF CreateNamedPipe, Free
  <2>3. Conversation'
    <3> SUFFICES ASSUME NEW d \in Clients, hnd'[d] # NoPipe
                 PROVE  IF cpc'[d] = "read" THEN Waiting(d, hnd[d])' ELSE Silent(hnd[d])'
      OBVIOUS
    <3>1. hnd[d] # i /\ cpc' = cpc /\ hnd' = hnd
      BY <1>2 DEF CreateNamedPipe, Free
    <3>2. c2s'[hnd[d]] = c2s[hnd[d]] /\ s2c'[hnd[d]] = s2c[hnd[d]]
      BY <1>2, <3>1 DEF CreateNamedPipe
    <3>3. UNCHANGED <<tpc, req>>
      BY <1>2 DEF CreateNamedPipe
    <3> HIDE DEF IInv, Waiting, Silent
    <3> QED
      BY <3>1, <3>2, <3>3, Undisturbed
  <2> QED BY <2>1, <2>2, <2>3
<1>3. CASE CreateNamedPipeFails
  BY <1>3, ProcessExitStep DEF CreateNamedPipeFails
<1>4. CASE ConnectNamedPipe
  <2>1. TypeOK' /\ HandleDiscipline'
    BY <1>4 DEF ConnectNamedPipe, Listening
  <2>2. OneHolder' /\ HolderPhase'
    BY <1>4 DEF ConnectNamedPipe, Listening
  <2>3. InstanceStates'
    BY <1>4 DEF ConnectNamedPipe, Listening
  <2>4. Conversation'
    <3>1. UNCHANGED <<tpc, req, c2s, s2c, cpc, hnd>>
      BY <1>4 DEF ConnectNamedPipe
    <3> QED
      BY <3>1
  <2> QED BY <2>1, <2>2, <2>3, <2>4
<1>5. CASE ConnectCompletes
  BY <1>5, ZenonT(60) DEF ConnectCompletes
<1>6. CASE CreateThread
  BY <1>6 DEF CreateThread, HandOver
<1>7. CASE CreateThreadFails
  BY <1>7, ProcessExitStep DEF CreateThreadFails
<1>8. CASE ServerKilled
  BY <1>8, ProcessExitStep DEF ServerKilled
<1>9. ASSUME NEW i \in Instances, ThreadStart(i) PROVE IInv'
  BY <1>9, ZenonT(60) DEF ThreadStart, ThreadStep, ThreadGoto
<1>10. ASSUME NEW i \in Instances, ThreadAllocFails(i) PROVE IInv'
  BY <1>10, ZenonT(60) DEF ThreadAllocFails, ThreadGoto, ThreadStep
<1>11. ASSUME NEW i \in Instances, ReadRequest(i) PROVE IInv'
  <2>1. TypeOK'
    <3>1. Head(c2s[i]) \in Messages /\ Tail(c2s[i]) \in Seq(Messages)
      BY <1>11 DEF ReadRequest, TakeRequest, ThreadStep
    <3>2. Head(c2s[i]).from \in Clients
      BY <3>1 DEF Messages
    <3> QED
      BY <1>11, <3>1, <3>2, ZenonT(60) DEF ReadRequest, ThreadGoto, TakeRequest, ThreadStep
  <2>2. HandleDiscipline' /\ OneHolder' /\ HolderPhase' /\ InstanceStates'
    BY <1>11 DEF ReadRequest, ThreadGoto, TakeRequest, ThreadStep
  <2>3. Conversation'
    <3> SUFFICES ASSUME NEW d \in Clients, hnd'[d] # NoPipe
                 PROVE  IF cpc'[d] = "read" THEN Waiting(d, hnd[d])' ELSE Silent(hnd[d])'
      OBVIOUS
    <3>1. CASE hnd[d] # i
      <4>1. /\ UNCHANGED <<s2c, cpc, hnd>>
            /\ c2s'[hnd[d]] = c2s[hnd[d]] /\ tpc'[hnd[d]] = tpc[hnd[d]]
            /\ req'[hnd[d]] = req[hnd[d]]
        BY <1>11, <3>1 DEF ReadRequest, ThreadGoto, TakeRequest, ThreadStep
      <4> HIDE DEF IInv, Waiting, Silent
      <4> QED
        BY <4>1, Undisturbed
    <3>2. CASE hnd[d] = i
      <4>1. cpc[d] = "read" /\ s2c[i] = <<>>
        BY <1>11, <3>2 DEF ReadRequest, TakeRequest, ThreadStep
      <4>2. PICK size \in Sizes : c2s[i] = <<[from |-> d, size |-> size]>>
        BY <1>11, <3>2, <4>1 DEF ReadRequest, TakeRequest, ThreadStep
      <4>3. Head(c2s[i]).from = d /\ Tail(c2s[i]) = <<>>
        BY <4>2, OneElement
      <4>4. /\ s2c'[i] = <<>> /\ hnd'[d] = i /\ cpc'[d] = "read"
            /\ \/ tpc'[i] = "answer" /\ req'[i] = d /\ c2s'[i] = <<>>
               \/ tpc'[i] # "answer" /\ c2s'[i] = c2s[i]
        BY <1>11, <3>2, <4>1, <4>3 DEF ReadRequest, ThreadGoto, TakeRequest,
           ThreadStep
      <4> QED
        BY <4>2, <4>4
    <3> QED
      BY <3>1, <3>2
  <2> QED BY <2>1, <2>2, <2>3
<1>12. ASSUME NEW i \in Instances, ReadEnds(i) PROVE IInv'
  BY <1>12, ZenonT(60) DEF ReadEnds, ThreadGoto, ThreadStep, Broken
<1>13. ASSUME NEW i \in Instances, ReadFails(i) \/ WriteFails(i) PROVE IInv'
  <2>1. CASE ReadFails(i)
    BY <2>1, ZenonT(60) DEF ReadFails, ThreadGoto, ThreadStep
  <2>2. CASE WriteFails(i)
    <3>1. TypeOK' /\ HandleDiscipline' /\ OneHolder' /\ HolderPhase' /\ InstanceStates'
      BY <2>2, ZenonT(60) DEF WriteFails, ThreadGoto, ThreadStep
    <3>2. Conversation'
      BY <2>2 DEF WriteFails, ThreadGoto, ThreadStep
    <3> QED
      BY <3>1, <3>2
  <2> QED
    BY <1>13, <2>1, <2>2
<1>14. ASSUME NEW i \in Instances, AnswerRequest(i) PROVE IInv'
  <2>1. TypeOK'
    <3>1. ASSUME NEW d \in Clients, hnd[d] = i PROVE req[i] = d
      BY <1>14, <3>1 DEF AnswerRequest, Reply, ThreadStep
    <3>2. Held(i) => Append(s2c[i], req[i]) \in Seq(Clients)
      BY <3>1
    <3>3. s2c' \in [Instances -> Seq(Clients)]
      BY <1>14, <3>2 DEF AnswerRequest, Reply, ThreadStep
    <3> QED
      BY <1>14, <3>3 DEF AnswerRequest, ThreadGoto, Reply, ThreadStep
  <2>2. HandleDiscipline' /\ OneHolder' /\ HolderPhase' /\ InstanceStates'
    BY <1>14 DEF AnswerRequest, ThreadGoto, Reply, ThreadStep
  <2>3. Conversation'
    <3> SUFFICES ASSUME NEW d \in Clients, hnd'[d] # NoPipe
                 PROVE  IF cpc'[d] = "read" THEN Waiting(d, hnd[d])' ELSE Silent(hnd[d])'
      OBVIOUS
    <3>1. CASE hnd[d] # i
      <4>1. /\ UNCHANGED <<req, c2s, cpc, hnd>>
            /\ s2c'[hnd[d]] = s2c[hnd[d]] /\ tpc'[hnd[d]] = tpc[hnd[d]]
        BY <1>14, <3>1 DEF AnswerRequest, ThreadGoto, Reply, ThreadStep
      <4> HIDE DEF IInv, Waiting, Silent
      <4> QED
        BY <4>1, Undisturbed
    <3>2. CASE hnd[d] = i
      <4>1. Held(i) /\ cpc[d] = "read" /\ c2s[i] = <<>> /\ s2c[i] = <<>> /\ req[i] = d
        BY <1>14, <3>2 DEF AnswerRequest, Reply, ThreadStep
      <4>2. Append(s2c[i], req[i]) = <<d>>
        BY <4>1, OneElement
      <4> QED
        BY <1>14, <3>2, <4>1, <4>2 DEF AnswerRequest, ThreadGoto, Reply, ThreadStep
    <3> QED
      BY <3>1, <3>2
  <2> QED BY <2>1, <2>2, <2>3
<1>15. ASSUME NEW i \in Instances, FlushFileBuffers(i) PROVE IInv'
  BY <1>15, ZenonT(60) DEF FlushFileBuffers, ThreadGoto, ThreadStep
<1>16. ASSUME NEW i \in Instances, DisconnectNamedPipe(i) PROVE IInv'
  BY <1>16, ZenonT(60) DEF DisconnectNamedPipe, ThreadGoto
<1>17. ASSUME NEW i \in Instances, CloseInstance(i) PROVE IInv'
  BY <1>17, ZenonT(60) DEF CloseInstance, ThreadGoto
<1>18. ASSUME NEW c \in Clients, Launch(c) PROVE IInv'
  BY <1>18, ZenonT(60) DEF Launch, ClientGoto, ClientCall
<1>19. ASSUME NEW c \in Clients, OpenPipe(c) PROVE IInv'
  <2>1. PICK i \in Instances : /\ srv[i] = "listening"
                               /\ srv' = [srv EXCEPT ![i] = "connected"]
                               /\ hnd' = [hnd EXCEPT ![c] = i]
    BY <1>19 DEF OpenPipe, Listening
  <2>2. ~Held(i) /\ Silent(i) /\ MainOwns(i) /\ mpc # "spawn" /\ tpc[i] = "none"
    <3>1. tpc[i] \notin Serving \cup {"dead"}
      BY <2>1
    <3> QED
      BY <2>1, <3>1
  <2>3. TypeOK' /\ HandleDiscipline'
    BY <1>19, <2>1 DEF OpenPipe, ClientGoto
  <2>4. OneHolder' /\ HolderPhase'
    <3>1. hnd[c] = NoPipe
      BY <1>19 DEF OpenPipe
    <3>2. OneHolder'
      BY <2>1, <2>2, <3>1
    <3>3. HolderPhase'
      BY <1>19, <2>1, <3>1 DEF OpenPipe, ClientGoto
    <3> QED
      BY <3>2, <3>3
  <2>5. InstanceStates'
    <3> SUFFICES ASSUME NEW j \in Instances PROVE InstanceStates!(j)'
      OBVIOUS
    <3>0. hnd[c] = NoPipe
      BY <1>19 DEF OpenPipe
    <3>1. Held(j) => Held(j)'
      BY <2>1, <3>0
    <3>2. CASE j = i
      BY <1>19, <2>1, <2>2, <3>1, <3>2 DEF OpenPipe
    <3>3. CASE j # i
      BY <1>19, <2>1, <3>1, <3>3 DEF OpenPipe
    <3> QED
      BY <3>2, <3>3
  <2>6. Conversation'
    <3> SUFFICES ASSUME NEW d \in Clients, hnd'[d] # NoPipe
                 PROVE  IF cpc'[d] = "read" THEN Waiting(d, hnd[d])' ELSE Silent(hnd[d])'
      OBVIOUS
    <3>1. CASE d = c
      BY <1>19, <2>1, <2>2, <3>1 DEF OpenPipe, ClientGoto
    <3>2. CASE d # c
      BY <1>19, <2>1, <2>2, <3>2, ZenonT(60) DEF OpenPipe, ClientGoto
    <3> QED
      BY <3>1, <3>2
  <2> QED
    BY <2>3, <2>4, <2>5, <2>6
<1>20. ASSUME NEW c \in Clients, OpenBusy(c) PROVE IInv'
  BY <1>20, ZenonT(60) DEF OpenBusy, ClientGoto, ClientCall
<1>21. ASSUME NEW c \in Clients, OpenNotFound(c) PROVE IInv'
  BY <1>21, ClientExitStep DEF OpenNotFound, Ended
<1>22. ASSUME NEW c \in Clients, WaitSucceeds(c) PROVE IInv'
  BY <1>22, ZenonT(60) DEF WaitSucceeds, ClientGoto, ClientCall
<1>23. ASSUME NEW c \in Clients, WaitFails(c) PROVE IInv'
  BY <1>23, ClientExitStep DEF WaitFails, Ended
<1>24. ASSUME NEW c \in Clients, SetMode(c) PROVE IInv'
  BY <1>24, ZenonT(60) DEF SetMode, ClientGoto, ClientCall
<1>25. ASSUME NEW c \in Clients, WriteRequest(c) PROVE IInv'
  <2>0. hnd[c] \in Instances /\ Silent(hnd[c])
    BY <1>25 DEF WriteRequest, Connected
  <2>s. PICK size \in Sizes :
          c2s' = [c2s EXCEPT ![hnd[c]] = Append(@, [from |-> c, size |-> size])]
    BY <1>25 DEF WriteRequest
  <2>m. [from |-> c, size |-> size] \in Messages
    BY DEF Messages
  <2>1. TypeOK'
    BY <1>25, <2>0, <2>s, <2>m DEF WriteRequest, ClientGoto
  <2>2. HandleDiscipline' /\ OneHolder' /\ HolderPhase' /\ InstanceStates'
    BY <1>25 DEF WriteRequest, ClientGoto, Connected
  <2>3. Conversation'
    <3> SUFFICES ASSUME NEW d \in Clients, hnd'[d] # NoPipe
                 PROVE  IF cpc'[d] = "read" THEN Waiting(d, hnd[d])' ELSE Silent(hnd[d])'
      OBVIOUS
    <3>1. CASE d = c
      <4>1. c2s'[hnd[c]] = <<[from |-> c, size |-> size]>>
        BY <2>0, <2>s, OneElement
      <4> QED
        BY <1>25, <2>0, <3>1, <4>1 DEF WriteRequest, ClientGoto
    <3>2. CASE d # c
      <4>1. hnd[d] # hnd[c] /\ c2s'[hnd[d]] = c2s[hnd[d]]
        BY <1>25, <2>0, <2>s, <3>2 DEF WriteRequest
      <4> QED
        BY <1>25, <3>2, <4>1, Undisturbed DEF WriteRequest, ClientGoto
    <3> QED
      BY <3>1, <3>2
  <2> QED BY <2>1, <2>2, <2>3
<1>26. ASSUME NEW c \in Clients, SetupFails(c) PROVE IInv'
  BY <1>26, ClientExitStep DEF SetupFails, Ended
<1>27. ASSUME NEW c \in Clients, ReadReply(c) PROVE IInv'
  <2>1. TypeOK'
    BY <1>27 DEF ReadReply, ClientGoto
  <2>2. HandleDiscipline' /\ OneHolder' /\ HolderPhase' /\ InstanceStates'
    BY <1>27 DEF ReadReply, ClientGoto
  <2>3. Conversation'
    <3> SUFFICES ASSUME NEW d \in Clients, hnd'[d] # NoPipe
                 PROVE  IF cpc'[d] = "read" THEN Waiting(d, hnd[d])' ELSE Silent(hnd[d])'
      OBVIOUS
    <3>1. CASE d = c
      <4>1. hnd[c] \in Instances /\ s2c[hnd[c]] = <<c>>
        BY <1>27 DEF ReadReply
      <4>2. s2c'[hnd[c]] = <<>>
        BY <1>27, <4>1, OneElement DEF ReadReply
      <4> QED
        BY <1>27, <3>1, <4>1, <4>2 DEF ReadReply, ClientGoto
    <3>2. CASE d # c
      <4>1. hnd[d] # hnd[c] /\ s2c'[hnd[d]] = s2c[hnd[d]]
        BY <1>27, <3>2 DEF ReadReply
      <4> QED
        BY <1>27, <3>2, <4>1 DEF ReadReply, ClientGoto
    <3> QED
      BY <3>1, <3>2
  <2> QED BY <2>1, <2>2, <2>3
<1>28. ASSUME NEW c \in Clients, ReadReplyFails(c) PROVE IInv'
  BY <1>28, ClientExitStep DEF ReadReplyFails, Ended
<1>29. ASSUME NEW c \in Clients, ClientClose(c) PROVE IInv'
  BY <1>29, ClientExitStep DEF ClientClose, Ended
<1>30. ASSUME NEW c \in Clients, ClientKilled(c) PROVE IInv'
  BY <1>30, ClientExitStep DEF ClientKilled, Ended
<1>31. CASE UNCHANGED vars
  BY <1>31 DEF vars
<1> QED
  BY <1>1, <1>2, <1>3, <1>4, <1>5, <1>6, <1>7, <1>8, <1>9, <1>10, <1>11, <1>12,
     <1>13, <1>14, <1>15, <1>16, <1>17, <1>18, <1>19, <1>20, <1>21, <1>22,
     <1>23, <1>24, <1>25, <1>26, <1>27, <1>28, <1>29, <1>30, <1>31 DEF Next,
     MainStep, InstanceThread, ClientStep, Environment

LEMMA Initially == Init => IInv
  BY NamesAssumption, Queues
  DEF Init, IInv, TypeOK, HandleDiscipline, MainOwns, ThreadOwns, OneHolder,
      HolderPhase, InstanceStates, Conversation, Held, Ended, Holding, Serving

LEMMA Invariance == Spec => []IInv
<1> QED
  BY Initially, Inductive, PTL DEF Spec

-----------------------------------------------------------------------------
(* Every variable keeps its type: no action of the server or of a client,   *)
(* in whatever order, leaves a handle, buffer or queue with a value the     *)
(* code has no meaning for; an empty request buffer is never replied from.  *)
THEOREM TypeCorrect == Spec => []TypeOK
<1>1. IInv => TypeOK
  BY DEF IInv
<1> QED
  BY <1>1, Invariance, PTL

(* wmain and the instance threads pass each instance from owner to owner    *)
(* and close it once, for any number of clients and instances.              *)
THEOREM HandlesDisciplined == Spec => []HandleDiscipline
<1>1. IInv => HandleDiscipline
  BY DEF IInv
<1> QED
  BY <1>1, Invariance, PTL

(* No client can read another client's reply, or a second one.              *)
THEOREM RepliesIsolated == Spec => []ReplyIsolation
<1>1. IInv => ReplyIsolation
  <2> SUFFICES ASSUME IInv, NEW i \in Instances, s2c[i] # <<>>
               PROVE  \E c \in Clients :
                        hnd[c] = i /\ cpc[c] = "read" /\ s2c[i] = <<c>>
    BY DEF ReplyIsolation
  <2>1. PICK c \in Clients : hnd[c] = i
    BY DEF IInv, InstanceStates, Held
  <2>2. cpc[c] = "read" /\ Waiting(c, i)
    BY <2>1, NamesAssumption DEF IInv, Conversation, Silent
  <2> QED
    BY <2>1, <2>2 DEF Waiting
<1> QED
  BY <1>1, Invariance, PTL

(* However many clients connect and leave, wmain closes only instances      *)
(* whose client has gone.                                                   *)
THEOREM NoLiveClientDropped == Spec => DropsOnlyDeadClients
<1>1. ASSUME IInv, [Next]_vars PROVE [LivePipeKept]_vars
  <2> SUFFICES ASSUME NEW c \in Clients, Connected(c), hnd'[c] = hnd[c],
                      srv'[hnd[c]] = "none", mpc' # "off"
               PROVE  FALSE
    BY DEF LivePipeKept
  <2> DEFINE h == hnd[c]
  <2>0. h \in Instances /\ srv[h] = "connected" /\ srv'[h] = "none" /\ Held(h)
    BY DEF Connected, Held
  <2>t. srv \in [Instances -> {"none", "listening", "connected", "disconnected"}]
    BY <1>1 DEF IInv, TypeOK
  <2> HIDE DEF h
  <2>1. CASE ConnectNamedPipe
    BY <2>0, <2>1, <2>t DEF ConnectNamedPipe, Listening
  <2>2. CASE \E i \in Instances : CloseInstance(i)
    BY <1>1, <2>0, <2>2, <2>t DEF CloseInstance, IInv, InstanceStates
  <2>3. CASE CreateNamedPipeFails \/ CreateThreadFails \/ ServerKilled
    BY <2>3 DEF CreateNamedPipeFails, CreateThreadFails, ServerKilled, ProcessExit
  <2>4. CASE \E i \in Instances : CreateNamedPipe(i) \/ DisconnectNamedPipe(i)
    BY <2>0, <2>4, <2>t DEF CreateNamedPipe, DisconnectNamedPipe
  <2>5. CASE \E d \in Clients : OpenPipe(d)
    BY <2>0, <2>5, <2>t DEF OpenPipe
  <2>6. CASE UNCHANGED srv
    BY <2>0, <2>6
  <2>7. \/ ConnectNamedPipe \/ \E i \in Instances : CloseInstance(i)
        \/ CreateNamedPipeFails \/ CreateThreadFails \/ ServerKilled
        \/ \E i \in Instances : CreateNamedPipe(i) \/ DisconnectNamedPipe(i)
        \/ \E d \in Clients : OpenPipe(d)
        \/ UNCHANGED srv
    BY <1>1 DEF Next, MainStep, InstanceThread, ClientStep, Environment, vars,
       serverVars, ServerStart, ConnectCompletes, CreateThread, ThreadStart,
       ThreadAllocFails, ReadRequest, ReadEnds, ReadFails, WriteFails, AnswerRequest,
       FlushFileBuffers, Launch, OpenBusy, OpenNotFound, WaitSucceeds,
       WaitFails, SetMode, WriteRequest, SetupFails, ReadReply, ReadReplyFails,
       ClientClose, ClientKilled, ClientExit, HandOver, ThreadStep,
       TakeRequest, Broken, Reply, ClientCall
  <2> QED
    BY <2>1, <2>2, <2>3, <2>4, <2>5, <2>6, <2>7
<1> QED
  BY <1>1, Invariance, PTL DEF Spec, DropsOnlyDeadClients

-----------------------------------------------------------------------------
(* The implementation of RequestReply. *)

LEMMA SamePhase ==
  ASSUME IInv, NEW d \in Clients, hnd'[d] = hnd[d], cpc'[d] = cpc[d],
         hnd[d] # NoPipe => s2c'[hnd[d]] = s2c[hnd[d]]
  PROVE  Phase(d)' = Phase(d)
<1>1. cpc[d] = "read" => hnd[d] # NoPipe
  BY DEF IInv, HolderPhase, Holding
<1> QED
  BY <1>1 DEF Phase

LEMMA OneMoves ==
  ASSUME NEW c \in Clients, NEW p, Phase(c)' = p,
         \A d \in Clients \ {c} : Phase(d)' = Phase(d)
  PROVE  RR!Become(c, p)
  BY DEF RR!Become

LEMMA NobodyMoves ==
  ASSUME \A d \in Clients : Phase(d)' = Phase(d)
  PROVE  UNCHANGED [c \in Clients |-> Phase(c)]
  OBVIOUS

(* The end of a run moves its own client's phase only. *)
LEMMA ExitMoves ==
  ASSUME IInv, NEW c \in Clients, NEW how \in Ended, ClientExit(c, how)
  PROVE  RR!Become(c, IF how = "notfound" THEN "failed" ELSE how)
<1>1. Phase(c)' = IF how = "notfound" THEN "failed" ELSE how
  BY DEF ClientExit, ClientGoto, IInv, TypeOK, Phase, Ended
<1>2. ASSUME NEW d \in Clients \ {c} PROVE Phase(d)' = Phase(d)
  <2>1. hnd'[d] = hnd[d] /\ cpc'[d] = cpc[d]
    BY DEF ClientExit, ClientGoto, IInv, TypeOK
  <2>2. hnd[d] # NoPipe => s2c'[hnd[d]] = s2c[hnd[d]]
    BY DEF ClientExit, IInv, TypeOK, OneHolder
  <2> QED
    BY <2>1, <2>2, SamePhase
<1> QED
  BY <1>1, <1>2, OneMoves

(* A step that moves a client's program counter and nothing it reads. *)
LEMMA ClientMoves ==
  ASSUME IInv, NEW c \in Clients, NEW call, ClientGoto(c, call),
         \A d \in Clients \ {c} : hnd'[d] = hnd[d],
         \A d \in Clients \ {c} : hnd[d] # NoPipe => s2c'[hnd[d]] = s2c[hnd[d]]
  PROVE  RR!Become(c, Phase(c)')
<1>1. ASSUME NEW d \in Clients \ {c} PROVE Phase(d)' = Phase(d)
  <2>1. cpc'[d] = cpc[d]
    BY DEF ClientGoto, IInv, TypeOK
  <2> QED
    BY <2>1, SamePhase
<1> QED
  BY <1>1, OneMoves

(* RequestReply!Next, or nothing moves. *)
LEMMA StepImplements ==
  ASSUME IInv, [Next]_vars
  PROVE  [RR!Next]_[c \in Clients |-> Phase(c)]
<1> DEFINE Bar == [c \in Clients |-> Phase(c)]
<1> USE NamesAssumption
<1>1. CASE UNCHANGED <<s2c, cpc, hnd>>
  <2>1. UNCHANGED Bar
    BY <1>1, SamePhase, NobodyMoves
  <2> QED
    BY <2>1
<1>2. ASSUME NEW i \in Instances, CreateNamedPipe(i) PROVE UNCHANGED Bar
  <2>1. UNCHANGED <<cpc, hnd>> /\ \A d \in Clients : hnd[d] # i
    BY <1>2 DEF CreateNamedPipe, clientVars, Free, Held
  <2>2. \A d \in Clients : hnd[d] # NoPipe => s2c'[hnd[d]] = s2c[hnd[d]]
    BY <1>2, <2>1 DEF CreateNamedPipe, IInv, TypeOK
  <2> QED
    BY <2>1, <2>2, SamePhase, NobodyMoves
<1>3. ASSUME NEW i \in Instances, DisconnectNamedPipe(i) PROVE UNCHANGED Bar
  <2>1. UNCHANGED <<cpc, hnd>> /\ s2c[i] = <<>>
    BY <1>3 DEF DisconnectNamedPipe, clientVars, IInv, InstanceStates
  <2>2. s2c' = s2c
    BY <1>3, <2>1 DEF DisconnectNamedPipe, IInv, TypeOK
  <2> QED
    BY <2>1, <2>2, SamePhase, NobodyMoves
<1>4. ASSUME NEW i \in Instances, AnswerRequest(i) PROVE [RR!Next]_Bar
  <2>1. CASE ~Held(i)
    <3>1. UNCHANGED Bar
      BY <1>4, <2>1, SamePhase, NobodyMoves DEF AnswerRequest, clientVars,
         Reply, ThreadStep
    <3> QED
      BY <3>1
  <2>2. CASE Held(i)
    <3>1. PICK c \in Clients : hnd[c] = i
      BY <2>2 DEF Held
    <3>2. cpc[c] = "read" /\ s2c[i] = <<>> /\ req[i] = c
      BY <1>4, <3>1 DEF AnswerRequest, IInv, Conversation, Waiting, Silent,
         Reply, ThreadStep
    <3>3. s2c' = [s2c EXCEPT ![i] = <<c>>] /\ UNCHANGED <<cpc, hnd>>
      BY <1>4, <2>2, <3>2, OneElement DEF AnswerRequest, clientVars, Reply,
         ThreadStep
    <3>4. Phase(c) = "asked" /\ Phase(c)' = "answered"
      <4>1. s2c'[hnd'[c]] = <<c>> /\ cpc'[c] = "read" /\ s2c[hnd[c]] # <<c>>
        BY <3>1, <3>2, <3>3, OneElement DEF IInv, TypeOK
      <4> QED
        BY <3>2, <4>1 DEF Phase, Ended
    <3>5. ASSUME NEW d \in Clients \ {c} PROVE Phase(d)' = Phase(d)
      <4>1. hnd[d] # NoPipe => hnd[d] # i /\ s2c'[hnd[d]] = s2c[hnd[d]]
        BY <3>1, <3>3 DEF IInv, OneHolder, TypeOK
      <4> QED
        BY <3>3, <4>1, SamePhase
    <3>6. RR!Become(c, "answered")
      BY <3>4, <3>5, OneMoves
    <3>7. RR!Answer(c)
      BY <3>4, <3>6 DEF RR!Answer
    <3> QED
      BY <3>7 DEF RR!Next
  <2> QED
    BY <2>1, <2>2
<1>5. ASSUME NEW c \in Clients, Launch(c) PROVE RR!Start(c)
  <2>1. Phase(c) \in RR!Over /\ Phase(c)' = "out"
    BY <1>5 DEF Launch, ClientGoto, IInv, TypeOK, Phase, RR!Over, Ended, ClientCall
  <2>2. RR!Become(c, Phase(c)')
    BY <1>5, ClientMoves DEF Launch, ClientCall
  <2> QED
    BY <2>1, <2>2 DEF RR!Start
<1>6. ASSUME NEW c \in Clients,
             OpenPipe(c) \/ OpenBusy(c) \/ WaitSucceeds(c) \/ SetMode(c)
      PROVE  UNCHANGED Bar
  <2>1. Phase(c)' = Phase(c)
    BY <1>6 DEF OpenPipe, OpenBusy, WaitSucceeds, SetMode, ClientGoto, IInv,
       TypeOK, Phase, Ended, ClientCall
  <2>2. ASSUME NEW d \in Clients \ {c} PROVE Phase(d)' = Phase(d)
    <3>1. cpc'[d] = cpc[d] /\ hnd'[d] = hnd[d] /\ s2c' = s2c
      BY <1>6 DEF OpenPipe, OpenBusy, WaitSucceeds, SetMode, ClientGoto, IInv,
         TypeOK, ClientCall
    <3> QED
      BY <3>1, SamePhase
  <2> QED
    BY <2>1, <2>2, NobodyMoves
<1>7. ASSUME NEW c \in Clients, WriteRequest(c) PROVE RR!Ask(c)
  <2>1. Phase(c) = "out"
    BY <1>7 DEF WriteRequest, Phase, Ended
  <2>2. hnd[c] # NoPipe /\ s2c[hnd[c]] = <<>>
    BY <1>7 DEF WriteRequest, Connected, IInv, Conversation, Silent
  <2>3. s2c'[hnd'[c]] # <<c>>
    BY <1>7, <2>2, OneElement DEF WriteRequest
  <2>4. Phase(c)' = "asked"
    <3>1. cpc'[c] = "read"
      BY <1>7 DEF WriteRequest, ClientGoto, IInv, TypeOK
    <3> QED
      BY <2>3, <3>1 DEF Phase, Ended
  <2>5. RR!Become(c, Phase(c)')
    BY <1>7, ClientMoves DEF WriteRequest
  <2> QED
    BY <2>1, <2>4, <2>5 DEF RR!Ask
<1>8. ASSUME NEW c \in Clients, ReadReply(c) PROVE RR!Receive(c)
  <2>1. hnd[c] # NoPipe /\ s2c[hnd[c]] = <<c>>
    BY <1>8 DEF ReadReply, IInv, HolderPhase, Holding, Conversation, Waiting
  <2>2. Phase(c) = "answered" /\ Phase(c)' = "got"
    BY <1>8, <2>1 DEF ReadReply, ClientGoto, IInv, TypeOK, Phase, Ended
  <2>3. \A d \in Clients \ {c} : hnd[d] # NoPipe => s2c'[hnd[d]] = s2c[hnd[d]]
    BY <1>8, <2>1 DEF ReadReply, IInv, TypeOK, OneHolder
  <2>4. RR!Become(c, Phase(c)')
    BY <1>8, <2>3, ClientMoves DEF ReadReply
  <2> QED
    BY <2>2, <2>4 DEF RR!Receive
<1>9. ASSUME NEW c \in Clients, ClientClose(c) PROVE RR!Finish(c)
  <2>1. Phase(c) = "got"
    BY <1>9 DEF ClientClose, Phase, Ended
  <2>2. RR!Become(c, "ok")
    BY <1>9, ExitMoves DEF ClientClose, Ended
  <2> QED
    BY <2>1, <2>2 DEF RR!Finish
<1>10. ASSUME NEW c \in Clients,
              \/ OpenNotFound(c) \/ WaitFails(c)
              \/ SetupFails(c) \/ ReadReplyFails(c)
       PROVE  RR!GiveUp(c)
  <2>1. Phase(c) \in {"out", "asked"}
    BY <1>10, OneElement DEF OpenNotFound, WaitFails, SetupFails,
       ReadReplyFails, Phase, Ended
  <2>2. RR!Become(c, "failed")
    BY <1>10, ExitMoves DEF OpenNotFound, WaitFails, SetupFails,
       ReadReplyFails, Ended
  <2> QED
    BY <2>1, <2>2 DEF RR!GiveUp
<1>11. ASSUME NEW c \in Clients, ClientKilled(c) PROVE RR!Killed(c)
  <2>1. Phase(c) \in RR!Underway
    BY <1>11 DEF ClientKilled, IInv, TypeOK, Phase, Ended, Holding, RR!Underway
  <2>2. RR!Become(c, "killed")
    BY <1>11, ExitMoves DEF ClientKilled, Ended
  <2> QED
    BY <2>1, <2>2 DEF RR!Killed
<1>12. \/ UNCHANGED <<s2c, cpc, hnd>>
       \/ \E i \in Instances :
            CreateNamedPipe(i) \/ DisconnectNamedPipe(i) \/ AnswerRequest(i)
       \/ \E c \in Clients :
            \/ Launch(c) \/ OpenPipe(c) \/ OpenBusy(c) \/ WaitSucceeds(c)
            \/ SetMode(c) \/ WriteRequest(c) \/ ReadReply(c) \/ ClientClose(c)
            \/ OpenNotFound(c) \/ WaitFails(c) \/ SetupFails(c)
            \/ ReadReplyFails(c) \/ ClientKilled(c)
  BY DEF Next, MainStep, InstanceThread, ClientStep, Environment, vars,
     clientVars, ServerStart, CreateNamedPipeFails, ConnectNamedPipe,
     ConnectCompletes, CreateThread, CreateThreadFails, ServerKilled,
     ProcessExit, ThreadStart, ThreadAllocFails, ReadRequest, ReadEnds,
     ReadFails, WriteFails, FlushFileBuffers, CloseInstance, HandOver, ThreadStep,
     TakeRequest, Broken
<1> HIDE DEF Bar
<1> QED
  BY <1>1, <1>2, <1>3, <1>4, <1>5, <1>6, <1>7, <1>8, <1>9, <1>10, <1>11,
     <1>12 DEF RR!Next, Bar

(* Whatever the threads, instances and other clients do, each client sees   *)
(* the one-question session of RequestReply: its own answer, read or dying  *)
(* with it, and never lost by the server.                                   *)
THEOREM ImplementsRequestReply == Spec => Session
<1>1. Init => RR!Init
  BY DEF Init, RR!Init, Phase, Ended
<1>2. IInv /\ [Next]_vars => [RR!Next]_[c \in Clients |-> Phase(c)]
  BY StepImplements
<1> QED
  BY <1>1, <1>2, Invariance, PTL DEF Spec, Session, RR!Spec

-----------------------------------------------------------------------------
(* No client waits for an answer that nobody will write.                    *)

(* Until a thread has read it, a waiting client's request is in the pipe;   *)
(* afterwards the thread does not read again before it has answered.        *)
Unread(c) ==
  cpc[c] = "read" /\ (MainOwns(hnd[c]) \/ tpc[hnd[c]] \in {"start", "read"})
    => c2s[hnd[c]] # <<>> \/ s2c[hnd[c]] # <<>>

RequestsKept == \A c \in Clients : Unread(c)

(* A client in ReadFile can go on, or somebody on whom it waits can: wmain, *)
(* which still owns its instance, or the instance's thread at a call that   *)
(* does not block; but the thread may have died for lack of memory.         *)
SomebodyGoesOn(c, i) ==
  \/ s2c[i] # <<>> \/ ~Connected(c)
  \/ MainOwns(i)
  \/ tpc[i] \in {"start", "answer", "flush", "disconnect", "close"}
  \/ tpc[i] = "read" /\ c2s[i] # <<>>
  \/ tpc[i] = "dead"

NoSilentWait ==
  \A c \in Clients : cpc[c] = "read" => SomebodyGoesOn(c, hnd[c])

LEMMA UnreadStays ==
  ASSUME NEW d \in Clients, Unread(d), hnd'[d] = hnd[d], cpc'[d] = cpc[d],
         c2s'[hnd[d]] = c2s[hnd[d]], s2c'[hnd[d]] = s2c[hnd[d]],
         MainOwns(hnd[d])' \/ tpc'[hnd[d]] \in {"start", "read"}
           => MainOwns(hnd[d]) \/ tpc[hnd[d]] \in {"start", "read"}
  PROVE  Unread(d)'
  BY DEF Unread

LEMMA ServerKeepsRequests ==
  ASSUME IInv, NEW d \in Clients, Unread(d),
         \/ ServerStart \/ MainStep \/ ProcessExit
         \/ \E i \in Instances : InstanceThread(i) \/ ReadFails(i) \/ WriteFails(i)
  PROVE  Unread(d)'
<1> USE NamesAssumption, Queues
<1>0. /\ tpc \in [Instances -> Serving \cup {"none", "dead"}]
      /\ c2s \in [Instances -> Seq(Messages)] /\ s2c \in [Instances -> Seq(Clients)]
      /\ cpc[d] = "read" => hnd[d] \in Instances /\ Held(hnd[d])
  BY DEF IInv, TypeOK, HolderPhase, Holding, Held
<1>1. CASE ServerStart \/ ProcessExit
  BY <1>0, <1>1 DEF ServerStart, ProcessExit, clientVars, Unread, MainOwns
<1>2. ASSUME NEW i \in Instances, CreateNamedPipe(i)
      PROVE  Unread(d)'
  BY <1>0, <1>2 DEF CreateNamedPipe, Free, clientVars, Unread, MainOwns
<1>3. CASE CreateNamedPipeFails
  BY <1>1, <1>3 DEF CreateNamedPipeFails
<1>4. CASE ConnectNamedPipe \/ ConnectCompletes
  BY <1>4 DEF ConnectNamedPipe, ConnectCompletes, clientVars, Unread, MainOwns
<1>5. CASE CreateThread
  BY <1>0, <1>5 DEF CreateThread, HandOver, clientVars, Unread, MainOwns
<1>6. ASSUME NEW i \in Instances,
             \/ ThreadStart(i) \/ ThreadAllocFails(i) \/ ReadEnds(i)
             \/ ReadFails(i) \/ WriteFails(i)
             \/ FlushFileBuffers(i) \/ ThreadStep(i, "read", "flush")
             \/ ThreadStep(i, "answer", "flush")
      PROVE  Unread(d)'
  BY <1>0, <1>6 DEF ThreadStart, ThreadAllocFails, ReadEnds, ReadFails, WriteFails,
                    FlushFileBuffers, ThreadStep, ThreadGoto, clientVars, Unread, MainOwns
<1>7. ASSUME NEW i \in Instances, TakeRequest(i)
      PROVE  Unread(d)'
  <2>1. /\ tpc[i] = "read" /\ UNCHANGED <<mpc, hPipe, srv, s2c, clientVars>>
        /\ tpc'[i] = "answer" /\ \A j \in Instances : j # i => tpc'[j] = tpc[j] /\ c2s'[j] = c2s[j]
    BY <1>0, <1>7 DEF TakeRequest, ThreadGoto
  <2>2. ~MainOwns(i)
    BY <2>1 DEF IInv, HandleDiscipline, ThreadOwns
  <2> QED
    BY <1>0, <2>1, <2>2 DEF clientVars, Unread, MainOwns
<1>8. ASSUME NEW i \in Instances, Reply(i, i)
      PROVE  Unread(d)'
  <2>1. /\ UNCHANGED <<mpc, hPipe, srv, c2s, clientVars>> /\ s2c'[i] = Append(s2c[i], req[i])
        /\ \A j \in Instances : j # i => tpc'[j] = tpc[j] /\ s2c'[j] = s2c[j]
    BY <1>0, <1>8 DEF Reply, ThreadGoto
  <2>2. s2c'[i] # <<>>
    <3>1. req[i] \in Clients
      BY <1>8 DEF Reply, IInv, TypeOK, Held, Conversation, Waiting, Silent
    <3>2. \A q \in Seq(Clients), c \in Clients : Append(q, c) # <<>>
      OBVIOUS
    <3> QED
      BY <1>0, <2>1, <3>1, <3>2
  <2> QED
    BY <1>0, <2>1, <2>2 DEF clientVars, Unread, MainOwns
<1>9. ASSUME NEW i \in Instances, DisconnectNamedPipe(i) \/ CloseInstance(i)
      PROVE  Unread(d)'
  <2>1. /\ tpc[i] \in {"disconnect", "close"} /\ tpc'[i] \in {"close", "none"}
        /\ UNCHANGED <<mpc, hPipe, clientVars>>
        /\ \A j \in Instances : j # i => tpc'[j] = tpc[j] /\ s2c'[j] = s2c[j] /\ c2s'[j] = c2s[j]
    BY <1>0, <1>9 DEF DisconnectNamedPipe, CloseInstance, ThreadGoto
  <2>2. ~MainOwns(i)
    BY <2>1 DEF IInv, HandleDiscipline, ThreadOwns
  <2> QED
    BY <1>0, <2>1, <2>2 DEF clientVars, Unread, MainOwns
<1> QED
  BY <1>1, <1>2, <1>3, <1>4, <1>5, <1>6, <1>7, <1>8, <1>9
     DEF MainStep, InstanceThread, ReadRequest, AnswerRequest

LEMMA ClientsKeepRequests ==
  ASSUME IInv, NEW d \in Clients, Unread(d), NEW c \in Clients,
         ClientStep(c) \/ Launch(c) \/ ClientKilled(c)
  PROVE  Unread(d)'
<1> USE NamesAssumption, Queues
<1>0. /\ cpc \in [Clients -> Ended \cup Holding \cup {"open", "busy"}]
      /\ hnd \in [Clients -> Instances \cup {NoPipe}]
      /\ c2s \in [Instances -> Seq(Messages)] /\ s2c \in [Instances -> Seq(Clients)]
      /\ cpc[d] = "read" => hnd[d] \in Instances
      /\ hnd[c] = hnd[d] /\ hnd[c] # NoPipe => c = d
  BY DEF IInv, TypeOK, HolderPhase, Holding, OneHolder
<1>1. ASSUME NEW call, NEW next \in {"open", "busy", "write"}, ClientCall(c, call, next)
      PROVE  Unread(d)'
  BY <1>0, <1>1 DEF ClientCall, ClientGoto, serverVars, Unread, MainOwns
<1>2. ASSUME NEW how \in Ended, ClientExit(c, how)
      PROVE  Unread(d)'
  <2>1. CASE d = c
    BY <1>0, <1>2, <2>1 DEF ClientExit, ClientGoto, Unread, Ended
  <2>2. CASE d # c
    <3>1. cpc'[d] = cpc[d] /\ hnd'[d] = hnd[d] /\ UNCHANGED <<serverVars, c2s>>
      BY <1>0, <1>2, <2>2 DEF ClientExit, ClientGoto
    <3>2. cpc[d] = "read" => s2c'[hnd[d]] = s2c[hnd[d]]
      BY <1>0, <1>2, <2>2 DEF ClientExit
    <3> QED
      BY <3>1, <3>2 DEF serverVars, Unread, MainOwns
  <2> QED
    BY <2>1, <2>2
<1>3. CASE OpenPipe(c)
  BY <1>0, <1>3 DEF OpenPipe, ClientGoto, Unread, MainOwns
<1>4. CASE WriteRequest(c)
  <2>1. PICK size \in Sizes :
          c2s' = [c2s EXCEPT ![hnd[c]] = Append(@, [from |-> c, size |-> size])]
    BY <1>4 DEF WriteRequest
  <2>2. hnd[c] \in Instances /\ UNCHANGED <<serverVars, s2c, hnd>>
    BY <1>4 DEF WriteRequest, Connected
  <2>3. c2s'[hnd[c]] # <<>>
    BY <1>0, <2>1, <2>2, SMTT(30) DEF Messages
  <2>4. d # c => cpc'[d] = cpc[d]
    BY <1>0, <1>4 DEF WriteRequest, ClientGoto
  <2>5. d # c /\ cpc[d] = "read" => c2s'[hnd[d]] = c2s[hnd[d]]
    BY <1>0, <2>1, <2>2
  <2> QED
    BY <2>2, <2>3, <2>4, <2>5 DEF serverVars, Unread, MainOwns
<1>5. CASE ReadReply(c)
  <2>1. cpc'[c] = "close" /\ UNCHANGED <<serverVars, c2s, hnd>> /\ (d # c => cpc'[d] = cpc[d])
    BY <1>0, <1>5 DEF ReadReply, ClientGoto
  <2>2. d # c /\ cpc[d] = "read" => s2c'[hnd[d]] = s2c[hnd[d]]
    <3>1. cpc[c] = "read" => hnd[c] # NoPipe
      BY DEF IInv, HolderPhase, Holding
    <3> QED
      BY <1>0, <1>5, <3>1 DEF ReadReply
  <2> QED
    BY <2>1, <2>2 DEF serverVars, Unread, MainOwns
<1>6. \/ \E call : \E next \in {"open", "busy", "write"} : ClientCall(c, call, next)
      \/ \E how \in Ended : ClientExit(c, how)
      \/ OpenPipe(c) \/ WriteRequest(c) \/ ReadReply(c)
  <2>1. CASE Launch(c)
    BY <2>1 DEF Launch
  <2>2. CASE ClientKilled(c)
    BY <2>2 DEF ClientKilled, Ended
  <2>3. CASE ClientStep(c)
    BY <2>3 DEF ClientStep, OpenBusy, OpenNotFound, WaitSucceeds, WaitFails, SetMode, SetupFails,
                ReadReplyFails, ClientClose, Ended
  <2> QED
    BY <2>1, <2>2, <2>3
<1> QED
  BY <1>1, <1>2, <1>3, <1>4, <1>5, <1>6

LEMMA RequestsStep == IInv /\ RequestsKept /\ [Next]_vars => RequestsKept'
<1> SUFFICES ASSUME IInv, RequestsKept, [Next]_vars, NEW d \in Clients
             PROVE  Unread(d)'
  BY DEF RequestsKept
<1>1. Unread(d)
  BY DEF RequestsKept
<1>2. CASE UNCHANGED vars
  BY <1>1, <1>2 DEF vars, Unread, MainOwns
<1>3. CASE \/ ServerStart \/ MainStep \/ ProcessExit
           \/ \E i \in Instances : InstanceThread(i) \/ ReadFails(i) \/ WriteFails(i)
  BY <1>1, <1>3, ServerKeepsRequests
<1>4. ASSUME NEW c \in Clients, ClientStep(c) \/ Launch(c) \/ ClientKilled(c)
      PROVE  Unread(d)'
  BY <1>1, <1>4, ClientsKeepRequests
<1> QED
  BY <1>2, <1>3, <1>4 DEF Next, Environment, ServerKilled, CreateThreadFails

(* However threads, clients and instances interleave, and whatever fails    *)
(* but the allocation of a thread's buffers, a client in ReadFile never     *)
(* waits for a server that waits for it: the safety half of                 *)
(* FinishesUnlessAbandoned.                                                 *)
THEOREM NobodyWaitsInVain == Spec => []NoSilentWait
<1>1. Init => RequestsKept
  BY DEF Init, RequestsKept, Unread
<1>2. IInv /\ RequestsKept => NoSilentWait
  <2> SUFFICES ASSUME IInv, NEW c \in Clients, Unread(c), cpc[c] = "read"
               PROVE  SomebodyGoesOn(c, hnd[c])
    BY DEF RequestsKept, NoSilentWait
  <2>1. hnd[c] \in Instances
    BY NamesAssumption DEF IInv, TypeOK, HolderPhase, Holding
  <2>2. CASE ~Connected(c) \/ MainOwns(hnd[c])
    BY <2>2 DEF SomebodyGoesOn
  <2>3. CASE Connected(c) /\ ~MainOwns(hnd[c])
    <3>1. tpc[hnd[c]] \in Serving \cup {"dead"}
      BY <2>1, <2>3 DEF Connected, IInv, TypeOK, HandleDiscipline, ThreadOwns
    <3> QED
      BY <3>1 DEF SomebodyGoesOn, Unread, Serving
  <2> QED
    BY <2>2, <2>3
<1> QED
  BY <1>1, <1>2, RequestsStep, Invariance, PTL DEF Spec

(* "This loop is free to wait for the next client": where wmain waits it    *)
(* waits for a client, or has one, never on an instance that can no longer  *)
(* be connected to.                                                         *)
WaitsForClientOnly ==
  mpc \in {"connect", "waiting"} => Listening(hPipe) \/ srv[hPipe] = "connected"

(* wmain has an instance from CreateNamedPipe to CreateThread. *)
HasInstance == mpc \in {"connect", "waiting", "spawn"} => hPipe \in Instances

LEMMA HasInstanceStep == TypeOK /\ HasInstance /\ [Next]_vars => HasInstance'
<1> SUFFICES ASSUME TypeOK, HasInstance, [Next]_vars PROVE HasInstance'
  OBVIOUS
<1>1. CASE UNCHANGED <<mpc, hPipe>>
  BY <1>1 DEF HasInstance
<1>2. CASE ServerStart \/ MainStep \/ ProcessExit
  BY <1>2 DEF ServerStart, MainStep, CreateNamedPipe, CreateNamedPipeFails, ConnectNamedPipe,
              ConnectCompletes, CreateThread, HandOver, ProcessExit, HasInstance
<1>3. ASSUME NEW i \in Instances, InstanceThread(i) \/ ReadFails(i) \/ WriteFails(i)
      PROVE  UNCHANGED <<mpc, hPipe>>
  BY <1>3 DEF InstanceThread, ThreadStart, ThreadAllocFails, ReadRequest, TakeRequest, ReadEnds,
              ReadFails, WriteFails, AnswerRequest, Reply, FlushFileBuffers, DisconnectNamedPipe,
              CloseInstance, ThreadStep
<1>4. ASSUME NEW c \in Clients, ClientStep(c) \/ Launch(c) \/ ClientKilled(c)
      PROVE  UNCHANGED <<mpc, hPipe>>
  BY <1>4 DEF ClientStep, Launch, ClientKilled, OpenPipe, OpenBusy, OpenNotFound, WaitSucceeds,
              WaitFails, SetMode, WriteRequest, SetupFails, ReadReply, ReadReplyFails,
              ClientClose, ClientCall, ClientExit, serverVars
<1> QED
  BY <1>1, <1>2, <1>3, <1>4 DEF Next, Environment, ServerKilled, CreateThreadFails, vars

(* In particular ConnectNamedPipe returns or a client can make it return:   *)
(* the part of AcceptLoopFree that depends on threads and clients.          *)
THEOREM AcceptWaitsForClients == Spec => []WaitsForClientOnly
<1>1. IInv /\ HasInstance => WaitsForClientOnly
  BY DEF IInv, InstanceStates, MainOwns, Listening, HasInstance, WaitsForClientOnly
<1>2. Init => HasInstance
  BY DEF Init, HasInstance
<1>3. IInv => TypeOK
  BY DEF IInv
<1> QED
  BY <1>1, <1>2, <1>3, HasInstanceStep, Invariance, PTL DEF Spec
=============================================================================
