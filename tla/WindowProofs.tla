---------------------------- MODULE WindowProofs ----------------------------
(***************************************************************************)
(* Proofs about the two programs that live by window messages: Clipboard   *)
(* for any set of texts, who has the clipboard open and that a worker      *)
(* shows the text that is on it unless its own dialog replaces it; and     *)
(* DataCopy, any number of programs and Notepads.                          *)
(***************************************************************************)
EXTENDS Clipboard, TLAPS

(* A worker that has text to show has the clipboard open, or its UI thread  *)
(* has taken it over: no other program can replace the text before its own  *)
(* UI thread has, with its SetClipboardData.                                *)
ShownUnderLock ==
  \A p \in Procs : worker[p] = "show" =>
    \/ got[p] = Freed
    \/ /\ got[p] = clip
       /\ \/ lock = <<p, "worker">>
          \/ lock = <<p, "ui">> /\ ui[p] \in {"signal", "set"}

(* A process that is not running has no worker. *)
OffIsQuiet == \A p \in Procs : ui[p] = "off" => worker[p] = "none"

IInv == TypeOK /\ ClipboardReturned /\ ShownUnderLock /\ OffIsQuiet

LEMMA ThreadsDiffer ==
  ASSUME NEW p \in Procs, NEW q \in Procs, NEW k \in {"ui", "worker"}
  PROVE  /\ <<p, k>> \in Threads /\ <<p, k>> # Nobody /\ <<p, k>> # Other
         /\ p # q => <<p, k>> # <<q, k>>
         /\ <<p, "ui">> # <<q, "worker">>
  BY NamesAssumption DEF Threads

LEMMA WindowsApart ==
  ASSUME NEW p \in Procs, NEW q \in Procs, p # q, NEW o \in OwnThreads(q)
  PROVE  o \notin {Nobody} \cup OwnThreads(p)
  BY NamesAssumption DEF OwnThreads, Threads

LEMMA PeerIsOther ==
  \A p \in Procs : Peer(p) \in Procs /\ Peer(p) # p /\ Peer(Peer(p)) = p
  BY NamesAssumption DEF Peer, Procs

LEMMA SignalTypes ==
  ASSUME TypeOK, NEW p \in Procs, Signal(p)
  PROVE  event' \in [Procs -> {"none", "clear", "set"}] /\ opened' \in [Procs -> BOOLEAN]
  BY PeerIsOther DEF TypeOK, Signal

LEMMA Initially == Init => IInv
  BY NamesAssumption
  DEF Init, IInv, TypeOK, HandlesValid, HasOwnEvent, ClipboardReturned, ShownUnderLock, OffIsQuiet, MaybeText, Threads

(* Events come with the first handle and go with the last. *)
LEMMA HandlesStep ==
  ASSUME IInv, [Next]_vars
  PROVE  HandlesValid'
<1> SUFFICES ASSUME NEW q \in Procs, (opened[q] \/ HasOwnEvent(Peer(q)))'
             PROVE  event'[Peer(q)] # "none"
  BY PeerIsOther DEF HandlesValid
<1> USE PeerIsOther
    DEF IInv, TypeOK, HandlesValid, HasOwnEvent, UiGoto, WorkerGoto
<1>1. ASSUME NEW p \in Procs, ProcessExit(p) PROVE event'[Peer(q)] # "none"
  <2>1. CASE p = q
    BY <1>1, <2>1 DEF ProcessExit
  <2>2. CASE p = Peer(q)
    BY <1>1, <2>2 DEF ProcessExit
  <2> QED
    BY <2>1, <2>2 DEF Procs, Peer
<1>2. ASSUME NEW p \in Procs, SignalPeer(p) PROVE event'[Peer(q)] # "none"
  BY <1>2 DEF SignalPeer, Signal
<1>3. ASSUME NEW p \in Procs, CreateEvent(p) PROVE event'[Peer(q)] # "none"
  BY <1>3 DEF CreateEvent
<1>4. ASSUME NEW p \in Procs, WaitForSingleObject(p) PROVE event'[Peer(q)] # "none"
  BY <1>4 DEF WaitForSingleObject
<1>5. ASSUME NEW p \in Procs, OnInitDialog(p) PROVE event'[Peer(q)] # "none"
  BY <1>5 DEF OnInitDialog
<1>6. ASSUME NEW p \in Procs,
             \/ OnBnClickedClipButton(p) \/ SetClipboardData(p)
             \/ CloseClipboard(p) \/ DismissDialog(p)
      PROVE  event'[Peer(q)] # "none"
  BY <1>6 DEF OnBnClickedClipButton, SetClipboardData, CloseClipboard, DismissDialog
<1>7. ASSUME NEW p \in Procs,
             \/ CreateEventFails(p) \/ OpenClipboard(p)
             \/ GetClipboardData(p) \/ SetWindowText(p) \/ WorkerCloses(p)
      PROVE  event'[Peer(q)] # "none"
  BY <1>7 DEF CreateEventFails, OpenClipboard, GetClipboardData, SetWindowText, WorkerCloses
<1>8. CASE OtherOpens \/ OtherCloses \/ UNCHANGED vars
  BY <1>8 DEF OtherOpens, OtherCloses, vars
<1> QED
  BY <1>1, <1>2, <1>3, <1>4, <1>5, <1>6, <1>7, <1>8
  DEF Next, UiStep, WorkerStep, Environment, Exit, Killed

LEMMA ProcessExitStep ==
  ASSUME IInv, NEW p \in Procs, ProcessExit(p), HandlesValid'
  PROVE  IInv'
<1> USE ThreadsDiffer, PeerIsOther DEF IInv, ProcessExit, UiGoto, WorkerGoto, OwnThreads
<1>1. TypeOK'
  BY DEF TypeOK, MaybeText
<1>2. ClipboardReturned'
  BY DEF TypeOK, ClipboardReturned
<1>3. ShownUnderLock'
  BY DEF TypeOK, ShownUnderLock
<1>4. OffIsQuiet'
  BY DEF TypeOK, OffIsQuiet
<1> QED
  BY <1>1, <1>2, <1>3, <1>4

LEMMA Inductive == IInv /\ [Next]_vars => IInv'
<1> SUFFICES ASSUME IInv, [Next]_vars PROVE IInv'
  OBVIOUS
<1>0. HandlesValid'
  BY HandlesStep
<1> USE <1>0, NamesAssumption, ThreadsDiffer, PeerIsOther
    DEF IInv, TypeOK, ClipboardReturned, ShownUnderLock, OffIsQuiet, MaybeText, Sending,
        UiGoto, WorkerGoto, OwnThreads, CanOpen, Opens, Closes
<1>1. ASSUME NEW p \in Procs, OnInitDialog(p) PROVE IInv'
  <2>1. TypeOK'
    BY <1>1 DEF OnInitDialog
  <2>2. ClipboardReturned'
    BY <1>1 DEF OnInitDialog
  <2>3. ShownUnderLock' /\ OffIsQuiet'
    BY <1>1 DEF OnInitDialog
  <2> QED
    BY <2>1, <2>2, <2>3
<1>2. ASSUME NEW p \in Procs, OnBnClickedClipButton(p) PROVE IInv'
  <2>1. TypeOK'
    <3>1. lock' \in Threads \cup {Nobody, Other}
      BY <1>2 DEF OnBnClickedClipButton
    <3> QED
      BY <1>2, <3>1 DEF OnBnClickedClipButton
  <2>2. ClipboardReturned'
    BY <1>2 DEF OnBnClickedClipButton
  <2>3. ShownUnderLock'
    <3> SUFFICES ASSUME NEW q \in Procs, worker'[q] = "show", got'[q] # Freed
                 PROVE  /\ got'[q] = clip'
                        /\ \/ lock' = <<q, "worker">>
                           \/ lock' = <<q, "ui">> /\ ui'[q] \in {"signal", "set"}
      OBVIOUS
    <3>1. worker[q] = "show" /\ got[q] = clip /\ lock \in OwnThreads(q)
      BY <1>2 DEF OnBnClickedClipButton
    <3>2. CASE q = p
      BY <1>2, <3>1, <3>2 DEF OnBnClickedClipButton
    <3>3. CASE q # p
      <4>1. lock \notin {Nobody} \cup OwnThreads(p)
        BY ONLY <3>1, <3>3, WindowsApart, p \in Procs, q \in Procs
      <4> QED
        BY <1>2, <3>1, <3>3, <4>1 DEF OnBnClickedClipButton
    <3> QED
      BY <3>2, <3>3
  <2>4. OffIsQuiet'
    BY <1>2 DEF OnBnClickedClipButton
  <2> QED
    BY <2>1, <2>2, <2>3, <2>4
<1>3. ASSUME NEW p \in Procs, SignalPeer(p) PROVE IInv'
  <2>1. TypeOK'
    <3>1. event' \in [Procs -> {"none", "clear", "set"}] /\ opened' \in [Procs -> BOOLEAN]
      BY ONLY <1>3, IInv, SignalTypes DEF IInv, SignalPeer
    <3> QED
      BY <1>3, <3>1 DEF SignalPeer
  <2>2. ClipboardReturned'
    BY <1>3 DEF SignalPeer, Signal
  <2>3. ShownUnderLock' /\ OffIsQuiet'
    BY <1>3 DEF SignalPeer, Signal
  <2> QED
    BY <2>1, <2>2, <2>3
<1>4. ASSUME NEW p \in Procs, SetClipboardData(p) PROVE IInv'
  <2>1. TypeOK'
    BY <1>4 DEF SetClipboardData
  <2>2. ClipboardReturned'
    BY <1>4 DEF SetClipboardData
  <2>3. ShownUnderLock' /\ OffIsQuiet'
    BY <1>4 DEF SetClipboardData
  <2> QED
    BY <2>1, <2>2, <2>3
<1>5. ASSUME NEW p \in Procs, CloseClipboard(p) PROVE IInv'
  <2>1. TypeOK'
    BY <1>5 DEF CloseClipboard
  <2>2. ClipboardReturned'
    BY <1>5 DEF CloseClipboard
  <2>3. ShownUnderLock' /\ OffIsQuiet'
    BY <1>5 DEF CloseClipboard
  <2> QED
    BY <2>1, <2>2, <2>3
<1>6. ASSUME NEW p \in Procs, DismissDialog(p) PROVE IInv'
  BY <1>6 DEF DismissDialog
<1>7. ASSUME NEW p \in Procs, Exit(p) \/ Killed(p) PROVE IInv'
  BY <1>7, ProcessExitStep DEF Exit, Killed
<1>8. ASSUME NEW p \in Procs, CreateEvent(p) PROVE IInv'
  BY <1>8 DEF CreateEvent
<1>9. ASSUME NEW p \in Procs, CreateEventFails(p) PROVE IInv'
  BY <1>9 DEF CreateEventFails
<1>10. ASSUME NEW p \in Procs, WaitForSingleObject(p) PROVE IInv'
  <2>1. TypeOK'
    BY <1>10 DEF WaitForSingleObject
  <2>2. ClipboardReturned'
    BY <1>10 DEF WaitForSingleObject
  <2>3. ShownUnderLock' /\ OffIsQuiet'
    BY <1>10 DEF WaitForSingleObject
  <2> QED
    BY <2>1, <2>2, <2>3
<1>11. ASSUME NEW p \in Procs, OpenClipboard(p) PROVE IInv'
  <2>1. TypeOK'
    <3>1. lock' \in Threads \cup {Nobody, Other}
      BY <1>11 DEF OpenClipboard
    <3> QED
      BY <1>11, <3>1 DEF OpenClipboard
  <2>2. ClipboardReturned'
    BY <1>11 DEF OpenClipboard
  <2>3. ShownUnderLock'
    <3> SUFFICES ASSUME NEW q \in Procs, worker'[q] = "show", got'[q] # Freed
                 PROVE  /\ got'[q] = clip'
                        /\ \/ lock' = <<q, "worker">>
                           \/ lock' = <<q, "ui">> /\ ui'[q] \in {"signal", "set"}
      OBVIOUS
    <3>1. worker[q] = "show" /\ q # p
      BY <1>11 DEF OpenClipboard
    <3>2. got[q] = clip /\ lock \in OwnThreads(q)
      BY <1>11, <3>1 DEF OpenClipboard
    <3>3. lock \notin {Nobody} \cup OwnThreads(p)
      BY ONLY <3>1, <3>2, WindowsApart, p \in Procs, q \in Procs
    <3> QED
      BY <1>11, <3>1, <3>2, <3>3 DEF OpenClipboard
  <2>4. OffIsQuiet'
    BY <1>11 DEF OpenClipboard
  <2> QED
    BY <2>1, <2>2, <2>3, <2>4
<1>17. ASSUME NEW p \in Procs, GetClipboardData(p) PROVE IInv'
  <2>1. TypeOK'
    BY <1>17 DEF GetClipboardData, FindsText
  <2>2. ClipboardReturned'
    BY <1>17 DEF GetClipboardData, FindsText
  <2>3. ShownUnderLock' /\ OffIsQuiet'
    BY <1>17 DEF GetClipboardData, FindsText
  <2> QED
    BY <2>1, <2>2, <2>3
<1>12. ASSUME NEW p \in Procs, SetWindowText(p) PROVE IInv'
  <2>1. TypeOK'
    BY <1>12 DEF SetWindowText
  <2>2. ClipboardReturned'
    BY <1>12 DEF SetWindowText
  <2>3. ShownUnderLock' /\ OffIsQuiet'
    BY <1>12 DEF SetWindowText
  <2> QED
    BY <2>1, <2>2, <2>3
<1>13. ASSUME NEW p \in Procs, WorkerCloses(p) PROVE IInv'
  <2>1. TypeOK'
    BY <1>13 DEF WorkerCloses
  <2>2. ClipboardReturned'
    BY <1>13 DEF WorkerCloses
  <2>3. ShownUnderLock' /\ OffIsQuiet'
    BY <1>13 DEF WorkerCloses
  <2> QED
    BY <2>1, <2>2, <2>3
<1>14. CASE OtherOpens
  <2>1. TypeOK'
    BY <1>14 DEF OtherOpens
  <2>2. ClipboardReturned'
    BY <1>14 DEF OtherOpens
  <2>3. ShownUnderLock' /\ OffIsQuiet'
    BY <1>14 DEF OtherOpens
  <2> QED
    BY <2>1, <2>2, <2>3
<1>15. CASE OtherCloses
  <2>1. TypeOK'
    BY <1>15 DEF OtherCloses
  <2>2. ClipboardReturned'
    BY <1>15 DEF OtherCloses
  <2>3. ShownUnderLock' /\ OffIsQuiet'
    BY <1>15 DEF OtherCloses
  <2> QED
    BY <2>1, <2>2, <2>3
<1>16. CASE UNCHANGED vars
  BY <1>16 DEF vars
<1> QED
  BY <1>1, <1>2, <1>3, <1>4, <1>5, <1>6, <1>7, <1>8, <1>9, <1>10, <1>11,
     <1>12, <1>13, <1>14, <1>15, <1>16, <1>17
  DEF Next, UiStep, WorkerStep, Environment

LEMMA Invariance == Spec => []IInv
  BY Initially, Inductive, PTL DEF Spec

-----------------------------------------------------------------------------
(* Threads, events, texts and the clipboard keep their types. *)
THEOREM TypeCorrect == Spec => []TypeOK
<1>1. IInv => TypeOK
  BY DEF IInv
<1> QED
  BY <1>1, Invariance, PTL

(* Every path of the button handler and of ChkEvent gives the clipboard     *)
(* back, whatever the users, the other process and other programs do.       *)
THEOREM ClipboardAlwaysReturned == Spec => []ClipboardReturned
<1>1. IInv => ClipboardReturned
  BY DEF IInv
<1> QED
  BY <1>1, Invariance, PTL

(* The text a worker shows is the one on the clipboard, for any texts and   *)
(* whatever the other process and other programs do with the clipboard,     *)
(* unless a click in its own dialog has replaced it.                        *)
THEOREM ShownTextIsCurrent == Spec => []ShowsCurrentText
<1>1. IInv => ShowsCurrentText
  BY DEF IInv, ShownUnderLock, ShowsCurrentText
<1> QED
  BY <1>1, Invariance, PTL

-----------------------------------------------------------------------------
(* A signal that is pending when the clipboard is left alone is not lost.   *)

(* The worker of p has still to show the text that is on the clipboard.     *)
OnItsWay(p) ==
  /\ Alone(p) /\ clip # NoText
  /\ \/ worker[p] = "wait" /\ event[p] = "set"
     \/ worker[p] = "open" /\ event[p] = "clear"
     \/ worker[p] = "get" /\ event[p] = "clear" /\ lock = <<p, "worker">>
     \/ worker[p] = "show" /\ event[p] = "clear" /\ got[p] = clip

SignalKept ==
  \A p \in Procs : OnItsWay(p) =>
    \/ OnItsWay(p)' /\ UNCHANGED clip
    \/ ~Alone(p)'
    \/ event'[p] = "clear" /\ box'[p] = clip'

(* The worker itself: it takes the signal, finds the clipboard free and     *)
(* shows what is on it, with its UI thread in the message loop.             *)
LEMMA WorkerDelivers ==
  ASSUME IInv, NEW p \in Procs, OnItsWay(p), WorkerStep(p)
  PROVE  \/ OnItsWay(p)' /\ UNCHANGED clip
         \/ event'[p] = "clear" /\ box'[p] = clip'
<1> USE ThreadsDiffer, PeerIsOther DEF OnItsWay, Alone, WorkerGoto
<1>0. TypeOK
  BY DEF IInv
<1>1. CASE WaitForSingleObject(p)
  BY <1>0, <1>1 DEF WaitForSingleObject, TypeOK
<1>2. CASE OpenClipboard(p)
  <2>1. lock' = <<p, "worker">> /\ worker' = [worker EXCEPT ![p] = "get"]
        /\ UNCHANGED <<ui, event, clip>> /\ event[p] = "clear"
    BY <1>2 DEF OpenClipboard, Opens, CanOpen, OwnThreads
  <2> QED
    BY <1>0, <2>1 DEF TypeOK
<1>4. CASE GetClipboardData(p)
  <2>1. FindsText(p) /\ event[p] = "clear"
    BY <1>4 DEF GetClipboardData, FindsText
  <2>2. /\ worker' = [worker EXCEPT ![p] = "show"] /\ got' = [got EXCEPT ![p] = clip]
        /\ UNCHANGED <<ui, event, lock, clip>>
    BY <1>4, <2>1 DEF GetClipboardData
  <2> QED
    BY <1>0, <2>1, <2>2 DEF TypeOK
<1>3. CASE SetWindowText(p)
  <2>1. event[p] = "clear" /\ got[p] = clip /\ ui[p] = "idle"
    BY <1>3 DEF SetWindowText
  <2>2. got[p] # Freed
    BY <1>0, <2>1, NamesAssumption DEF TypeOK, MaybeText
  <2>3. box' = [box EXCEPT ![p] = got[p]] /\ UNCHANGED <<event, clip>>
    BY <1>3, <2>1, <2>2 DEF SetWindowText
  <2> QED
    BY <1>0, <2>1, <2>3 DEF TypeOK
<1> QED
  BY <1>1, <1>2, <1>3, <1>4 DEF WorkerStep, CreateEvent, WorkerCloses

LEMMA SignalKeptStep == IInv /\ [Next]_vars => SignalKept
<1> SUFFICES ASSUME IInv, [Next]_vars, NEW p \in Procs, OnItsWay(p)
             PROVE  \/ OnItsWay(p)' /\ UNCHANGED clip
                    \/ ~Alone(p)'
                    \/ event'[p] = "clear" /\ box'[p] = clip'
  BY DEF SignalKept
<1>0. TypeOK /\ ClipboardReturned /\ OffIsQuiet
  BY DEF IInv
<1> USE ThreadsDiffer, PeerIsOther DEF OnItsWay, Alone, UiGoto, WorkerGoto
<1>1. ASSUME NEW q \in Procs, SignalPeer(q) \/ SetClipboardData(q) \/ CloseClipboard(q)
      PROVE  FALSE
  <2>1. ui[q] \in Sending /\ (q = p \/ q = Peer(p))
    BY <1>1 DEF SignalPeer, SetClipboardData, CloseClipboard, Sending, Procs, Peer
  <2> QED
    BY <2>1 DEF Sending
<1>2. ASSUME NEW q \in Procs, OnBnClickedClipButton(q)
      PROVE  ~Alone(p)'
  <2>1. ui'[q] = "signal" /\ (q = p \/ q = Peer(p))
    BY <1>0, <1>2 DEF OnBnClickedClipButton, TypeOK, Procs, Peer
  <2> QED
    BY <2>1 DEF Sending
<1>3. ASSUME WorkerStep(p)
      PROVE  \/ OnItsWay(p)' /\ UNCHANGED clip
             \/ event'[p] = "clear" /\ box'[p] = clip'
  BY <1>3, WorkerDelivers
<1>4. ASSUME WorkerStep(Peer(p))
      PROVE  ~Alone(p)' \/ (OnItsWay(p)' /\ UNCHANGED clip)
  <2>1. CreateEvent(Peer(p)) \/ WaitForSingleObject(Peer(p))
    BY <1>4 DEF WorkerStep, OpenClipboard, GetClipboardData, SetWindowText, WorkerCloses
  <2>2. /\ \E call : worker' = [worker EXCEPT ![Peer(p)] = call]
        /\ \E e : event' = [event EXCEPT ![Peer(p)] = e]
        /\ UNCHANGED <<ui, got, lock, clip>>
    BY <2>1 DEF CreateEvent, WaitForSingleObject
  <2>3. /\ worker'[p] = worker[p] /\ event'[p] = event[p]
        /\ UNCHANGED <<ui, got, lock, clip>>
    BY <1>0, <2>2 DEF TypeOK
  <2> QED
    BY <2>3
<1>5. ASSUME NEW q \in Procs, DismissDialog(q) \/ OnInitDialog(q) \/ CreateEventFails(q)
      PROVE  ~Alone(p)' \/ (OnItsWay(p)' /\ UNCHANGED clip)
  <2>1. CASE q = p
    BY <1>0, <1>5, <2>1 DEF DismissDialog, OnInitDialog, CreateEventFails, TypeOK
  <2>2. CASE q # p
    <3>1. /\ worker'[p] = worker[p] /\ ui'[p] = ui[p] /\ ui'[Peer(p)] \notin Sending
          /\ UNCHANGED <<event, got, lock, clip>>
      BY <1>0, <1>5, <2>2
      DEF DismissDialog, OnInitDialog, CreateEventFails, TypeOK, Procs, Peer, Sending
    <3> QED
      BY <3>1
  <2> QED
    BY <2>1, <2>2
<1>6. ASSUME NEW q \in Procs, ProcessExit(q)
      PROVE  ~Alone(p)' \/ (OnItsWay(p)' /\ UNCHANGED clip)
  <2>1. CASE q = p
    BY <1>0, <1>6, <2>1 DEF ProcessExit, TypeOK
  <2>2. CASE q # p
    <3>1. q = Peer(p) /\ HasOwnEvent(p)
      BY <2>2 DEF Procs, Peer, HasOwnEvent
    <3>2. /\ event'[p] = event[p] /\ ui'[p] = ui[p] /\ worker'[p] = worker[p]
          /\ got'[p] = got[p]
      BY <1>0, <1>6, <2>2, <3>1 DEF ProcessExit, TypeOK
    <3>5. lock' = lock
      <4>1. <<p, "worker">> \in OwnThreads(p)
        BY DEF OwnThreads
      <4>2. lock \notin OwnThreads(q) \/ lock = Nobody
        BY <2>2, <4>1, WindowsApart
      <4> QED
        BY <1>6, <4>2 DEF ProcessExit
    <3>3. ui'[Peer(p)] = "off" /\ worker'[Peer(p)] = "none" /\ UNCHANGED clip
      BY <1>0, <1>6, <3>1 DEF ProcessExit, TypeOK
    <3>4. lock' \in {Nobody, <<p, "worker">>}
      BY <1>6 DEF ProcessExit
    <3> QED
      BY <3>2, <3>3, <3>4, <3>5 DEF Sending
  <2> QED
    BY <2>1, <2>2
<1>7. CASE OtherOpens
  BY <1>7, NamesAssumption DEF OtherOpens
<1>8. CASE OtherCloses
  BY <1>8, NamesAssumption DEF OtherCloses
<1>9. CASE UNCHANGED vars
  BY <1>9 DEF vars
<1>10. \A q \in Procs : q = p \/ q = Peer(p)
  BY DEF Procs, Peer
<1> QED
  BY <1>1, <1>2, <1>3, <1>4, <1>5, <1>6, <1>7, <1>8, <1>9, <1>10
  DEF Next, UiStep, Environment, Exit, Killed

(* The safety half of PendingSignalDelivers, for any set of texts: as long  *)
(* as nobody else is near the clipboard a signal its worker has not dealt   *)
(* with stays, or has been taken by the worker and nothing is on the        *)
(* clipboard but the text it will show.                                     *)
THEOREM PendingSignalIsKept == Spec => [][SignalKept]_vars
<1>1. IInv /\ [Next]_vars => [SignalKept]_vars
  BY SignalKeptStep
<1> QED
  BY <1>1, Invariance, PTL DEF Spec

-----------------------------------------------------------------------------
(* DataCopy *)

CONSTANTS Programs, Notepads, None, Blank, Typed
VARIABLES pc, target, quit, posted, win, text

Copy == INSTANCE DataCopy

LEMMA CopyInitially == Copy!Init => Copy!TypeOK
BY DEF Copy!Init, Copy!TypeOK, Copy!Over

(* One step per program action; Notepads come and go in any of them.        *)
LEMMA CopyInductive == Copy!TypeOK /\ [Copy!Next]_(Copy!vars) => Copy!TypeOK'
<1> SUFFICES ASSUME Copy!TypeOK, [Copy!Next]_(Copy!vars) PROVE Copy!TypeOK'
  OBVIOUS
<1> USE DEF Copy!TypeOK, Copy!Over, Copy!Creating, Copy!Goto, Copy!queue, Copy!windows
<1>1. ASSUME NEW p \in Programs,
             Copy!Start(p) \/ Copy!CreateWindow(p) \/ Copy!CreateWindowFails(p)
      PROVE  Copy!TypeOK'
  BY <1>1 DEF Copy!Start, Copy!CreateWindow, Copy!CreateWindowFails
<1>2. ASSUME NEW p \in Programs, NEW how \in Copy!Over, Copy!Ends(p, how)
      PROVE  Copy!TypeOK'
  BY <1>2 DEF Copy!Ends
<1>3. ASSUME NEW p \in Programs, Copy!GetMessage(p)
      PROVE  Copy!TypeOK'
  <2>1. CASE pc[p] = "loop" /\ posted[p] /\ Copy!Ends(p, "ended")
    BY <1>2, <2>1
  <2>2. CASE /\ quit' = [quit EXCEPT ![p] = FALSE]
             /\ UNCHANGED <<pc, target, posted, win, text>>
    BY <2>2
  <2> QED
    BY <1>3, <2>1, <2>2 DEF Copy!GetMessage
<1>4. ASSUME NEW p \in Programs, Copy!GetMessageFails(p) \/ Copy!Killed(p)
      PROVE  Copy!TypeOK'
  BY <1>2, <1>4 DEF Copy!GetMessageFails, Copy!Killed
<1>5. ASSUME NEW p \in Programs, Copy!ShellExecute(p)
      PROVE  Copy!TypeOK'
  BY <1>5 DEF Copy!ShellExecute
<1>6. ASSUME NEW p \in Programs, Copy!FindWindow(p) \/ Copy!FindEdit(p) \/ Copy!Shown(p)
      PROVE  Copy!TypeOK'
  <2>1. target' \in [Programs -> Notepads \cup {None}]
    BY <1>6 DEF Copy!FindWindow, Copy!FindEdit, Copy!Shown
  <2> QED
    BY <1>6, <2>1 DEF Copy!FindWindow, Copy!FindEdit, Copy!Shown
<1>7. ASSUME NEW p \in Programs,
             \/ Copy!FindWindowFails(p) \/ Copy!SetTextFails(p)
             \/ Copy!Post(p) \/ Copy!Destroy(p)
      PROVE  Copy!TypeOK'
  BY <1>7 DEF Copy!FindWindowFails, Copy!SetTextFails, Copy!Post, Copy!Destroy
<1>8. ASSUME NEW p \in Programs, Copy!SetText(p)
      PROVE  Copy!TypeOK'
  BY <1>8 DEF Copy!SetText
<1>9. ASSUME NEW n \in Notepads,
             Copy!Opens(n) \/ Copy!Types(n) \/ Copy!Hangs(n) \/ Copy!Recovers(n)
      PROVE  Copy!TypeOK'
  <2>1. /\ win' \in [Notepads -> {"none", "starting", "open", "hung"}]
        /\ text' \in [Notepads -> Programs \cup {Blank, Typed}]
        /\ target' \in [Programs -> Notepads \cup {None}]
        /\ UNCHANGED <<pc, quit, posted>>
    BY <1>9 DEF Copy!Opens, Copy!Types, Copy!Hangs, Copy!Recovers
  <2> QED
    BY <2>1
<1>10. ASSUME NEW n \in Notepads, Copy!Closes(n)
       PROVE  Copy!TypeOK'
  BY <1>10 DEF Copy!Closes
<1>11. CASE UNCHANGED Copy!vars
  BY <1>11 DEF Copy!vars
<1> QED
  BY <1>1, <1>3, <1>4, <1>5, <1>6, <1>7, <1>8, <1>9, <1>10, <1>11
  DEF Copy!Next, Copy!ProgramStep, Copy!Environment

(* Every variable of DataCopy keeps its type, with any number of programs   *)
(* and Notepads, and a WM_QUIT is posted only by a program that has come to *)
(* its message loop: a handler that finds no Notepad does not go on to use  *)
(* one.  Handles of closed Notepads are not ruled out.                      *)
THEOREM CopyTypeCorrect == Copy!Spec => []Copy!TypeOK
<1> QED
  BY CopyInitially, CopyInductive, PTL DEF Copy!Spec

(* While the window it has found is there, a program that is to set a text  *)
(* leaves its SendMessage only by setting it or by being killed: no step of *)
(* another program, of a user or of a Notepad gives it another window, and  *)
(* the program itself does not pass over the window.                        *)
TextKept ==
  \A p \in Programs : pc[p] = "send" /\ Copy!Valid(p) =>
    \/ pc'[p] = "send" /\ target'[p] = target[p]
    \/ text'[target[p]] = p
    \/ pc'[p] = "killed"

LEMMA TextKeptStep == Copy!TypeOK /\ [Copy!Next]_(Copy!vars) => TextKept
<1> SUFFICES ASSUME Copy!TypeOK, [Copy!Next]_(Copy!vars),
                    NEW p \in Programs, pc[p] = "send", Copy!Valid(p)
             PROVE  \/ pc'[p] = "send" /\ target'[p] = target[p]
                    \/ text'[target[p]] = p
                    \/ pc'[p] = "killed"
  BY DEF TextKept
<1> USE DEF Copy!TypeOK, Copy!Over, Copy!Creating, Copy!Goto, Copy!queue, Copy!windows
<1>0. target[p] \in Notepads /\ win[target[p]] \in {"open", "hung"}
  BY DEF Copy!Valid
<1>1. ASSUME NEW q \in Programs, Copy!SetText(q)
      PROVE  text'[target[p]] = p \/ (pc'[p] = "send" /\ target'[p] = target[p])
  BY <1>0, <1>1 DEF Copy!SetText
<1>2. ASSUME NEW q \in Programs, q # p, Copy!ProgramStep(q)
      PROVE  pc'[p] = "send" /\ target'[p] = target[p]
  BY <1>2
  DEF Copy!ProgramStep, Copy!CreateWindow, Copy!CreateWindowFails, Copy!ShellExecute,
      Copy!FindWindow, Copy!FindWindowFails, Copy!FindEdit, Copy!SetText, Copy!SetTextFails,
      Copy!Shown, Copy!GetMessage, Copy!GetMessageFails, Copy!Ends
<1>3. Copy!ProgramStep(p) => Copy!SetText(p)
  BY DEF Copy!ProgramStep, Copy!CreateWindow, Copy!CreateWindowFails, Copy!ShellExecute,
         Copy!FindWindow, Copy!FindWindowFails, Copy!FindEdit, Copy!SetTextFails,
         Copy!Shown, Copy!GetMessage, Copy!GetMessageFails
<1>4. ASSUME NEW q \in Programs,
             Copy!Start(q) \/ Copy!Post(q) \/ Copy!Destroy(q) \/ Copy!Killed(q)
      PROVE  (pc'[p] = "send" /\ target'[p] = target[p]) \/ pc'[p] = "killed"
  BY <1>4 DEF Copy!Start, Copy!Post, Copy!Destroy, Copy!Killed, Copy!Ends
<1>5. ASSUME NEW n \in Notepads, Copy!Opens(n)
      PROVE  pc'[p] = "send" /\ target'[p] = target[p]
  <2>1. target[p] # n
    BY <1>0, <1>5 DEF Copy!Opens
  <2> QED
    BY <1>5, <2>1 DEF Copy!Opens
<1>6. ASSUME NEW n \in Notepads,
             Copy!Types(n) \/ Copy!Hangs(n) \/ Copy!Recovers(n) \/ Copy!Closes(n)
      PROVE  pc'[p] = "send" /\ target'[p] = target[p]
  BY <1>6 DEF Copy!Types, Copy!Hangs, Copy!Recovers, Copy!Closes
<1>7. CASE UNCHANGED Copy!vars
  BY <1>7 DEF Copy!vars
<1> QED
  BY <1>1, <1>2, <1>3, <1>4, <1>5, <1>6, <1>7 DEF Copy!Next, Copy!Environment

(* The safety half of TextDelivered: a text on its way to an edit control   *)
(* that is there reaches it, or the program is killed first.  (The window   *)
(* may be closed before; then the text is lost and the handle is stale.)    *)
THEOREM CopyTextNotLost == Copy!Spec => [][TextKept]_(Copy!vars)
<1>1. Copy!TypeOK /\ [Copy!Next]_(Copy!vars) => [TextKept]_(Copy!vars)
  BY TextKeptStep
<1> QED
  BY <1>1, CopyTypeCorrect, PTL DEF Copy!Spec
=============================================================================
