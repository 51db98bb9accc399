----------------------------- MODULE Clipboard ------------------------------
(***************************************************************************)
(* The two dialogs that talk over the clipboard (IPCDlg_Proc1Dlg.cpp and   *)
(* IPCDlg_Proc2Dlg.cpp; they differ in the names of their events, and the  *)
(* first one's handler does nothing when its UpdateData fails).            *)
(* Each process has a UI thread, whose button handler puts a text on the   *)
(* clipboard and signals the other process's event, and a worker thread,   *)
(* which waits for its own process's event and shows what the clipboard    *)
(* holds.  Showing is a SetWindowText on a control of the UI thread, so    *)
(* the worker waits, clipboard open, for its UI thread to take messages.   *)
(***************************************************************************)
EXTENDS Naturals

CONSTANTS P1, P2,   \* the two processes
          Texts,    \* texts a user types or another program copies
          NoText,   \* an empty edit control, no CF_TEXT on the clipboard
          Freed,    \* the memory of a text that has been replaced
          Nobody,   \* the clipboard is not open
          Other     \* another program has it open

Procs == {P1, P2}
Threads == Procs \X {"ui", "worker"}

ASSUME NamesAssumption ==
  P1 # P2 /\ NoText \notin Texts /\ Nobody # Other
  /\ Freed \notin Texts \cup {NoText}
  /\ Nobody \notin Threads /\ Other \notin Threads

VARIABLES
  ui,       \* UI thread: the call of its handler it makes next
  worker,   \* EventCreate thread: the call it makes next
  event,    \* the named auto-reset event each process waits on
  opened,   \* the process has a handle on its peer's event, never closed
  buf,      \* hClipboardData of the button handler
  got,      \* dclipboardbuffer of ChkEvent
  box,      \* what the receiving edit control shows
  lock,     \* thread that opened the clipboard last and has not closed it
  clip      \* CF_TEXT on the clipboard

vars == <<ui, worker, event, opened, buf, got, box, lock, clip>>

Peer(p) == IF p = P1 THEN P2 ELSE P1
Sending == {"signal", "set", "close"}
MaybeText == Texts \cup {NoText}
HasOwnEvent(p) == worker[p] \in {"wait", "open", "get", "show", "close"}

(* Nobody has a handle on an event that does not exist. *)
HandlesValid ==
  \A p \in Procs : opened[p] \/ HasOwnEvent(Peer(p)) => event[Peer(p)] # "none"

TypeOK ==
  /\ ui \in [Procs -> {"off", "idle", "closing"} \cup Sending]
  /\ worker \in [Procs -> {"none", "create", "spin", "wait", "open", "get", "show", "close"}]
  /\ event \in [Procs -> {"none", "clear", "set"}]
  /\ opened \in [Procs -> BOOLEAN]
  /\ buf \in [Procs -> MaybeText]
  /\ got \in [Procs -> MaybeText \cup {Freed}]
  /\ box \in [Procs -> MaybeText]
  /\ lock \in Threads \cup {Nobody, Other}
  /\ clip \in MaybeText
  /\ HandlesValid

Init ==
  /\ ui = [p \in Procs |-> "off"]
  /\ worker = [p \in Procs |-> "none"]
  /\ event = [p \in Procs |-> "none"]
  /\ opened = [p \in Procs |-> FALSE]
  /\ buf = [p \in Procs |-> NoText]
  /\ got = [p \in Procs |-> NoText]
  /\ box = [p \in Procs |-> NoText]
  /\ lock = Nobody
  /\ clip \in MaybeText

-----------------------------------------------------------------------------
(* Both threads of a process open the clipboard for the same dialog window, *)
(* and OpenClipboard fails only while another window has it open: a thread  *)
(* may take it from its fellow.  Then only the last opener's calls have any *)
(* effect on it; the others fail, which the code ignores.                   *)
OwnThreads(p) == {<<p, "ui">>, <<p, "worker">>}
CanOpen(p) == lock \in {Nobody} \cup OwnThreads(p)
Opens(p, kind) == lock' = IF CanOpen(p) THEN <<p, kind>> ELSE lock
Closes(t) == lock' = IF lock = t THEN Nobody ELSE lock

UiGoto(p, call) == ui' = [ui EXCEPT ![p] = call]
WorkerGoto(p, call) == worker' = [worker EXCEPT ![p] = call]

-----------------------------------------------------------------------------
(* UI thread *)

(* OnInitDialog; a dialog whose CreateThread failed opens with no worker. *)
OnInitDialog(p) ==
  /\ ui[p] = "off"
  /\ UiGoto(p, "idle")
  /\ \E w \in {"create", "none"} : WorkerGoto(p, w)
  /\ UNCHANGED <<event, opened, buf, got, box, lock, clip>>

(* The button: reads the edit control, OpenClipboard, whose result it does  *)
(* not look at, and copies the text to a global block.  (When UpdateData    *)
(* fails the first program's handler does nothing: no step.)                *)
OnBnClickedClipButton(p) ==
  /\ ui[p] = "idle"
  /\ \E t \in Texts : buf' = [buf EXCEPT ![p] = t]
  /\ Opens(p, "ui")
  /\ UiGoto(p, "signal")
  /\ UNCHANGED <<worker, event, opened, got, box, clip>>

Signal(p) ==
  LET q == Peer(p) IN
    IF event[q] = "none"
    THEN UNCHANGED <<event, opened>>
    ELSE event' = [event EXCEPT ![q] = "set"] /\ opened' = [opened EXCEPT ![p] = TRUE]

(* OpenEvent is taken to succeed whether the peer runs or not. *)
SignalPeerUnchecked(p) ==
  /\ ui[p] = "signal"
  /\ event' = [event EXCEPT ![Peer(p)] = IF @ = "none" THEN @ ELSE "set"]
  /\ opened' = [opened EXCEPT ![p] = TRUE]
  /\ UiGoto(p, "set")
  /\ UNCHANGED <<worker, buf, got, box, lock, clip>>

(* The handler does not go on until it has the clipboard open. *)
SignalPeerRetrying(p) ==
  /\ ui[p] = "signal"
  /\ CanOpen(p)
  /\ lock' = <<p, "ui">>
  /\ Signal(p)
  /\ UiGoto(p, "set")
  /\ UNCHANGED <<worker, buf, got, box, clip>>

(* OpenEvent and SetEvent on the peer's event, if it has one. *)
SignalPeer(p) ==
  /\ ui[p] = "signal"
  /\ Signal(p)
  /\ UiGoto(p, "set")
  /\ UNCHANGED <<worker, buf, got, box, lock, clip>>

(* SetClipboardData replaces the text (nobody calls EmptyClipboard) and so  *)
(* frees what a worker of the same window may still have locked.            *)
SetClipboardData(p) ==
  /\ ui[p] = "set"
  /\ \/ /\ lock = <<p, "ui">>
        /\ clip' = buf[p]
        /\ got' = [got EXCEPT ![p] = IF worker[p] = "show" THEN Freed ELSE @]
     \/ lock # <<p, "ui">> /\ UNCHANGED <<clip, got>>
  /\ buf' = [buf EXCEPT ![p] = NoText]
  /\ UiGoto(p, "close")
  /\ UNCHANGED <<worker, event, opened, box, lock>>

CloseClipboard(p) ==
  /\ ui[p] = "close"
  /\ Closes(<<p, "ui">>)
  /\ UiGoto(p, "idle")
  /\ UNCHANGED <<worker, event, opened, buf, got, box, clip>>

(* The dialog is dismissed; until the process ends its worker goes on with  *)
(* a window that is gone.                                                   *)
DismissDialog(p) ==
  /\ ui[p] = "idle"
  /\ UiGoto(p, "closing")
  /\ UNCHANGED <<worker, event, opened, buf, got, box, lock, clip>>

(* InitInstance returns, the process faults or is killed.  The system       *)
(* closes the clipboard and the handles; an event lives while the peer has  *)
(* a handle on it, and keeps its state.                                     *)
ProcessExit(p) ==
  /\ UiGoto(p, "off")
  /\ WorkerGoto(p, "none")
  /\ event' = [q \in Procs |->
                 IF q = p THEN IF opened[Peer(p)] THEN event[p] ELSE "none"
                          ELSE IF HasOwnEvent(q) THEN event[q] ELSE "none"]
  /\ opened' = [opened EXCEPT ![p] = FALSE]
  /\ buf' = [buf EXCEPT ![p] = NoText]
  /\ got' = [got EXCEPT ![p] = NoText]
  /\ box' = [box EXCEPT ![p] = NoText]
  /\ lock' = IF lock \in OwnThreads(p) THEN Nobody ELSE lock
  /\ UNCHANGED clip

Exit(p) == ui[p] = "closing" /\ ProcessExit(p)
Killed(p) == ui[p] # "off" /\ ProcessExit(p)

-----------------------------------------------------------------------------
(* Worker thread *)

(* The event may be there already, with a signal from an earlier run. *)
CreateEvent(p) ==
  /\ worker[p] = "create"
  /\ event' = [event EXCEPT ![p] = IF @ = "none" THEN "clear" ELSE @]
  /\ WorkerGoto(p, "wait")
  /\ UNCHANGED <<ui, opened, buf, got, box, lock, clip>>

(* Reported to the debugger only: every wait then fails at once, for ever. *)
CreateEventFails(p) ==
  /\ worker[p] = "create"
  /\ WorkerGoto(p, "spin")
  /\ UNCHANGED <<ui, event, opened, buf, got, box, lock, clip>>

(* The event is created with bManualReset TRUE. *)
WaitManualReset(p) ==
  /\ worker[p] = "wait"
  /\ event[p] = "set"
  /\ WorkerGoto(p, "open")
  /\ UNCHANGED <<ui, event, opened, buf, got, box, lock, clip>>

(* WaitForSingleObject takes the signal, however often it was set. *)
WaitForSingleObject(p) ==
  /\ worker[p] = "wait"
  /\ event[p] = "set"
  /\ event' = [event EXCEPT ![p] = "clear"]
  /\ WorkerGoto(p, "open")
  /\ UNCHANGED <<ui, opened, buf, got, box, lock, clip>>

(* ChkEvent.  With the clipboard open in another program it returns, and    *)
(* the signal is spent.                                                     *)
OpenClipboard(p) ==
  /\ worker[p] = "open"
  /\ Opens(p, "worker")
  /\ WorkerGoto(p, IF CanOpen(p) THEN "get" ELSE "wait")
  /\ UNCHANGED <<ui, event, opened, buf, got, box, clip>>

(* The worker still has the clipboard, and there is text on it. *)
FindsText(p) == lock = <<p, "worker">> /\ clip # NoText

(* No text: ChkEvent returns past its CloseClipboard. *)
GetClipboardDataLeaks(p) ==
  /\ worker[p] = "get"
  /\ got' = [got EXCEPT ![p] = IF FindsText(p) THEN clip ELSE @]
  /\ WorkerGoto(p, IF FindsText(p) THEN "show" ELSE "wait")
  /\ UNCHANGED <<ui, event, opened, buf, box, lock, clip>>

(* ChkEvent closes the clipboard before it uses what it got. *)
GetClipboardDataCloses(p) ==
  /\ worker[p] = "get"
  /\ got' = [got EXCEPT ![p] = IF FindsText(p) THEN clip ELSE @]
  /\ WorkerGoto(p, IF FindsText(p) THEN "show" ELSE "close")
  /\ Closes(<<p, "worker">>)
  /\ UNCHANGED <<ui, event, opened, buf, box, clip>>

(* GetClipboardData and GlobalLock.  NULL, with no text there or with the   *)
(* clipboard taken by the button handler, leads straight to CloseClipboard. *)
GetClipboardData(p) ==
  /\ worker[p] = "get"
  /\ got' = [got EXCEPT ![p] = IF FindsText(p) THEN clip ELSE @]
  /\ WorkerGoto(p, IF FindsText(p) THEN "show" ELSE "close")
  /\ UNCHANGED <<ui, event, opened, buf, box, lock, clip>>

(* SetWindowText waits until the UI thread is back in its message loop;     *)
(* with the window gone it fails.  What freed memory shows is undefined.    *)
SetWindowText(p) ==
  /\ worker[p] = "show"
  /\ \/ /\ ui[p] = "idle"
        /\ \E t \in IF got[p] = Freed THEN MaybeText ELSE {got[p]} :
             box' = [box EXCEPT ![p] = t]
     \/ ui[p] = "closing" /\ UNCHANGED box
  /\ got' = [got EXCEPT ![p] = NoText]
  /\ WorkerGoto(p, "close")
  /\ UNCHANGED <<ui, event, opened, buf, lock, clip>>

WorkerCloses(p) ==
  /\ worker[p] = "close"
  /\ Closes(<<p, "worker">>)
  /\ WorkerGoto(p, "wait")
  /\ UNCHANGED <<ui, event, opened, buf, got, box, clip>>

-----------------------------------------------------------------------------
(* Another program uses the clipboard. *)

OtherOpens ==
  /\ lock = Nobody
  /\ lock' = Other
  /\ UNCHANGED <<ui, worker, event, opened, buf, got, box, clip>>

OtherCloses ==
  /\ lock = Other
  /\ lock' = Nobody
  /\ clip' \in MaybeText
  /\ UNCHANGED <<ui, worker, event, opened, buf, got, box>>

-----------------------------------------------------------------------------
UiStep(p) == SignalPeer(p) \/ SetClipboardData(p) \/ CloseClipboard(p) \/ Exit(p)

WorkerStep(p) ==
  \/ CreateEvent(p)
  \/ WaitForSingleObject(p)
  \/ OpenClipboard(p)
  \/ GetClipboardData(p)
  \/ SetWindowText(p)
  \/ WorkerCloses(p)

Environment(p) ==
  \/ OnInitDialog(p)
  \/ OnBnClickedClipButton(p)
  \/ DismissDialog(p)
  \/ Killed(p)
  \/ CreateEventFails(p)

Next ==
  \/ \E p \in Procs : UiStep(p) \/ WorkerStep(p) \/ Environment(p)
  \/ OtherOpens
  \/ OtherCloses

Spec == Init /\ [][Next]_vars

(* Both threads of a process are scheduled.  A message loop takes a waiting *)
(* SetWindowText before the next click, so a user who keeps clicking cannot *)
(* pass it over for ever: strong fairness.  Users and other programs are    *)
(* not obliged to anything, not even to close the clipboard.                *)
FairSpec ==
  /\ Spec
  /\ \A p \in Procs : /\ WF_vars(UiStep(p))
                       /\ WF_vars(WorkerStep(p))
                       /\ SF_vars(SetWindowText(p))

-----------------------------------------------------------------------------
(* Properties *)

(* The clipboard is open in a thread of ours only between its OpenClipboard *)
(* and its CloseClipboard: no path through the handler or ChkEvent, failed  *)
(* calls and ended processes included, leaves it shut to everybody else.    *)
ClipboardReturned ==
  \A p \in Procs :
    /\ lock = <<p, "ui">> => ui[p] \in Sending
    /\ lock = <<p, "worker">> => worker[p] \in {"get", "show", "close"}

(* What the worker hands to SetWindowText, however long the UI thread keeps *)
(* it waiting, is the text on the clipboard; if not, a click in its own     *)
(* dialog has taken the clipboard from it and replaced the text, which the  *)
(* code does not prevent.  No other process can do that.                    *)
ShowsCurrentText ==
  \A p \in Procs : worker[p] = "show" => got[p] \in {clip, Freed}

(* Worker and UI thread never wait for each other, though the worker holds  *)
(* the clipboard while it waits for the UI thread: every click and every    *)
(* signal is dealt with, even while another program keeps the clipboard.    *)
NobodyStuck ==
  \A p \in Procs :
    /\ ui[p] \in Sending ~> ui[p] \notin Sending
    /\ worker[p] \in {"open", "get", "show", "close"} ~> worker[p] \in {"wait", "none"}

(* Nobody but the worker of p is near the clipboard. *)
Alone(p) ==
  /\ lock \in {Nobody, <<p, "worker">>}
  /\ ui[p] = "idle" /\ ui[Peer(p)] \notin Sending
  /\ worker[Peer(p)] \notin {"open", "get", "show", "close"}

(* A signal that is still pending when the clipboard is left alone leads to *)
(* the text on it being shown, and is then spent.  (A signal taken earlier, *)
(* between the sender's SetEvent and CloseClipboard, is lost.)              *)
PendingSignalDelivers ==
  \A p \in Procs :
    worker[p] = "wait" /\ event[p] = "set" /\ Alone(p) /\ clip # NoText
      ~> (event[p] = "clear" /\ box[p] = clip) \/ ~Alone(p)
=============================================================================
