------------------------------ MODULE DataCopy ------------------------------
(***************************************************************************)
(* DataCopy_IPC.cpp: a window that, while it is being created, sends       *)
(* itself a WM_COPYDATA, whose handler starts Notepad, sleeps, takes the   *)
(* first Notepad window it finds and sets its text.  The message loop runs *)
(* while GetMessage returns 0, so WM_QUIT does not end it and any other    *)
(* message does.                                                           *)
(***************************************************************************)
CONSTANTS Programs,  \* processes of the program
          Notepads,  \* Notepad windows
          None,      \* no window, or a handle that no window has any more
          Blank,     \* the text of a new Notepad
          Typed      \* what a user has typed into one

ASSUME NamesAssumption ==
  /\ None \notin Notepads /\ Blank \notin Programs /\ Typed \notin Programs
  /\ Blank # Typed

VARIABLES
  pc,     \* each program: what it does next
  target, \* notepad, then its edit control: the window it belongs to, or
          \* belonged to
  quit,   \* its queue has a WM_QUIT
  posted, \* its queue has another message
  win,    \* each Notepad window
  text    \* its text; the message of a program is the program

vars == <<pc, target, quit, posted, win, text>>
queue == <<quit, posted>>
windows == <<win, text>>

Over == {"idle", "ended", "failed", "killed"}

(* WM_CREATE is being handled, within CreateWindow. *)
Creating == {"execute", "find", "edit", "send", "sleep"}

TypeOK ==
  /\ pc \in [Programs -> Over \cup Creating \cup {"window", "loop", "destroyed"}]
  /\ target \in [Programs -> Notepads \cup {None}]
  /\ quit \in [Programs -> BOOLEAN]
  /\ posted \in [Programs -> BOOLEAN]
  /\ \A p \in Programs : quit[p] => pc[p] \in {"loop", "destroyed"}
  /\ win \in [Notepads -> {"none", "starting", "open", "hung"}]
  /\ text \in [Notepads -> Programs \cup {Blank, Typed}]

Init ==
  /\ pc = [p \in Programs |-> "idle"]
  /\ target = [p \in Programs |-> None]
  /\ quit = [p \in Programs |-> FALSE]
  /\ posted = [p \in Programs |-> FALSE]
  /\ win = [n \in Notepads |-> "none"]
  /\ text = [n \in Notepads |-> Blank]

-----------------------------------------------------------------------------
(* Program p: WinMain *)

Goto(p, call) == pc' = [pc EXCEPT ![p] = call]

Start(p) ==
  /\ pc[p] \in Over
  /\ Goto(p, "window")
  /\ UNCHANGED <<target, queue, windows>>

(* CreateWindow sends WM_CREATE, whose handler sends WM_COPYDATA: a call of *)
(* the window procedure from the window procedure.                          *)
CreateWindow(p) ==
  /\ pc[p] = "window"
  /\ Goto(p, "execute")
  /\ UNCHANGED <<target, queue, windows>>

CreateWindowFails(p) ==
  /\ pc[p] = "window"
  /\ Goto(p, "failed")
  /\ UNCHANGED <<target, queue, windows>>

(* The process is gone, with its queue. *)
Ends(p, how) ==
  /\ Goto(p, how)
  /\ target' = [target EXCEPT ![p] = None]
  /\ quit' = [quit EXCEPT ![p] = FALSE]
  /\ posted' = [posted EXCEPT ![p] = FALSE]
  /\ UNCHANGED windows

(* Any message but WM_QUIT ends the loop; WM_QUIT, which comes when there   *)
(* is no other, is dispatched to no window and forgotten.                   *)
GetMessage(p) ==
  \/ pc[p] = "loop" /\ posted[p] /\ Ends(p, "ended")
  \/ /\ pc[p] \in {"loop", "destroyed"} /\ ~posted[p] /\ quit[p]
     /\ quit' = [quit EXCEPT ![p] = FALSE]
     /\ UNCHANGED <<pc, target, posted, windows>>

(* With the window gone GetMessage returns -1. *)
GetMessageFails(p) == pc[p] = "destroyed" /\ Ends(p, "ended")

-----------------------------------------------------------------------------
(* Program p: WndProc *)

(* ShellExecute: Notepad is started, or is not. *)
ShellExecute(p) ==
  /\ pc[p] = "execute"
  /\ \/ \E n \in Notepads : win[n] = "none" /\ win' = [win EXCEPT ![n] = "starting"]
     \/ UNCHANGED win
  /\ Goto(p, "find")
  /\ UNCHANGED <<target, queue, text>>

(* Three seconds later some Notepad window is found, a user's or another    *)
(* program's as well as the one just started.                               *)
FindWindow(p) ==
  /\ pc[p] = "find"
  /\ \E n \in Notepads :
       /\ win[n] \in {"open", "hung"}
       /\ target' = [target EXCEPT ![p] = n]
  /\ Goto(p, "edit")
  /\ UNCHANGED <<queue, windows>>

(* The search is repeated until there is a window. *)
FindWindowWaits(p) ==
  /\ pc[p] = "find"
  /\ \A n \in Notepads : win[n] \notin {"open", "hung"}
  /\ UNCHANGED vars

(* There is none: PostQuitMessage, and the handler goes on. *)
FindWindowFailsGoesOn(p) ==
  /\ pc[p] = "find"
  /\ \A n \in Notepads : win[n] \notin {"open", "hung"}
  /\ quit' = [quit EXCEPT ![p] = TRUE]
  /\ Goto(p, "edit")
  /\ UNCHANGED <<target, posted, windows>>

(* There is none: PostQuitMessage, and the window is shown all the same.    *)
FindWindowFails(p) ==
  /\ pc[p] = "find"
  /\ \A n \in Notepads : win[n] \notin {"open", "hung"}
  /\ quit' = [quit EXCEPT ![p] = TRUE]
  /\ Goto(p, "loop")
  /\ UNCHANGED <<target, posted, windows>>

(* The handle p keeps is one of a window.  It is not when the Notepad has   *)
(* been closed, of which nobody tells p.                                    *)
Valid(p) == target[p] # None /\ win[target[p]] \in {"open", "hung"}

(* FindWindowEx: the edit control, or NULL when the Notepad has been closed *)
(* or has none of that class.                                               *)
FindEdit(p) ==
  /\ pc[p] = "edit"
  /\ \/ Valid(p) /\ UNCHANGED target
     \/ target' = [target EXCEPT ![p] = None]
  /\ Goto(p, "send")
  /\ UNCHANGED <<queue, windows>>

(* The message is posted, and its text is gone before Notepad looks at it.  *)
SetTextPosted(p) ==
  /\ pc[p] = "send"
  /\ Valid(p) /\ win[target[p]] = "open"
  /\ Goto(p, "sleep")
  /\ UNCHANGED <<target, queue, windows>>

(* SendMessage returns when Notepad has set its text: not while it hangs.   *)
SetText(p) ==
  /\ pc[p] = "send"
  /\ Valid(p) /\ win[target[p]] = "open"
  /\ text' = [text EXCEPT ![target[p]] = p]
  /\ Goto(p, "sleep")
  /\ UNCHANGED <<target, queue, win>>

(* There is no window, or it has gone: the result is not looked at. *)
SetTextFails(p) ==
  /\ pc[p] = "send"
  /\ ~Valid(p)
  /\ Goto(p, "sleep")
  /\ UNCHANGED <<target, queue, windows>>

(* Three more seconds; WM_COPYDATA, WM_CREATE and CreateWindow return and   *)
(* the window is shown.                                                     *)
Shown(p) ==
  /\ pc[p] = "sleep"
  /\ target' = [target EXCEPT ![p] = None]
  /\ Goto(p, "loop")
  /\ UNCHANGED <<queue, windows>>

(* A WM_CLOSE that is sent, not posted, reaches the window procedure from   *)
(* within GetMessage: the window is destroyed, WM_DESTROY posts WM_QUIT.    *)
Destroy(p) ==
  /\ pc[p] = "loop"
  /\ quit' = [quit EXCEPT ![p] = TRUE]
  /\ Goto(p, "destroyed")
  /\ UNCHANGED <<target, posted, windows>>

(* What a user or the system does to the window posts a message. *)
Post(p) ==
  /\ pc[p] \in Creating \cup {"loop"} /\ ~posted[p]
  /\ posted' = [posted EXCEPT ![p] = TRUE]
  /\ UNCHANGED <<pc, target, quit, windows>>

Killed(p) == pc[p] \notin Over /\ Ends(p, "killed")

-----------------------------------------------------------------------------
(* Notepad n *)

(* A user starts one, with what a file has; or one that was started opens.  *)
(* Its handles are new, or those of the last one, which programs may keep.  *)
Opens(n) ==
  /\ \/ win[n] = "none" /\ text' = [text EXCEPT ![n] = Typed]
     \/ win[n] = "starting" /\ UNCHANGED text
  /\ win' = [win EXCEPT ![n] = "open"]
  /\ \E kept \in SUBSET Programs :
       target' = [p \in Programs |->
                    IF target[p] = n /\ p \notin kept THEN None ELSE target[p]]
  /\ UNCHANGED <<pc, queue>>

Types(n) ==
  /\ win[n] = "open"
  /\ text' = [text EXCEPT ![n] = Typed]
  /\ UNCHANGED <<pc, target, queue, win>>

Hangs(n) ==
  /\ win[n] = "open"
  /\ win' = [win EXCEPT ![n] = "hung"]
  /\ UNCHANGED <<pc, target, queue, text>>

Recovers(n) ==
  /\ win[n] = "hung"
  /\ win' = [win EXCEPT ![n] = "open"]
  /\ UNCHANGED <<pc, target, queue, text>>

(* Also one that did not get as far as its window.  Programs keep what      *)
(* handles they have of it.                                                 *)
Closes(n) ==
  /\ win[n] # "none"
  /\ win' = [win EXCEPT ![n] = "none"]
  /\ text' = [text EXCEPT ![n] = Blank]
  /\ UNCHANGED <<pc, target, queue>>

-----------------------------------------------------------------------------
ProgramStep(p) ==
  \/ CreateWindow(p) \/ CreateWindowFails(p)
  \/ ShellExecute(p) \/ FindWindow(p) \/ FindWindowFails(p) \/ FindEdit(p)
  \/ SetText(p) \/ SetTextFails(p) \/ Shown(p)
  \/ GetMessage(p) \/ GetMessageFails(p)

Environment ==
  \/ \E p \in Programs : Start(p) \/ Post(p) \/ Destroy(p) \/ Killed(p)
  \/ \E n \in Notepads : Opens(n) \/ Types(n) \/ Hangs(n) \/ Recovers(n) \/ Closes(n)

Next == (\E p \in Programs : ProgramStep(p)) \/ Environment

Spec == Init /\ [][Next]_vars

(* Programs are scheduled, and Sleep returns; users and Notepads need do    *)
(* nothing.                                                                 *)
FairSpec == Spec /\ \A p \in Programs : WF_vars(ProgramStep(p))

-----------------------------------------------------------------------------
(* Properties *)

Stuck(p) == Valid(p) /\ win[target[p]] = "hung"

(* The edit control that is sent the message gets it, unless its Notepad is *)
(* closed first or hangs, or the program is killed.                         *)
TextDelivered ==
  \A p \in Programs, n \in Notepads :
    pc[p] = "send" /\ target[p] = n /\ win[n] = "open" ~>
      text[n] = p \/ win[n] # "open" \/ pc[p] = "killed"

(* CreateWindow returns although a message is handled inside it, with or    *)
(* without a Notepad and though the one that was found may be gone when its *)
(* handle is used, unless the Notepad it sends to hangs.                    *)
CreateReturns ==
  \A p \in Programs : pc[p] \in Creating ~> pc[p] \notin Creating \/ Stuck(p)
=============================================================================
