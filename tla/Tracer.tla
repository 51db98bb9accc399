------------------------------- MODULE Tracer -------------------------------
(***************************************************************************)
(* The log of a program (TracerNP.h; every program but the dialogs and the *)
(* broadcast pair has a copy that differs in the name of the file).  One   *)
(* static Tracer per process is constructed before main, used by all its   *)
(* threads and destroyed after main has returned, while other threads of   *)
(* the process still run.  Processes of one program share the file.        *)
(***************************************************************************)
EXTENDS Naturals, SequencesExt

CONSTANTS Procs,    \* processes of one program
          Main,     \* the thread that runs main and the destructor
          Workers,  \* the other threads of a process (the pipe server has some)
          Bom,      \* the byte order mark
          Nothing,  \* a zeroed buffer
          Nobody,   \* the critical section is free
          Deleted,  \* the critical section has been deleted
          Room      \* lines that fit on the disk

Threads == Procs \X (Workers \cup {Main})
Lines == [stamp : Threads, text : Threads]

ASSUME NamesAssumption ==
  /\ Main \notin Workers /\ Bom \notin Lines /\ Nothing \notin Threads
  /\ Nobody \notin Threads /\ Deleted \notin Threads /\ Nobody # Deleted
  /\ Room \in Nat \ {0}

VARIABLES
  run,    \* each process: how far it is from construction to exit
  valid,  \* m_hLogFile is not INVALID_HANDLE_VALUE
  pos,    \* the file pointer of that handle
  cs,     \* m_cs: the thread that has entered it
  stamp,  \* m_wstrTimeStamp: the thread whose time and id it has
  text,   \* m_wstrArgBuffer: the thread whose message it has
  pc,     \* each thread: what it does next in Trace
  log     \* the file

vars == <<run, valid, pos, cs, stamp, text, pc, log>>
threadVars == <<cs, stamp, text, pc>>

Calls == {"enter", "format", "stamp", "write", "leave"}

TypeOK ==
  /\ run \in [Procs -> {"off", "open", "bom", "up", "exit", "delete", "end"}]
  /\ valid \in [Procs -> BOOLEAN]
  /\ pos \in [Procs -> Nat]
  /\ cs \in [Procs -> Threads \cup {Nobody, Deleted}]
  /\ stamp \in [Procs -> Threads \cup {Nothing}]
  /\ text \in [Procs -> Threads \cup {Nothing}]
  /\ pc \in [Threads -> Calls \cup {"idle"}]
  /\ log \in Seq(Lines \cup {Bom}) /\ Len(log) <= Room + 1

Init ==
  /\ run = [p \in Procs |-> "off"]
  /\ valid = [p \in Procs |-> FALSE]
  /\ pos = [p \in Procs |-> 0]
  /\ cs = [p \in Procs |-> Nobody]
  /\ stamp = [p \in Procs |-> Nothing]
  /\ text = [p \in Procs |-> Nothing]
  /\ pc = [t \in Threads |-> "idle"]
  /\ log = <<>>

-----------------------------------------------------------------------------
(* The file *)

Marked == log # <<>> /\ Head(log) = Bom
Full == Len(log) >= IF Marked THEN Room + 1 ELSE Room

(* WriteFile puts an entry at the file pointer, over what is there.  With   *)
(* the disk full it fails, and nobody looks at its result.                  *)
Written(at, e) ==
  IF at < Len(log) THEN [log EXCEPT ![at + 1] = e]
  ELSE IF Full THEN log ELSE Append(log, e)

-----------------------------------------------------------------------------
(* Construction *)

RunGoto(p, phase) == run' = [run EXCEPT ![p] = phase]

(* Tracer(), up to InitializeCriticalSection. *)
Start(p) ==
  /\ run[p] = "off"
  /\ RunGoto(p, "open")
  /\ UNCHANGED <<valid, pos, threadVars, log>>

(* The file is opened with FILE_SHARE_WRITE. *)
CreateLogFileShared(p) ==
  /\ run[p] = "open"
  /\ valid' = [valid EXCEPT ![p] = TRUE]
  /\ pos' = [pos EXCEPT ![p] = 0]
  /\ RunGoto(p, "bom")
  /\ UNCHANGED <<threadVars, log>>

(* Nobody else may write while a process has the file open. *)
CreateLogFile(p) ==
  /\ run[p] = "open"
  /\ \A q \in Procs : ~valid[q]
  /\ valid' = [valid EXCEPT ![p] = TRUE]
  /\ pos' = [pos EXCEPT ![p] = 0]
  /\ RunGoto(p, "bom")
  /\ UNCHANGED <<threadVars, log>>

(* The file is in use or cannot be opened: this process never logs. *)
CreateLogFileFails(p) ==
  /\ run[p] = "open"
  /\ RunGoto(p, "up")
  /\ UNCHANGED <<valid, pos, threadVars, log>>

(* The pointer is moved to the end of the file before the mark is written. *)
WriteBomAtEnd(p) ==
  /\ run[p] = "bom"
  /\ log' = Written(Len(log), Bom)
  /\ pos' = [pos EXCEPT ![p] = Len(log')]
  /\ RunGoto(p, "up")
  /\ UNCHANGED <<valid, threadVars>>

(* The mark goes to the start, also of a file that has one; lines go after  *)
(* what the file has.  In a file that has lines and no mark it takes the    *)
(* place of the first line's line break.                                    *)
WriteBom(p) ==
  /\ run[p] = "bom"
  /\ log' = IF log = <<>> \/ Marked THEN Written(pos[p], Bom) ELSE <<Bom>> \o log
  /\ pos' = [pos EXCEPT ![p] = Len(log')]
  /\ RunGoto(p, "up")
  /\ UNCHANGED <<valid, threadVars>>

(* WriteFile fails: nobody looks, and the pointer goes to the end as well.  *)
WriteBomFails(p) ==
  /\ run[p] = "bom"
  /\ pos' = [pos EXCEPT ![p] = Len(log)]
  /\ RunGoto(p, "up")
  /\ UNCHANGED <<valid, threadVars, log>>

-----------------------------------------------------------------------------
(* Trace, called by thread t of process p = t[1] *)

Goto(t, call) == pc' = [pc EXCEPT ![t] = call]

(* The handle is tested outside the critical section; with none the call    *)
(* returns at once.  main does not trace after it has returned.             *)
Trace(t) ==
  /\ pc[t] = "idle"
  /\ run[t[1]] = "up" \/ (t[2] # Main /\ run[t[1]] \in {"exit", "delete", "end"})
  /\ valid[t[1]]
  /\ Goto(t, "enter")
  /\ UNCHANGED <<run, valid, pos, cs, stamp, text, log>>

(* The section is entered shared. *)
EnterUnlocked(t) ==
  /\ pc[t] = "enter"
  /\ cs[t[1]] # Deleted
  /\ cs' = [cs EXCEPT ![t[1]] = t]
  /\ Goto(t, "format")
  /\ UNCHANGED <<run, valid, pos, stamp, text, log>>

Enter(t) ==
  /\ pc[t] = "enter"
  /\ cs[t[1]] = Nobody
  /\ cs' = [cs EXCEPT ![t[1]] = t]
  /\ Goto(t, "format")
  /\ UNCHANGED <<run, valid, pos, stamp, text, log>>

(* Both buffers are zeroed and the message is formatted. *)
Format(t) ==
  /\ pc[t] = "format"
  /\ text' = [text EXCEPT ![t[1]] = t]
  /\ stamp' = [stamp EXCEPT ![t[1]] = Nothing]
  /\ Goto(t, "stamp")
  /\ UNCHANGED <<run, valid, pos, cs, log>>

Stamp(t) ==
  /\ pc[t] = "stamp"
  /\ stamp' = [stamp EXCEPT ![t[1]] = t]
  /\ Goto(t, "write")
  /\ UNCHANGED <<run, valid, pos, cs, text, log>>

(* The line is put together and written, unless the handle has been closed. *)
WriteLine(t) ==
  LET p == t[1] IN
    /\ pc[t] = "write"
    /\ log' = IF valid[p] THEN Written(pos[p], [stamp |-> stamp[p], text |-> text[p]])
              ELSE log
    /\ pos' = [pos EXCEPT ![p] = IF log' = log THEN @ ELSE @ + 1]
    /\ Goto(t, "leave")
    /\ UNCHANGED <<run, valid, cs, stamp, text>>

(* The handler of the exception returns. *)
ThrowsReturns(t) ==
  /\ pc[t] = "write"
  /\ Goto(t, "idle")
  /\ UNCHANGED <<run, valid, pos, cs, stamp, text, log>>

(* No memory for the line: catch (...) does nothing and Trace goes on.  A   *)
(* WriteFile that fails, on a disk that is not full, comes to the same.     *)
Throws(t) ==
  /\ pc[t] = "write"
  /\ Goto(t, "leave")
  /\ UNCHANGED <<run, valid, pos, cs, stamp, text, log>>

Leave(t) ==
  /\ pc[t] = "leave"
  /\ cs' = [cs EXCEPT ![t[1]] = IF @ = t THEN Nobody ELSE @]
  /\ Goto(t, "idle")
  /\ UNCHANGED <<run, valid, pos, stamp, text, log>>

-----------------------------------------------------------------------------
(* Destruction *)

(* main returns; the other threads go on. *)
MainReturns(p) ==
  /\ run[p] = "up"
  /\ pc[<<p, Main>>] = "idle"
  /\ RunGoto(p, "exit")
  /\ UNCHANGED <<valid, pos, threadVars, log>>

(* CloseHandle. *)
CloseLog(p) ==
  /\ run[p] = "exit"
  /\ valid' = [valid EXCEPT ![p] = FALSE]
  /\ RunGoto(p, "delete")
  /\ UNCHANGED <<pos, threadVars, log>>

(* Whoever is in the section stays there; whoever waits for it or enters    *)
(* it later waits for ever (or faults: Killed).                             *)
DeleteSection(p) ==
  /\ run[p] = "delete"
  /\ cs' = [cs EXCEPT ![p] = Deleted]
  /\ RunGoto(p, "end")
  /\ UNCHANGED <<valid, pos, stamp, text, pc, log>>

(* The process is gone with its threads and its handle. *)
Ends(p) ==
  /\ RunGoto(p, "off")
  /\ valid' = [valid EXCEPT ![p] = FALSE]
  /\ pos' = [pos EXCEPT ![p] = 0]
  /\ cs' = [cs EXCEPT ![p] = Nobody]
  /\ stamp' = [stamp EXCEPT ![p] = Nothing]
  /\ text' = [text EXCEPT ![p] = Nothing]
  /\ pc' = [t \in Threads |-> IF t[1] = p THEN "idle" ELSE pc[t]]
  /\ UNCHANGED log

Exit(p) == run[p] = "end" /\ Ends(p)

(* Also a fault in a critical section that has been deleted. *)
Killed(p) == run[p] # "off" /\ Ends(p)

-----------------------------------------------------------------------------
ProcStep(p) ==
  \/ CreateLogFile(p)
  \/ CreateLogFileFails(p)
  \/ WriteBom(p)
  \/ WriteBomFails(p)
  \/ CloseLog(p)
  \/ DeleteSection(p)
  \/ Exit(p)

(* A call of Trace, once made. *)
ThreadStep(t) == Enter(t) \/ Format(t) \/ Stamp(t) \/ WriteLine(t) \/ Throws(t) \/ Leave(t)

(* What the program and the machine do. *)
Environment ==
  \/ \E p \in Procs : Start(p) \/ MainReturns(p) \/ Killed(p)
  \/ \E t \in Threads : Trace(t)

Next ==
  \/ \E p \in Procs : ProcStep(p)
  \/ \E t \in Threads : ThreadStep(t)
  \/ Environment

Spec == Init /\ [][Next]_vars

(* All threads are scheduled; a critical section that is left again and     *)
(* again is given to each thread that waits for it.  (Within a call of      *)
(* Trace a thread can go on everywhere else, so that there this is weak     *)
(* fairness.)                                                               *)
FairSpec ==
  /\ Spec
  /\ \A p \in Procs : WF_vars(ProcStep(p))
  /\ \A t \in Threads : SF_vars(ThreadStep(t))

-----------------------------------------------------------------------------
(* Properties *)

(* Every line in the file has the time, the thread and the message of one   *)
(* call, although all threads of a process format in the same two buffers   *)
(* and the section may be deleted under them; and a mark is at the start    *)
(* and nowhere else, however often processes open the file.                 *)
LogWellFormed ==
  \A k \in DOMAIN log :
    IF log[k] = Bom THEN k = 1 ELSE log[k].stamp = log[k].text

(* Nothing that has been logged is overwritten or cut off, by later runs,   *)
(* by other processes of the program or at exit, but for the first line     *)
(* break, when the mark could not be written before.                        *)
AppendOnly == [][IsPrefix(log, log') \/ log' = <<Bom>> \o log]_log

(* A call of Trace in process p returns, unless the process ends first: no  *)
(* thread stays in the section, and one left waiting by the destructor does *)
(* not outlive it for long.                                                 *)
CallsReturn(p) ==
  \A w \in Workers \cup {Main} : pc[<<p, w>>] # "idle" ~> pc[<<p, w>>] = "idle"
=============================================================================
