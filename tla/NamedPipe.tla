----------------------------- MODULE NamedPipe ------------------------------
(***************************************************************************)
(* The multithreaded pipe server (NamedPipeServer_IPC.cpp), any number of  *)
(* runs of its client (NamedPipeClient_IPC.cpp) and the part of Windows    *)
(* between them: the instances of the pipe \\.\pipe\mynamedpipe.            *)
(*                                                                         *)
(* wmain of the server creates an instance, waits for a client to connect, *)
(* hands the instance to a new InstanceThread and goes round again.  The   *)
(* thread reads requests and writes replies until a call fails, then       *)
(* flushes, disconnects and closes the instance.  A client opens the pipe, *)
(* sends one request, reads one reply and exits.                           *)
(***************************************************************************)
EXTENDS Sequences, FiniteSets, Naturals

CONSTANTS Clients,     \* client programs, each run any number of times
          Instances,   \* pool the kernel takes pipe instances from (a bound)
          NoPipe,      \* INVALID_HANDLE_VALUE
          NoClient     \* an empty request buffer

ASSUME NamesAssumption == NoPipe \notin Instances /\ NoClient \notin Clients

VARIABLES
  mpc,     \* server wmain: the call it makes next, "off" when not running
  hPipe,   \* server wmain: its variable hPipe, stale once a thread owns it
  srv,     \* server end of each instance, as the kernel keeps it
  tpc,     \* InstanceThread of each instance: the call it makes next
  req,     \* pchRequest of that thread: whose request it holds
  c2s,     \* messages a client wrote and the server has not read
  s2c,     \* replies the server wrote and the client has not read
  cpc,     \* client wmain: the call it makes next, or how the run ended
  hnd      \* client wmain: its hPipe, an instance or NoPipe

vars == <<mpc, hPipe, srv, tpc, req, c2s, s2c, cpc, hnd>>
serverVars == <<mpc, hPipe, srv, tpc, req>>
clientVars == <<cpc, hnd>>

(* A request fits pchRequest (BUFSIZE characters) or is longer. *)
Sizes == {"fits", "long"}
Messages == [from : Clients, size : Sizes]

Ended == {"idle", "ok", "failed", "notfound", "killed"}
Holding == {"mode", "write", "read", "close"}
Serving == {"start", "read", "answer", "flush", "disconnect", "close"}

TypeOK ==
  /\ mpc \in {"off", "boot", "create", "connect", "waiting", "spawn"}
  /\ hPipe \in Instances \cup {NoPipe}
  /\ srv \in [Instances -> {"none", "listening", "connected", "disconnected"}]
  /\ tpc \in [Instances -> Serving \cup {"none", "dead"}]
  /\ req \in [Instances -> Clients \cup {NoClient}]
  /\ c2s \in [Instances -> Seq(Messages)]
  /\ s2c \in [Instances -> Seq(Clients)]
  /\ cpc \in [Clients -> Ended \cup Holding \cup {"open", "busy"}]
  /\ hnd \in [Clients -> Instances \cup {NoPipe}]

Init ==
  /\ mpc = "off"
  /\ hPipe = NoPipe
  /\ srv = [i \in Instances |-> "none"]
  /\ tpc = [i \in Instances |-> "none"]
  /\ req = [i \in Instances |-> NoClient]
  /\ c2s = [i \in Instances |-> <<>>]
  /\ s2c = [i \in Instances |-> <<>>]
  /\ cpc = [c \in Clients |-> "idle"]
  /\ hnd = [c \in Clients |-> NoPipe]

-----------------------------------------------------------------------------
(* Pipe instances, as the calls in the code rely on them. *)

Held(i) == \E c \in Clients : hnd[c] = i
Exists == \E i \in Instances : srv[i] # "none"
Listening(i) == srv[i] = "listening"
(* The kernel frees an instance when both ends have closed it. *)
Free(i) == srv[i] = "none" /\ ~Held(i)

(* The end of the server process, with every thread in it.  The kernel      *)
(* closes its handles; a reply already written can still be read.           *)
ProcessExit ==
  /\ mpc' = "off"
  /\ hPipe' = NoPipe
  /\ srv' = [i \in Instances |-> "none"]
  /\ tpc' = [i \in Instances |-> "none"]
  /\ req' = [i \in Instances |-> NoClient]
  /\ c2s' = [i \in Instances |-> <<>>]
  /\ UNCHANGED <<s2c, clientVars>>

-----------------------------------------------------------------------------
(* wmain of the server *)

ServerStart ==
  /\ mpc = "off"
  /\ mpc' = "boot"
  /\ UNCHANGED <<hPipe, srv, tpc, req, c2s, s2c, clientVars>>

CreateNamedPipe(i) ==
  /\ mpc \in {"boot", "create"}
  /\ Free(i)
  /\ hPipe' = i
  /\ srv' = [srv EXCEPT ![i] = "listening"]
  /\ c2s' = [c2s EXCEPT ![i] = <<>>]
  /\ s2c' = [s2c EXCEPT ![i] = <<>>]
  /\ mpc' = "connect"
  /\ UNCHANGED <<tpc, req, clientVars>>

CreateNamedPipeFails == mpc \in {"boot", "create"} /\ ProcessExit

(* A client that came before the call is taken for a failure. *)
ConnectNamedPipeNoRace ==
  /\ mpc = "connect"
  /\ \/ Listening(hPipe) /\ mpc' = "waiting" /\ UNCHANGED srv
     \/ ~Listening(hPipe) /\ mpc' = "create" /\ srv' = [srv EXCEPT ![hPipe] = "none"]
  /\ UNCHANGED <<hPipe, tpc, req, c2s, s2c, clientVars>>

(* No client yet: the call blocks.  One came between CreateNamedPipe and    *)
(* this call: ERROR_PIPE_CONNECTED, which counts as connected.  It came and *)
(* has closed its end again: ERROR_NO_DATA, and wmain closes the instance.  *)
ConnectNamedPipe ==
  /\ mpc = "connect"
  /\ \/ Listening(hPipe) /\ mpc' = "waiting" /\ UNCHANGED srv
     \/ srv[hPipe] = "connected" /\ Held(hPipe) /\ mpc' = "spawn" /\ UNCHANGED srv
     \/ /\ srv[hPipe] = "connected" /\ ~Held(hPipe)
        /\ mpc' = "create"
        /\ srv' = [srv EXCEPT ![hPipe] = "none"]
  /\ UNCHANGED <<hPipe, tpc, req, c2s, s2c, clientVars>>

(* The blocked call returns; the client may have come and gone meanwhile. *)
ConnectCompletes ==
  /\ mpc = "waiting"
  /\ srv[hPipe] = "connected"
  /\ mpc' = "spawn"
  /\ UNCHANGED <<hPipe, srv, tpc, req, c2s, s2c, clientVars>>

HandOver ==
  /\ mpc = "spawn"
  /\ tpc' = [tpc EXCEPT ![hPipe] = "start"]
  /\ mpc' = "create"
  /\ UNCHANGED <<hPipe, req, c2s, s2c, clientVars>>

(* The instance is closed instead of the thread handle. *)
CreateThreadClosesPipe == HandOver /\ srv' = [srv EXCEPT ![hPipe] = "none"]

(* wmain serves one client at a time: it waits for earlier threads. *)
CreateThreadWaits ==
  HandOver /\ UNCHANGED srv /\ \A i \in Instances : tpc[i] = "none"

(* The thread gets its instance by value; wmain's hPipe keeps a copy.       *)
(* CloseHandle(hThread) lets go of the thread, not of the instance.         *)
CreateThread == HandOver /\ UNCHANGED srv

CreateThreadFails == mpc = "spawn" /\ ProcessExit

(* The console is closed, or the program faults. *)
ServerKilled == mpc # "off" /\ ProcessExit

-----------------------------------------------------------------------------
(* InstanceThread *)

ThreadGoto(i, call) == tpc' = [tpc EXCEPT ![i] = call]

(* A call that changes nothing but where its thread is. *)
ThreadStep(i, call, next) ==
  /\ tpc[i] = call
  /\ ThreadGoto(i, next)
  /\ UNCHANGED <<mpc, hPipe, srv, req, c2s, s2c, clientVars>>

(* The thread answers before it has read. *)
ThreadStartUnread(i) == ThreadStep(i, "start", "answer")

ThreadStart(i) == ThreadStep(i, "start", "read")

(* HeapAlloc returns NULL: the thread returns and nothing closes hPipe. *)
ThreadAllocFails(i) == ThreadStep(i, "start", "dead")

TakeRequest(i) ==
  /\ tpc[i] = "read"
  /\ c2s[i] # <<>> /\ Head(c2s[i]).size = "fits"
  /\ req' = [req EXCEPT ![i] = Head(c2s[i]).from]
  /\ c2s' = [c2s EXCEPT ![i] = Tail(c2s[i])]
  /\ ThreadGoto(i, "answer")
  /\ UNCHANGED <<mpc, hPipe, srv, s2c, clientVars>>

(* ERROR_MORE_DATA is taken for "try again", with the same buffer. *)
ReadRequestRetried(i) == TakeRequest(i)

(* A request: one that fits is taken out of the pipe, a longer one fails    *)
(* with ERROR_MORE_DATA and ends the loop with its rest unread.             *)
ReadRequest(i) ==
  \/ TakeRequest(i)
  \/ /\ c2s[i] # <<>> /\ Head(c2s[i]).size = "long"
     /\ ThreadStep(i, "read", "flush")

Broken(i) == c2s[i] = <<>> /\ ~Held(i)

(* A failed read is retried whatever the error was. *)
ReadEndsRetried(i) == Broken(i) /\ ThreadStep(i, "read", "read")

(* Nothing left and the client gone: ERROR_BROKEN_PIPE ends the loop. *)
ReadEnds(i) == Broken(i) /\ ThreadStep(i, "read", "flush")

(* Any other error of the call also ends the loop. *)
ReadFails(i) == ThreadStep(i, "read", "flush")

Reply(i, h) ==
  /\ tpc[i] = "answer"
  /\ Held(h)
  /\ s2c' = [s2c EXCEPT ![h] = Append(@, req[i])]
  /\ ThreadGoto(i, "read")
  /\ UNCHANGED <<mpc, hPipe, srv, req, c2s, clientVars>>

(* The reply goes to wmain's hPipe, not to the instance the thread got. *)
AnswerRequestShared(i) ==
  Reply(i, hPipe) \/ (~Held(i) /\ ThreadStep(i, "answer", "flush"))

(* GetAnswerToRequest and WriteFile, which fails once the client is gone. *)
AnswerRequest(i) ==
  Reply(i, i) \/ (~Held(i) /\ ThreadStep(i, "answer", "flush"))

(* Any other error of the call, with the client still there. *)
WriteFails(i) == ThreadStep(i, "answer", "flush")

(* The thread disconnects without flushing. *)
FlushSkipped(i) == ThreadStep(i, "flush", "disconnect")

(* FlushFileBuffers returns when the client has read everything or gone. *)
FlushFileBuffers(i) == s2c[i] = <<>> /\ ThreadStep(i, "flush", "disconnect")

(* DisconnectNamedPipe throws away whatever is still in the instance. *)
DisconnectNamedPipe(i) ==
  /\ tpc[i] = "disconnect"
  /\ srv' = [srv EXCEPT ![i] = "disconnected"]
  /\ c2s' = [c2s EXCEPT ![i] = <<>>]
  /\ s2c' = [s2c EXCEPT ![i] = <<>>]
  /\ ThreadGoto(i, "close")
  /\ UNCHANGED <<mpc, hPipe, req, clientVars>>

(* CloseHandle(hPipe), both HeapFree calls and the return of the thread. *)
CloseInstance(i) ==
  /\ tpc[i] = "close"
  /\ srv' = [srv EXCEPT ![i] = "none"]
  /\ req' = [req EXCEPT ![i] = NoClient]
  /\ ThreadGoto(i, "none")
  /\ UNCHANGED <<mpc, hPipe, c2s, s2c, clientVars>>

-----------------------------------------------------------------------------
(* wmain of the client *)

ClientGoto(c, call) == cpc' = [cpc EXCEPT ![c] = call]

(* A call that changes nothing but where its client is. *)
ClientCall(c, call, next) ==
  /\ cpc[c] = call
  /\ ClientGoto(c, next)
  /\ UNCHANGED <<serverVars, c2s, s2c, hnd>>

(* A run ends: the process's handle is closed, by the code or by the exit,  *)
(* and what it had not read is gone; what it wrote stays.                   *)
ClientExit(c, how) ==
  /\ ClientGoto(c, how)
  /\ s2c' = IF hnd[c] \in Instances THEN [s2c EXCEPT ![hnd[c]] = <<>>] ELSE s2c
  /\ hnd' = [hnd EXCEPT ![c] = NoPipe]
  /\ UNCHANGED <<serverVars, c2s>>

Connected(c) == hnd[c] \in Instances /\ srv[hnd[c]] = "connected"

Launch(c) == cpc[c] \in Ended /\ ClientCall(c, cpc[c], "open")

OpenPipe(c) ==
  /\ cpc[c] = "open"
  /\ \E i \in Instances :
       /\ Listening(i)
       /\ srv' = [srv EXCEPT ![i] = "connected"]
       /\ hnd' = [hnd EXCEPT ![c] = i]
  /\ ClientGoto(c, "mode")
  /\ UNCHANGED <<mpc, hPipe, tpc, req, c2s, s2c>>

(* ERROR_PIPE_BUSY: instances exist and none is listening. *)
OpenBusy(c) ==
  /\ Exists /\ \A i \in Instances : ~Listening(i)
  /\ ClientCall(c, "open", "busy")

(* Any other error ends the run; with no instance, ERROR_FILE_NOT_FOUND. *)
OpenNotFound(c) == cpc[c] = "open" /\ ~Exists /\ ClientExit(c, "notfound")

(* WaitNamedPipe found a listening instance, but holds none for the caller. *)
WaitSucceeds(c) ==
  (\E i \in Instances : Listening(i)) /\ ClientCall(c, "busy", "open")

(* 20 seconds pass, or no instance is left. *)
WaitFails(c) == cpc[c] = "busy" /\ ClientExit(c, "failed")

SetMode(c) == Connected(c) /\ ClientCall(c, "mode", "write")

(* A message longer than the server's buffer may also leave WriteFile       *)
(* blocked until the instance is disconnected; that client is in "read".    *)
WriteRequest(c) ==
  /\ cpc[c] = "write"
  /\ Connected(c)
  /\ \E size \in Sizes :
       c2s' = [c2s EXCEPT ![hnd[c]] = Append(@, [from |-> c, size |-> size])]
  /\ ClientGoto(c, "read")
  /\ UNCHANGED <<serverVars, s2c, hnd>>

(* SetNamedPipeHandleState or WriteFile fails: the server end is gone. *)
SetupFails(c) ==
  /\ cpc[c] \in {"mode", "write"}
  /\ ~Connected(c)
  /\ ClientExit(c, "failed")

ReadReply(c) ==
  /\ cpc[c] = "read"
  /\ s2c[hnd[c]] # <<>>
  /\ s2c' = [s2c EXCEPT ![hnd[c]] = Tail(@)]
  /\ ClientGoto(c, "close")
  /\ UNCHANGED <<serverVars, c2s, hnd>>

(* Nothing to read and the server end closed or disconnected. *)
ReadReplyFails(c) ==
  /\ cpc[c] = "read"
  /\ s2c[hnd[c]] = <<>> /\ ~Connected(c)
  /\ ClientExit(c, "failed")

ClientClose(c) == cpc[c] = "close" /\ ClientExit(c, "ok")

ClientKilled(c) == cpc[c] \notin Ended /\ ClientExit(c, "killed")

-----------------------------------------------------------------------------
MainStep ==
  \/ \E i \in Instances : CreateNamedPipe(i)
  \/ CreateNamedPipeFails
  \/ ConnectNamedPipe
  \/ ConnectCompletes
  \/ CreateThread

InstanceThread(i) ==
  \/ ThreadStart(i)
  \/ ThreadAllocFails(i)
  \/ ReadRequest(i)
  \/ ReadEnds(i)
  \/ AnswerRequest(i)
  \/ FlushFileBuffers(i)
  \/ DisconnectNamedPipe(i)
  \/ CloseInstance(i)

ClientStep(c) ==
  \/ OpenPipe(c)
  \/ OpenBusy(c)
  \/ OpenNotFound(c)
  \/ WaitSucceeds(c)
  \/ WaitFails(c)
  \/ SetMode(c)
  \/ WriteRequest(c)
  \/ SetupFails(c)
  \/ ReadReply(c)
  \/ ReadReplyFails(c)
  \/ ClientClose(c)

(* What people and the rest of the machine do; no fairness. *)
Environment ==
  \/ ServerStart
  \/ ServerKilled
  \/ CreateThreadFails
  \/ \E i \in Instances : ReadFails(i) \/ WriteFails(i)
  \/ \E c \in Clients : Launch(c)
  \/ \E c \in Clients : ClientKilled(c)

Next ==
  \/ MainStep
  \/ \E i \in Instances : InstanceThread(i)
  \/ \E c \in Clients : ClientStep(c)
  \/ Environment

Spec == Init /\ [][Next]_vars

(* Every thread and process that can run is scheduled again and again. *)
FairSpec ==
  /\ Spec
  /\ WF_vars(MainStep)
  /\ \A i \in Instances : WF_vars(InstanceThread(i))
  /\ \A c \in Clients : WF_vars(ClientStep(c))

-----------------------------------------------------------------------------
(* Properties *)

MainOwns(i) == mpc \in {"connect", "waiting", "spawn"} /\ hPipe = i
ThreadOwns(i) == tpc[i] # "none"

(* An open instance has exactly one owner in the server, wmain until        *)
(* CreateThread and one InstanceThread after it: none is closed while       *)
(* somebody still uses it, none is left open with nobody to close it except *)
(* by a thread that found no memory, and a closed one has no user.          *)
HandleDiscipline ==
  \A i \in Instances :
    /\ srv[i] # "none" <=> MainOwns(i) \/ ThreadOwns(i)
    /\ ~(MainOwns(i) /\ ThreadOwns(i))

(* A reply in an instance is the only one there and answers the client that *)
(* holds the instance and waits in ReadFile, however threads, clients that  *)
(* come and go and reuse of instances interleave.                           *)
ReplyIsolation ==
  \A i \in Instances : s2c[i] # <<>> =>
    \E c \in Clients : hnd[c] = i /\ cpc[c] = "read" /\ s2c[i] = <<c>>

(* While the server runs, its end of a connected client's instance goes     *)
(* away only by DisconnectNamedPipe: wmain, which closes instances that     *)
(* "could not connect", never drops one with a client on it.                *)
LivePipeKept ==
  \A c \in Clients :
    Connected(c) /\ hnd'[c] = hnd[c] /\ srv'[hnd[c]] = "none" => mpc' = "off"

DropsOnlyDeadClients == [][LivePipeKept]_vars

(* What RequestReply promises: the phase of a client's run. *)
Phase(c) ==
  CASE cpc[c] = "read" /\ s2c[hnd[c]] = <<c>> -> "answered"
    [] cpc[c] = "read" /\ s2c[hnd[c]] # <<c>> -> "asked"
    [] cpc[c] = "close" -> "got"
    [] cpc[c] = "notfound" -> "failed"
    [] cpc[c] \in Ended \ {"notfound"} -> cpc[c]
    [] OTHER -> "out"

RR == INSTANCE RequestReply WITH phase <- [c \in Clients |-> Phase(c)]

(* Each run of the client asks once and gets the answer to its own request; *)
(* an answer the server has written is never lost to a living client, even  *)
(* by the thread that gives up or the server that dies after writing it.    *)
Session == RR!Spec

(* A client that has connected finishes, with a reply or an error, unless   *)
(* the thread of its instance died for lack of memory: nobody waits for     *)
(* ever on a full, empty or broken pipe.                                    *)
FinishesUnlessAbandoned ==
  \A i \in Instances, c \in Clients :
    hnd[c] = i ~> hnd[c] # i \/ tpc[i] = "dead"

(* An instance whose client has gone, at whatever point, is closed in the   *)
(* end, whether its client was served, killed or never got a thread.        *)
InstanceReclaimed ==
  \A i \in Instances :
    srv[i] = "connected" /\ ~Held(i) ~> srv[i] # "connected" \/ tpc[i] = "dead"

(* "This loop is free to wait for the next client": wmain waits for nothing *)
(* but a client to connect.  Wherever else it is it can go on, whatever the *)
(* instance threads and the clients do or fail to do.                       *)
AcceptLoopFree == mpc \notin {"off", "waiting"} => ENABLED MainStep

(* The client's "Try to open a named pipe; wait for it, if necessary": the  *)
(* client is told there is no pipe only while the server has not created    *)
(* the first instance of its run.                                           *)
WaitsIfNecessary ==
  [][\A c \in Clients :
       cpc[c] # "notfound" /\ cpc'[c] = "notfound" => mpc \in {"off", "boot"}]_vars
=============================================================================
