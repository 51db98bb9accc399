# A verification project for the IPC programs

The repository is a set of small Windows programs, each pair of which shows one
way for two processes to talk: a named pipe, the clipboard with events, TCP and
UDP sockets, a file mapping and `WM_COPYDATA`. They share no code except a
logging class that is copied into each. What they do share is the kind of thing that goes wrong:
threads and processes that run in any order, calls that block, peers that die in
the middle, kernel objects that outlive their users. This directory holds TLA+
models of those programs, TLC configurations that check them on small instances,
and TLAPS proofs for instances of any size.

## Inventory

| Component | Programs | State | Operations | Hard because | Correct when |
|---|---|---|---|---|---|
| Named pipe | `NamedPipeServer_IPC.cpp`, `NamedPipeClient_IPC.cpp` | pipe instances in the kernel, `hPipe` of wmain, one `InstanceThread` and its buffers per connected instance, the client's handle | create, connect, hand over to a thread; read, answer, flush, disconnect, close; open, wait, set mode, write, read, close | wmain and threads interleave; clients come between two calls and die anywhere; the server may end with conversations open | each instance has one owner, answers reach the asker, no written answer is lost, nobody hangs, instances are reclaimed |
| Clipboard dialogs | `IPCDlg_Proc{1,2}Dlg.cpp`, `IPCDlg_Proc{1,2}.cpp` | the clipboard and who has it open, a named auto-reset event per process, a UI and a worker thread in each | button handler, worker loop with `ChkEvent`, start and end of a process | four threads and other programs share one lock, which two threads of a dialog take from each other; results ignored; signal sent before the data; cross-thread `SetWindowText`; events outlive processes | the clipboard is always closed again, what is shown is what is there or was replaced by the dialog's own button, no deadlock, pending signals are delivered |
| TCP echo | `WinSockSvr.cpp`, `WinSockClient.cpp` | two byte streams, the connection, the buffers | accept, recv, send; connect, type, send, one recv, quit | TCP cuts the stream; both sides block in send; one accept only | the stream is preserved, answers come, the server ends with its client |
| UDP unicast | `UDPUniServer_IPC.cpp`, `UDPUniClient_IPC.cpp` | a 100-byte and two 50-byte buffers, the peer's address | echo loop; prompt, send, receive | loss, no timeout, truncation taken for success | every printed answer is to the last question |
| UDP multicast | `UDPMultiSvr_IPC.cpp`, `UDPMultiClient_IPC.cpp` | group membership, the address used for sending | echo loop; send, receive loop | lengths from `strlen` of zeroed or uninitialised buffers; address overwritten by `recvfrom` | messages reach the group and come back |
| UDP broadcast | `UDPBroadcastSvr.cpp`, `UDPBroadcastClient.cpp` | the port and its socket, `Sender_addr`, a client's socket | set up, bind, receive one, answer one, close; send one, receive one | order of start, one answer per run of the server, no timeout, no result looked at | one answer at most to one datagram and none lost; servers end; the first heard is served |
| File mapping | `FileMapSend.cpp`, `FileMapRev.cpp` | the named mapping, its file or its pages, the handles that keep the name | create, copy, wait for a key, close; open, print, close | no synchronisation, contents survive in the file, unchecked `CreateFile` | who finds the whole message prints it; the file loses nothing; a receiver of a waiting sender gets the message |
| WM_COPYDATA | `DataCopy_IPC.cpp` | the queue of the window, the Notepads and their texts | create, send to itself, open and find Notepad, send it a text; loop | re-entrant window procedure, inverted loop condition, windows that close or hang | creation returns; the text reaches the window found |
| Tracer | `Tracer*.h`, eleven near-identical copies | a log file handle and its file pointer, a critical section, two shared buffers, the file | construct, trace, destroy | threads trace while the static object is destroyed; several processes share one file; kills | lines are whole, the log only grows, calls return |
| Boilerplate | MFC headers, resources, project files | none | none | | |

The programs of different rows never meet. Within a row they interact through
the kernel object named in it and by nothing else; the pipe and dialog programs
also have threads that share memory of their process.

## Modules

| Module | What it is |
|---|---|
| `RequestReply` | Abstract: what the named pipe and the broadcast pair promise a client. A run asks at most once, the answer is to its question, a given answer is read or dies with its client. |
| `NamedPipe` | Server wmain, `InstanceThread` and client wmain with the pipe instances between them. Implements `RequestReply` with the refinement mapping `Phase`. |
| `NamedPipeProofs` | The TLAPS proofs about `NamedPipe`. |
| `Clipboard` | The two dialogs: UI and worker thread each, clipboard, events, other programs. |
| `TcpEcho` | Echo server and clients over a byte stream. |
| `TcpEchoProofs` | The TLAPS proofs about `TcpEcho`. |
| `UdpUnicast` | The UDP echo server and its clients on the loopback. |
| `UdpUnicastProofs` | The TLAPS proofs about `UdpUnicast`. |
| `UdpMulticast` | The servers of a multicast group and the clients that send to it. |
| `UdpMulticastProofs` | The TLAPS proofs about `UdpMulticast`. |
| `UdpBroadcast` | The one-datagram exchange, with any number of runs of server and client. Implements `RequestReply` with its own `Phase`. |
| `UdpBroadcastProofs` | The TLAPS proofs about `UdpBroadcast`. |
| `FileMapping` | Senders and receivers of the mapping, word by word. |
| `FileMappingProofs` | The TLAPS proofs about `FileMapping`. |
| `DataCopy` | The window, its message loop and window procedure, and the Notepads around it. |
| `WindowProofs` | The TLAPS proofs about `Clipboard` and, through an instance named `Copy`, about `DataCopy`. |
| `Tracer` | The logging class in several processes with several threads, one file. |
| `TracerProofs` | The TLAPS proofs about `Tracer`. |
| `MCNamedPipe`, `MCClipboard`, `MCTcpEcho`, `MCUdpUnicast`, `MCUdpMulticast`, `MCUdpBroadcast`, `MCFileMapping`, `MCDataCopy`, `MCTracer` | Instances for TLC: symmetry sets where they are used, the constants are in the `.cfg` files. |

A definition that a mutant run puts in the place of another stands directly
before it, with the bug it represents in its comment
(`ConnectNamedPipeNoRace` before `ConnectNamedPipe`).

### NamedPipe

One control variable per thread of control says which call it makes next:
`mpc` for the server's wmain, `tpc[i]` for the thread that serves instance `i`,
`cpc[c]` for a client. Each action is one blocking or state-changing call with
the code up to the next. `hPipe` is wmain's variable, `hnd[c]` the client's.
`srv[i]` is the server end of an instance in the kernel; its client end is held
when some `hnd` names it. `c2s[i]` and `s2c[i]` are the two message queues, and
`req[i]` is `pchRequest`. A request is its sender and whether it fits in
`BUFSIZE`; a reply is the client whose request it answers, because the answer
text is a constant.

The kernel's part is written from how the calls are used: an instance that is
listening may be opened at any time after `CreateNamedPipe`, also before
`ConnectNamedPipe`, which then finds the client there
(`ERROR_PIPE_CONNECTED`) or gone again (`ERROR_NO_DATA`); `CreateFile` fails with
`ERROR_PIPE_BUSY` when instances exist but none listens, and with another error
when none exists; data written before the other end closes can be read after;
`DisconnectNamedPipe` discards it. Instances come from a finite pool and are
reused, which is what makes stale handles and stale replies possible.

Processes may be killed at any call (`ServerKilled`, `ClientKilled`) and started
again. `CreateNamedPipe`, `CreateThread`, the two `HeapAlloc`s, `ReadFile` and `WriteFile` of a thread may
fail, the last two also with the client there. The client writes once in a run, and a message longer than the kernel's
quota may block its `WriteFile` until the server has given up on it; the
model has that client already waiting in `ReadFile`, as both calls end the same way.

### Clipboard

`ui[p]` and `worker[p]` are the two threads of process `p`. `lock` is the thread
that has the clipboard open, `clip` its text, `event[p]` the named event that
exists while somebody has a handle on it, `opened[p]` the handle on the
peer's event that the button handler never closes.
`OpenClipboard` fails only while another window has the clipboard open. Both threads of a process open it for their
dialog window, so they never refuse each other (`CanOpen`): whoever opens it last has it, and the other's calls fail from
then on and change nothing; the code does not look. So the button handler may take the clipboard from its worker before the
worker has got the text (`GetClipboardData` then returns NULL), or replace, and thereby free, the text that the worker
has locked and waits to show. `got[p]` is then `Freed`, and what `SetWindowText` shows is undefined. `SetWindowText`
from the worker is a message to the UI thread and waits until that is
idle. Other programs open the clipboard, leave any text on it, and may keep it.
The two source files differ in which event is theirs, and the first one's handler does nothing when its `UpdateData`
fails, which is a click that did not happen; so one definition stands for both and is mapped to either.

### TcpEcho

A byte is its place in all that the user typed, so that every one is told from every other, or one that the server made up
(`NUL`, `Beyond`). `c2s` and `s2c` are the bytes in flight with bounded room;
`typed` and `read` are history: how many bytes the user's lines have had and all that the client received.
A line of `k` characters is the next `k + 1` bytes, as it is sent with its NUL, and `Unsent` those of it that `send` has still to hand over.
`recv` returns any non-empty part of what is there that fits the buffer. `send`
of the client hands over what the kernel takes and blocks for the rest; `send` of
the server waits until the whole reply fits. The server's end of a connection that the client has closed
is noticed by `recv` returning zero or an error, or by a failing `send`, sooner or
later; which of these comes first is left open, also in cases where TCP
would fix it.

### UdpUnicast

`srv` and `cl[c]` say which call a program makes next, `inbox` is what the server's socket
holds and `events[c]` what a client's holds: answers, and `Unreachable` for a
pending `WSAECONNRESET`. The client sends to 127.0.0.1, so the network between them neither
reorders nor drops: a question is lost when no server has the port, when the
server's socket is full (`Room`) or when the server ends. A send to a port nobody has
makes the sender's next `recvfrom` fail, at the client (`RecvUnreachable`) as at the server
(`reset`, `RecvFails`). A client that has ended leaves questions behind; their sender becomes `Gone`,
because its port is not used again. The server sends back all of its 100 bytes, which the client receives into
50: `recvfrom` stores what fits and fails with `WSAEMSGSIZE`, and the client, which compares the
result with zero, goes on as after a success. A `sendto` that fails asks the user again (`AskFails`). Texts fit both buffers.

### UdpMulticast

One address variable per program serves `recvfrom` and `sendto`: `saddr` and
`caddr`. What is under way is counted by sender, receiver and, for messages, whether they were sent to the
group or to one server (`Ways`), so that messages overtake each other freely, and `Lose` drops
any. Lengths are those of `strlen` on buffers that hold nothing yet: the
server receives into zero bytes, every message fails with `WSAEMSGSIZE`, which is not zero, and it
answers with zero bytes. There are no contents left to model. A client's buffer is
uninitialised, so the length it receives with is arbitrary, but its result is not looked at. The errors a
socket has pending end with its process. A member
of `Clients` is one run of the program with a port of its own; a server may be killed and
started again on the same port.

### UdpBroadcast

Nothing is broadcast: the option is set, but the client sends to 127.0.0.1 and the server answers the
sender. `svr[s]` and `cl[c]` are the calls of a run; a process may run again. `port` is the
server process that has bound 9009, `inbox` the senders of the datagrams in its socket, `box[c]` what a client's
`recvfrom` will get. A datagram has no contents worth telling apart, so its sender stands for it. A run of the server
answers the first datagram and closes the socket with the rest (`SvrClose`). A client whose datagram finds no server
may get `Unreachable`, and then prints an empty buffer (`RecvFails`), or waits. A client that has ended becomes `Gone`
wherever its address is kept.

### FileMapping

A message is `Size` words, a page holds them and the word behind, and the view is the file or, when `CreateFile` failed and
nobody looked, pages of the paging file. (The comment at `FileMapSend.cpp:22` calls the file's handle the paging file; only a
failed `CreateFile` makes that true.) `name` says what backs the mapping, which exists as
long as a process has a handle of it; `CreateFileMapping` opens one that exists
as it is. `CopyMemory` copies words in any order and not the NUL, `PrintWord` reads one word after the other up to the first zero.
Each call may fail where the code looks at its result, `OpenFileMapping` also with the mapping there (access to it may be denied).
The file starts new or with the message in it, as the one in the repository has it. `whole` is
history: that the receiver found the complete message when it opened the mapping.

### DataCopy

`pc[p]` is where a program is in `WinMain` and, while `CreateWindow` has not returned (`Creating`), in the window procedure:
`WM_CREATE` sends `WM_COPYDATA` to the same window, so the steps of its handler follow each other with no message between. `quit`
and `posted` are what the queue holds: a `WM_QUIT`, which comes last, or any other message. The loop goes on while `GetMessage` returns
0, so it forgets a `WM_QUIT` and ends with anything else. `target` is the window found, then its edit control. It stays when that Notepad closes, of which nobody tells the program
(`Valid` is false from then on and calls with it fail), and a Notepad that opens later may have the same handles. Notepads are
opened by users or by `ShellExecute`, typed into, hang and close; `FindWindow` takes any of them, as the code does.

### Tracer

`run[p]` follows the static object of a process from before its constructor to after its destructor, `pc[t]` a thread in `Trace`.
A share mode without `FILE_SHARE_WRITE` lets one process have the file open; the others' `CreateFile` fails and they log
nothing (`CreateLogFileFails`). An entry of `log` is the byte order mark or a line, and a line is the threads whose
time and whose message it has: `stamp` and `text` are the two member buffers all threads of a process share. `pos` is the
file pointer, `Written` what `WriteFile` does there, or does not with the disk full (`Room` lines; the mark always fits). `OPEN_ALWAYS` leaves the pointer at the start, so
the mark is written over the mark. Nobody looks whether it could be written (`WriteBomFails`): lines then follow without one, and the next run puts
its mark over the line break that the first of them starts with. After main has returned the destructor closes the handle and deletes
the section while workers trace: who is inside goes on, who waits or enters later stays until the process ends.
Formatting may throw, or a line may fail to be written; nothing is done about either and the section is left as usual (`Throws`).

## Runs

| Run | Instance | Checks |
|---|---|---|
| `pipe_safety` | 2 clients, 3 instances | `TypeOK`, `HandleDiscipline`, `ReplyIsolation`, `AcceptLoopFree`, `DropsOnlyDeadClients`, `Session` |
| `pipe_live` | 2 clients, 2 instances, fair | `FinishesUnlessAbandoned`, `InstanceReclaimed` |
| `pipe_notfound` | 1 client | violates `WaitsIfNecessary` |
| `clipboard` | 1 text, fair | `TypeOK`, `ClipboardReturned`, `ShowsCurrentText`, `NobodyStuck`, `PendingSignalDelivers` |
| `tcp` | 2 clients, 8 bytes each in lines of 2 to 4, buffer 3, fair | `TypeOK`, `EchoInOrder`, `AnswerComes`, `ServerEnds` |
| `tcp_exact` | 1 client | violates `EchoesMessage` |
| `unicast` | 2 clients, 2 texts, room for 2, fair | `TypeOK`, `AnswersOwnQuestion`, `KeptUntilAnswered`, `PendingAnswered` |
| `multicast_storm` | 2 servers, 2 clients | `TypeOK`, `NoStorm` |
| `broadcast` | 2 servers, 2 clients, room for 2, fair | `TypeOK`, `Session`, `ServerEnds`, `FirstIsServed`, `LostForGood` |
| `filemap` | 2 senders, 1 receiver, 2 words, fair | `TypeOK`, `LateReceiverPrintsAll`, `FileKept`, `Delivered` |
| `tracer` | 2 processes of 2 threads, room for 2 lines, fair | `TypeOK`, `LogWellFormed`, `AppendOnly`, `TraceReturns` |
| `datacopy` | 2 programs, 2 Notepads, fair | `TypeOK`, `TextDelivered`, `CreateReturns` |

Bounds. With two clients every pair of conversations interleaves; three
instances are one more than two clients can hold, so that wmain
listens on a third while two are served and freed instances are reused. Nothing
bounds the number of runs: clients and server restart for ever. One text on the clipboard, and none, tell what is shown from
what is there; `WindowProofs` has the same for any set of texts. A TCP buffer smaller than a line and kernel buffers not much larger
make partial receives, full buffers and blocked sends happen in short
runs. Two unicast clients and the questions of runs that have ended make a socket with room for two full. `UdpMulticast` needs no bound on what
is under way: `NoStorm` is one, and the run ends because it holds. Two
servers contend for the port of the broadcast pair and room for two leaves a second client unserved. Two senders copy over each other while a
receiver reads, and two words are copied in either order and half-copied. Two processes of a main thread and a worker
contend for the log and race with their destructors; room for two lines is a line of each of two
calls, of one process or of both, and then a full disk. `TraceReturns` is checked for the threads of one process, as nothing in the module tells
processes apart. Two programs find each other's Notepads and each other's texts.
No other bound is in the modules; `Instances`, `MaxInput`, `MaxTyped`, `Size` and `Room` are
the ones named there.

Symmetry is used in `pipe_safety` and `multicast_storm`, which have no liveness property.
The TCP and multicast configurations say `CHECK_DEADLOCK FALSE`: each client, and the TCP server,
runs once and ends, and nothing need happen after. The other systems never stop, and
deadlock is checked.

What the violated runs show:

* `pipe_notfound`. The comment at `NamedPipeClient_IPC.cpp:26` says the client waits
  for the pipe if necessary. It waits when instances are busy; but wmain
  creates the next instance only after it has started a thread for the last one, and if
  that thread's client is gone and the instance closed first, there is no instance for
  a moment, and a client that comes then exits although the server runs.
* `tcp_exact`. The echo is one byte longer than the message (`WinSockSvr.cpp:139`),
  and for a full buffer that byte lies behind the array.

Other weaknesses appear as the exact wording of properties that hold.
`PendingSignalDelivers` speaks of signals still pending when the clipboard is free: the button handler sets
the peer's event before it has put the text on the clipboard and closed it, so a quick peer
may fail to open it, and that signal is spent with nothing shown.
`ShowsCurrentText` says that a worker shows what is on the clipboard unless the button of its own dialog has replaced it: with a signal
at the worker, a click before it has been shown frees the text under `SetWindowText`
(`IPCDlg_Proc1Dlg.cpp:248`). What the property does promise is that nobody else can do that, and that the worker does not show a text
after having closed the clipboard.
`AnswerComes` excepts a server blocked in `send`: a client that gets fewer bytes per `recv` than
it is owed leaves the rest unread, and when that fills the kernel's buffers
both programs wait in `send`. It also speaks of the accepted client only: the one `accept` is before
the loop, and others stay in the backlog. `NoStorm` counts on what looks like a slip in the
multicast client: `recvfrom` stores into the address that `sendto` uses, so only its first message goes to the
group; were every message to go there, each answer of each server would start a round of all of them.
A multicast server traces a message received and answers whenever `recvfrom` is not zero, also when it was the error of an
answer that did not arrive, and a unicast client that fails to receive prints what it got for an earlier question, or an
uninitialised buffer (`UDPUniClient_IPC.cpp:65`): `SOCKET_ERROR` is not zero.
`LostForGood` says of the broadcast pair that who comes early or second waits until somebody kills it.
`LateReceiverPrintsAll` is restricted to receivers that found the whole message: any other may print the beginning of it or nothing.
`Delivered` excepts a failing `OpenFileMapping` and a failing `MapViewOfFile`, and `AppendOnly` the line break that a late mark takes.
`TextDelivered` speaks of the window found, which need not be the Notepad
just started. Of the inverted condition at `DataCopy_IPC.cpp:58`, with which a click ends the program and `WM_QUIT` does not, there is no
property: `GetMessage` models it, what should hold does not, and nothing in the repository states it.
`TraceReturns` holds because a process ends: a thread that the destructor leaves in, or before, a deleted section does not return by itself.

## Fairness

* `NamedPipe`: weak fairness of wmain, of each instance thread and of each client's
  own steps. Each is a thread the operating system schedules, and each of its calls that can
  return stays able to return until it does. Nothing is assumed of people (launching, killing)
  nor of failing calls, except those a stuck call ends with.
  `AcceptLoopFree` is an invariant and needs none: outside of `ConnectNamedPipe` wmain can always take a step of its own.
* `Clipboard`: weak fairness of both threads, and strong fairness of
  `SetWindowText`: it waits for a UI thread that is busy again with every click, but
  a thread takes messages sent to it before posted and input messages when it returns to its loop.
  Users and other programs owe nothing.
* `TcpEcho`: weak fairness of the server and of each client's calls; users may never type.
* `UdpUnicast`: the same. `PendingAnswered` speaks of questions that are on their way: who waits
  for one that was lost waits for ever, as there is no timeout.
* `UdpBroadcast`, `FileMapping`, `DataCopy`: weak fairness of each program's own steps. Nobody has to start a program or
  press a key; Notepads need not recover.
* `Tracer`: weak fairness of each process and strong fairness of each thread's calls: a critical section that is left
  again and again is given to a thread that waits for it at some time. Everywhere else in `Trace` a thread can go on at once, and there
  this is weak fairness.
* `UdpMulticast` has no liveness property: any datagram may be lost, and then nothing must happen.

Liveness of processes is stated up to their being killed, which any of the
properties' goals covers (the connection is down, the handle closed).

## Proofs

TLC checks the invariants for the instances above; the theorems hold for all values of the
constants that satisfy the modules' assumptions (the special values
`NoPipe`, `NoClient`, `Nobody`, `Other`, `NoText`, `NoName`, `Nothing`, `Gone`, `Unreachable`, `Deleted` and so on are not members of the sets, the two
processes differ, a socket and a disk have room for something, a message has a word, the kernel takes more of an answer than the server's
buffer holds). Sets of programs may be infinite, except in `UdpMulticast`, whose property counts them.

`NamedPipeProofs`:
`TypeCorrect`, `HandlesDisciplined`, `RepliesIsolated`, `NoLiveClientDropped`, `ImplementsRequestReply`.
All follow from one inductive invariant `IInv`. `HandleDiscipline` alone is not inductive:
that wmain's instance is not also a thread's depends on the state of the instance at each
point of its owner's code (`InstanceStates`), and `ReplyIsolation`
depends on where the one request of a waiting client is: in the pipe, in the thread's buffer, answered or
dropped (`Conversation`), which in turn needs that an instance has one holder
(`OneHolder`) and that a client holds an instance exactly between `CreateFile` and the end
of its run (`HolderPhase`). `Inductive` has one step per action; `ClientExitStep` and
`ProcessExitStep` serve the many actions that end a run or the server.
The refinement maps every step to a step of `RequestReply` of one client or to a
stutter: `ClientMoves` for the client's steps, `OneMoves` where a thread answers,
`NobodyMoves` for the rest. That `FlushFileBuffers` precedes `DisconnectNamedPipe` enters as
the conjunct of `InstanceStates` that says there is nothing unread at "disconnect".

Two more theorems are what can be proved of the module's liveness. `NobodyWaitsInVain`: a client in `ReadFile` has something to read or
finds its pipe broken, or wmain still owns its instance, or the instance's thread is at a call that does not block (or is dead). `IInv` allows for a
dropped request and does not say this; `RequestsKept` adds that until a thread has read it the request is in the pipe, and that the thread answers
before it reads again. `AcceptWaitsForClients`: in and before `ConnectNamedPipe` wmain's instance is listening or has its
client, `AcceptLoopFree` but for the word `ENABLED`.

`WindowProofs`: `TypeCorrect`, `ClipboardAlwaysReturned`, `ShownTextIsCurrent`, `PendingSignalIsKept`; `CopyTypeCorrect`, `CopyTextNotLost`. The invariant adds
`ShownUnderLock`, that while a worker shows a text that has not been freed the clipboard is open for its dialog and the text is
the one there, which is why no other window can change it, and `OffIsQuiet`, that a process that is
not running has no worker. `HandlesStep` proves that events exist while there are handles on them. `PendingSignalIsKept` is the safety half of
`PendingSignalDelivers`: as long as nobody else comes near the clipboard, a signal is pending, or the worker has taken it and shows the
text that was there (`OnItsWay`); `WorkerDelivers` follows the worker through it. The last two are about `DataCopy`, whose constants and variables are
declared again for `Copy == INSTANCE DataCopy`; they need no assumption on the constants. Its types are inductive as
they stand; what in them is not about a single variable is that a `WM_QUIT` is in the queue of a program only when that has come to
its loop. `CopyTextNotLost` is the safety half of `TextDelivered`: as long as the
window found is there, its text is on its way until it is set or the program is killed.

`UdpUnicastProofs`: `TypeCorrect`, `AnswersPaired`, `QuestionsKept`. `AnswersOwnQuestion` speaks of a
client's socket only and is not inductive; `OnePlace` says of the question of a client that
waits that it is in at most one place, a single datagram in the server's socket or the server's buffer,
unchanged, with the client's own socket empty as long as it is there. `Recv` and
`Send` move it on, and a client has to read before it asks again. The lemmas before `Initially`
say what `Head`, `Tail`, `Append` and a change of elements do to a queue.

`UdpBroadcastProofs`: `TypeCorrect`, `ImplementsRequestReply`, `LostIsForGood`, `FirstStaysFirst`, `EndsOnceItHasRead`. The promise "answered at most once" is about datagrams, not
about a client's state, so the invariant (`OnePlace`) follows each datagram: it is in the socket once, or with the server that
answers it, or nowhere, and as long as it is somewhere its sender waits with an empty socket. `ClientMoves` and `AnswerMoves` map the steps
to those of `RequestReply`. The last two theorems are the safety halves of `FirstIsServed` and `ServerEnds`. Both are about a server with something to read, and
both need that nobody else reads it (`OnlyOneListens`, from the types: one process has the port) and that what clients do leaves the head of the queue where it is
(`FirstStays`). `Due` follows the client that is first: from the head of the queue to the server's `Sender_addr` to an answer in its own socket.
`Ending` follows the server: from a queue that is not empty to `close`, and from there it does not return.

`FileMappingProofs`: `TypeCorrect`, `LateReceiversPrintAll`, `FileIsKept`, `MessageWaits`, `ReceiversFindMessage`. `Printed` adds to the types that what is printed is the beginning of the message and
that a view that was whole stays whole as long as its receiver has it. `WordCopied` is why: copying a word again changes nothing
in a whole page and takes nothing from any. `LetGoStep` proves that the backing of a mapping changes with its last handle only.
The last two theorems are about the other end. `Copied` says of a sender that has the mapping that the words it has copied are in it, which is inductive because
nobody takes a word from a mapping that is there (`ViewGrows`); so when it waits for its key all of them are (`MessageWaits`, where
`PagesEqual` turns equal words into equal pages). A receiver that comes then and is not refused finds the whole message
(`ReceiversFindMessage`), and by `LateReceiversPrintAll` prints it: the safety half of `Delivered`.

`TracerProofs`: `TypeCorrect`, `LogIsWellFormed`, `LogOnlyGrows`. `LogWellFormed` needs two exclusions. Within a process
(`OneInside`) a thread that is past `EnterCriticalSection` has the section or had it when it was deleted, which is why
deleting it does not let a second one in. Between processes (`OneWriter`) one has the file open and its pointer is
at the end once the mark has been written or not, so that `WrittenAtEnd` applies; `QuietBeforeUp`
says that nobody writes a line before. `WrittenAtStart` says what the mark does to a file that has none, and `RoomForMark` that there is room for it. `NobodyLeftInSection` is the safety half of `TraceReturns`: who waits for the section waits for
another thread that is inside (`HolderInside`), none of whose calls blocks, or for the end of the process (`DeletedAtEnd`).

`TcpEchoProofs`: `TypesHold`, `EchoKeepsOrder`, `NoMutualWait`, `SendWaitsForSend`. `EchoInOrder` joins the five places a byte can be in to one sequence, which no step of
the code looks at; the invariant takes it apart. With `Taken` the number of bytes the server has received and `Echoed` the number it has sent back,
the bytes in `buf` are those that follow on `Echoed`, those in `c2s` follow on `Taken`, and what the client has read or can read (`Whole`) has exactly the first
`Echoed` ones, in order (`Intact`). Receiving moves `Taken`, sending moves `Echoed` up to it and adds a byte of the server's own (`InOrderMadeUp`), and a
client's `recv` leaves `Whole` as it is (`CutAndJoin`). `InOrderAll` puts the parts end to end again. After the connection or the client has gone only the
first half remains: what was read is in order. `EndsOf` says what the two ends know of each other: who is served is connected, and `left` is
zero outside `send`. The lemmas before them are about sequences: `Concat`, `Cut`, `FollowsJoin` and so on.
`NoMutualWait` is the safety half of `AnswerComes`: a served client in `recv` has something to read, or the server has something to
receive or room to send. `AnswersDue` says that the last byte of its line is one it has not read (it takes one `recv` for a line
and prompts); if it were neither in `buf` nor in `c2s` it would be echoed, so it is on its way.
`SendWaitsForSend` is the same for a client in `send`, where the two programs do wait for each other: it says that this happens in one way only
(`EachInSend`), with the kernel's room full in both directions and answers that the client has not read. It needs that a client in `send` has
something left to hand over (`SendsSomething`), for which `SendLine` is taken apart by `HandedOver`.

`UdpMulticastProofs`: `TypesHold`, `StormNeverComes`, `OnlyFirstMessagesAdd`. What is under way is the size of a set of units (`Total`), so
the lemmas before `Initially` need the library's facts about cardinality and no induction: one unit more or less, a set cleared. `Balance` goes through
the steps: a message received becomes an answer or an error, a loss takes one, and a restart clears; only `SendsFirst`, a client's message to the group,
adds, at most one for each server (`FirstMessage`). `GroupOnce` is what makes the invariant inductive: errors come only of messages to
one server and an answer makes its sender the address, so that a client does not send to the group again, and counts as `Started` from then on.

Only model-checked:

* every liveness property, which is out of the prover's reach. What can be proved of them is that nothing
  stands in their way: that what must happen stays possible, or on its way, until it does. Where that is not plain from the actions there is a theorem:
  `NobodyWaitsInVain` (`FinishesUnlessAbandoned`), `PendingSignalIsKept` (`PendingSignalDelivers`), `NoMutualWait` and `SendWaitsForSend` (`AnswerComes`),
  `QuestionsKept` (`PendingAnswered`), `FirstStaysFirst` (`FirstIsServed`), `EndsOnceItHasRead` (`ServerEnds` of the broadcast pair),
  `ReceiversFindMessage` (`Delivered`), `NobodyLeftInSection` (`TraceReturns`) and `CopyTextNotLost` (`TextDelivered`).
  `InstanceReclaimed`, `NobodyStuck`, `ServerEnds` of the TCP echo and `CreateReturns` have none: there each step on the
  way is one call that does not block, or waits for a thread whose calls do not, and that they are all taken is what fairness says;
* `AcceptLoopFree`, because of its `ENABLED`, but see `AcceptWaitsForClients`.

## Not modelled

Logging (except in `Tracer`), console and edit-control text, painting and the generated MFC handlers
are left out; so are failures of calls the code has no path for. Overflow of the 50- or 4096-byte
input buffers by the user's typing is a property of `cin >>` and not of these protocols.
Byte contents matter in `TcpEcho` only.
The one component without a module is the boilerplate, which has no state.

Some weaknesses of the code have no property, because the model has nothing to say of them but what the code does: a `CreateEvent` that
fails leaves the clipboard worker in a loop of failing waits (modelled as `spin`); other TCP clients than the first wait in the backlog;
the unicast client's 50 bytes hold half of the answer; the multicast client takes `strlen` of a buffer nobody has written. The last is
undefined and any result is allowed for. A thread that is in `Trace` when the section is deleted under it may also
fault, which ends the process and is `Killed`.

## Plan

1. Done: `RequestReply`, `NamedPipe` and its proofs, `Clipboard` and its proofs, `TcpEcho`, `UdpUnicast` and its proofs,
   `UdpMulticast`.
2. Done: `Tracer`, `FileMapping`, `UdpBroadcast` with their proofs, `DataCopy`.
3. Done: proofs about `TcpEcho` and `UdpMulticast`, and what can be proved of the liveness of `NamedPipe`, `Tracer` and `TcpEcho`.
4. Done: the same for `Clipboard`, `UdpBroadcast`, `FileMapping` and `DataCopy`, and the types of `DataCopy`.
5. Left: nothing that the code calls for. A change of the programs has to go through the module, its run and its proofs.
