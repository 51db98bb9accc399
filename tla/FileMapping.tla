---------------------------- MODULE FileMapping ----------------------------
(***************************************************************************)
(* The file mapping programs: FileMapSend.cpp copies its message into a    *)
(* mapping of myfilemaping.txt and waits for a key; FileMapRev.cpp opens   *)
(* the mapping by name and prints what it finds up to the first NUL.       *)
(* Nothing tells a receiver that the message is there, or a sender that it *)
(* has been read.                                                          *)
(***************************************************************************)
EXTENDS Naturals, Sequences

CONSTANTS Senders,
          Receivers,
          Size,    \* words in szMsg
          NoName   \* no mapping of that name exists

Procs == Senders \cup Receivers
Message == [i \in 1..Size |-> i]

(* What a page holds where the message goes, and the word behind it: zeros  *)
(* and words of the message.                                                *)
Pages == {g \in [1..Size + 1 -> 0..Size] : \A i \in 1..Size + 1 : g[i] \in {0, i}}
Zeros == [i \in 1..Size + 1 |-> 0]
Whole == [i \in 1..Size + 1 |-> IF i <= Size THEN i ELSE 0]

ASSUME NamesAssumption ==
  /\ Senders \cap Receivers = {} /\ NoName \notin {"file", "paging"}
  /\ Size \in Nat \ {0}

VARIABLES
  pc,     \* each process: the call it makes next
  valid,  \* sender: hTxtFile is not INVALID_HANDLE_VALUE
  todo,   \* sender: the words CopyMemory has not copied yet
  out,    \* receiver: what it has printed
  whole,  \* receiver: the mapping it opened held all of the message then
  name,   \* what backs the mapping Global\MyFileMappingObject
  disk,   \* myfilemaping.txt
  page    \* the pages of a mapping backed by the paging file

vars == <<pc, valid, todo, out, whole, name, disk, page>>

Over == {"idle", "failed", "killed", "ok"}

(* These have a handle of the mapping. *)
Holding == {"map", "copy", "getch", "print", "unmap", "close", "giveup"}
Holders == {p \in Procs : pc[p] \in Holding}

TypeOK ==
  /\ pc \in [Procs -> Over \cup Holding \cup {"file", "create", "open"}]
  /\ valid \in [Senders -> BOOLEAN]
  /\ todo \in [Senders -> SUBSET (1..Size)]
  /\ out \in [Receivers -> Seq(1..Size)]
  /\ whole \in [Receivers -> BOOLEAN]
  /\ name \in {"file", "paging", NoName} /\ (name = NoName <=> Holders = {})
  /\ disk \in Pages
  /\ page \in Pages /\ (page # Zeros => name = "paging")

(* The file is new, or has the message already as the one in the            *)
(* repository has.                                                          *)
Init ==
  /\ pc = [p \in Procs |-> "idle"]
  /\ valid = [s \in Senders |-> FALSE]
  /\ todo = [s \in Senders |-> {}]
  /\ out = [r \in Receivers |-> <<>>]
  /\ whole = [r \in Receivers |-> FALSE]
  /\ name = NoName
  /\ disk \in {Zeros, Whole}
  /\ page = Zeros

-----------------------------------------------------------------------------
Goto(p, call) == pc' = [pc EXCEPT ![p] = call]

(* What the views of the mapping show. *)
View == IF name = "file" THEN disk ELSE page

(* p has no handle of the mapping any more.  With the last one the name     *)
(* goes, and what the paging file held; the file on disk stays.             *)
LetGo(p, call) ==
  /\ Goto(p, call)
  /\ IF Holders \ {p} = {} THEN name' = NoName /\ page' = Zeros ELSE UNCHANGED <<name, page>>
  /\ UNCHANGED <<valid, todo, out, whole, disk>>

MapViewOfFile(p) ==
  /\ pc[p] = "map"
  /\ Goto(p, IF p \in Senders THEN "copy" ELSE "print")
  /\ UNCHANGED <<valid, todo, out, whole, name, disk, page>>

MapViewOfFileFails(p) ==
  /\ pc[p] = "map"
  /\ Goto(p, "giveup")
  /\ UNCHANGED <<valid, todo, out, whole, name, disk, page>>

UnmapViewOfFile(p) ==
  /\ pc[p] = "unmap"
  /\ Goto(p, "close")
  /\ UNCHANGED <<valid, todo, out, whole, name, disk, page>>

CloseHandle(p) ==
  \/ pc[p] = "close" /\ LetGo(p, "ok")
  \/ pc[p] = "giveup" /\ LetGo(p, "failed")

Killed(p) == pc[p] \notin Over /\ LetGo(p, "killed")

-----------------------------------------------------------------------------
(* Sender s *)

SenderStart(s) ==
  /\ pc[s] \in Over
  /\ Goto(s, "file")
  /\ UNCHANGED <<valid, todo, out, whole, name, disk, page>>

(* CREATE_ALWAYS empties the file, unless it is mapped. *)
CreateFileAlways(s) ==
  /\ pc[s] = "file"
  /\ valid' = [valid EXCEPT ![s] = TRUE]
  /\ disk' = IF name = "file" THEN disk ELSE Zeros
  /\ Goto(s, "create")
  /\ UNCHANGED <<todo, out, whole, name, page>>

(* OPEN_ALWAYS keeps what the file has.  If it fails the handle is invalid, *)
(* which nobody looks at.                                                   *)
CreateFile(s) ==
  /\ pc[s] = "file"
  /\ \E b \in BOOLEAN : valid' = [valid EXCEPT ![s] = b]
  /\ Goto(s, "create")
  /\ UNCHANGED <<todo, out, whole, name, disk, page>>

(* The sender makes sure that it starts with an empty buffer. *)
CreateFileMappingZeroed(s) ==
  /\ pc[s] = "create"
  /\ name' = IF name # NoName THEN name ELSE IF valid[s] THEN "file" ELSE "paging"
  /\ disk' = IF name' = "file" THEN Zeros ELSE disk
  /\ page' = Zeros
  /\ todo' = [todo EXCEPT ![s] = 1..Size]
  /\ Goto(s, "map")
  /\ UNCHANGED <<valid, out, whole>>

(* If a mapping of that name exists it is opened as it is, whatever backs   *)
(* it.  A new one is backed by the file, or with an invalid handle by the   *)
(* paging file, whose pages are zero.                                       *)
CreateFileMapping(s) ==
  /\ pc[s] = "create"
  /\ name' = IF name # NoName THEN name ELSE IF valid[s] THEN "file" ELSE "paging"
  /\ todo' = [todo EXCEPT ![s] = 1..Size]
  /\ Goto(s, "map")
  /\ UNCHANGED <<valid, out, whole, disk, page>>

(* Global names take a privilege. *)
CreateFileMappingFails(s) ==
  /\ pc[s] = "create"
  /\ Goto(s, "failed")
  /\ UNCHANGED <<valid, todo, out, whole, name, disk, page>>

(* The key is waited for before the message is complete. *)
CopyMemoryShort(s) ==
  /\ pc[s] = "copy"
  /\ \E i \in todo[s] :
       /\ todo' = [todo EXCEPT ![s] = @ \ {i}]
       /\ IF name = "file"
          THEN disk' = [disk EXCEPT ![i] = i] /\ UNCHANGED page
          ELSE page' = [page EXCEPT ![i] = i] /\ UNCHANGED disk
  /\ Goto(s, "getch")
  /\ UNCHANGED <<valid, out, whole, name>>

(* One word of the message; memcpy copies in no particular order, and not   *)
(* the NUL.                                                                 *)
CopyMemory(s) ==
  /\ pc[s] = "copy"
  /\ \E i \in todo[s] :
       /\ todo' = [todo EXCEPT ![s] = @ \ {i}]
       /\ IF name = "file"
          THEN disk' = [disk EXCEPT ![i] = i] /\ UNCHANGED page
          ELSE page' = [page EXCEPT ![i] = i] /\ UNCHANGED disk
  /\ Goto(s, IF todo'[s] = {} THEN "getch" ELSE "copy")
  /\ UNCHANGED <<valid, out, whole, name>>

(* _getch: somebody presses a key. *)
KeyPressed(s) ==
  /\ pc[s] = "getch"
  /\ Goto(s, "unmap")
  /\ UNCHANGED <<valid, todo, out, whole, name, disk, page>>

-----------------------------------------------------------------------------
(* Receiver r *)

ReceiverStart(r) ==
  /\ pc[r] \in Over
  /\ out' = [out EXCEPT ![r] = <<>>]
  /\ whole' = [whole EXCEPT ![r] = FALSE]
  /\ Goto(r, "open")
  /\ UNCHANGED <<valid, todo, name, disk, page>>

OpenFileMapping(r) ==
  /\ pc[r] = "open"
  /\ name # NoName
  /\ whole' = [whole EXCEPT ![r] = View = Whole]
  /\ Goto(r, "map")
  /\ UNCHANGED <<valid, todo, out, name, disk, page>>

(* The result is not looked at. *)
OpenFileMappingUnchecked(r) ==
  /\ pc[r] = "open"
  /\ name = NoName
  /\ Goto(r, "map")
  /\ UNCHANGED <<valid, todo, out, whole, name, disk, page>>

(* NULL: no mapping of that name, or one this process may not open. *)
OpenFileMappingFails(r) ==
  /\ pc[r] = "open"
  /\ Goto(r, "failed")
  /\ UNCHANGED <<valid, todo, out, whole, name, disk, page>>

(* wprintf reads one word of the view after the other up to a NUL.          *)
PrintWord(r) ==
  LET next == Len(out[r]) + 1 IN
    /\ pc[r] = "print"
    /\ IF View[next] # 0
       THEN out' = [out EXCEPT ![r] = Append(@, View[next])] /\ UNCHANGED pc
       ELSE Goto(r, "unmap") /\ UNCHANGED out
    /\ UNCHANGED <<valid, todo, whole, name, disk, page>>

-----------------------------------------------------------------------------
Step(p) ==
  MapViewOfFile(p) \/ MapViewOfFileFails(p) \/ UnmapViewOfFile(p) \/ CloseHandle(p)

SenderStep(s) ==
  \/ CreateFile(s)
  \/ CreateFileMapping(s)
  \/ CreateFileMappingFails(s)
  \/ CopyMemory(s)
  \/ Step(s)

ReceiverStep(r) ==
  \/ OpenFileMapping(r)
  \/ OpenFileMappingFails(r)
  \/ PrintWord(r)
  \/ Step(r)

Environment ==
  \/ \E s \in Senders : SenderStart(s) \/ KeyPressed(s)
  \/ \E r \in Receivers : ReceiverStart(r)
  \/ \E p \in Procs : Killed(p)

Next ==
  \/ \E s \in Senders : SenderStep(s)
  \/ \E r \in Receivers : ReceiverStep(r)
  \/ Environment

Spec == Init /\ [][Next]_vars

(* The programs are scheduled; nobody has to start them or press a key. *)
FairSpec ==
  /\ Spec
  /\ \A s \in Senders : WF_vars(SenderStep(s))
  /\ \A r \in Receivers : WF_vars(ReceiverStep(r))

-----------------------------------------------------------------------------
(* Properties *)

(* Who opens the mapping when the message is there prints all of it,        *)
(* although the sender may leave or die meanwhile and others may copy the   *)
(* message again while it reads.                                            *)
LateReceiverPrintsAll ==
  \A r \in Receivers : pc[r] = "unmap" /\ whole[r] => out[r] = Message

(* Words that have reached the file survive the sender, whether it ended or *)
(* was killed in the middle of its copy, and every later run of it.         *)
FileKept == [][\A i \in 1..Size : disk[i] = i => disk'[i] = i]_disk

(* A receiver started while a sender waits for its key prints the message,  *)
(* unless it is refused the mapping or the view of it, or the sender goes.  *)
Delivered ==
  \A s \in Senders, r \in Receivers :
    pc[s] = "getch" /\ pc[r] = "open" ~>
      out[r] = Message \/ pc[r] \in {"failed", "giveup", "killed"} \/ pc[s] # "getch"
=============================================================================
