------------------------- MODULE FileMappingProofs -------------------------
(***************************************************************************)
(* Proofs about FileMapping for any number of senders and receivers and a  *)
(* message of any length: nothing takes a word away from the file, a       *)
(* mapping that holds the message holds it as long as anybody has it open, *)
(* and it holds it while a sender waits.                                   *)
(***************************************************************************)
EXTENDS FileMapping, TLAPS

(* What a receiver has printed is the beginning of the message, and the     *)
(* view it prints from stays whole when it was.                             *)
Printed ==
  \A r \in Receivers :
    /\ out[r] \in Seq(1..Size) /\ Len(out[r]) <= Size
    /\ \A i \in 1..Len(out[r]) : out[r][i] = i
    /\ pc[r] \in {"open", "map"} => out[r] = <<>>
    /\ pc[r] = "open" => ~whole[r]
    /\ whole[r] /\ pc[r] \in {"map", "print", "unmap"} => View = Whole
    /\ whole[r] /\ pc[r] = "unmap" => Len(out[r]) = Size

IInv == TypeOK /\ Printed

(* The word behind the message is zero. *)
LEMMA PageWords ==
  ASSUME NEW g \in Pages
  PROVE  /\ g \in [1..Size + 1 -> 0..Size]
         /\ \A i \in 1..Size + 1 : g[i] \in {0, i}
         /\ g[Size + 1] = 0
BY NamesAssumption DEF Pages

LEMMA WordCopied ==
  ASSUME NEW g \in Pages, NEW i \in 1..Size
  PROVE  /\ [g EXCEPT ![i] = i] \in Pages
         /\ g = Whole => [g EXCEPT ![i] = i] = g
         /\ \A j \in 1..Size : g[j] = j => [g EXCEPT ![i] = i][j] = j
<1>1. Size \in Nat /\ i \in 1..Size + 1
  BY NamesAssumption
<1>2. g = Whole => g[i] = i
  BY <1>1 DEF Whole
<1> QED
  BY <1>1, <1>2, PageWords DEF Pages

LEMMA Initially == Init => IInv
<1> SUFFICES ASSUME Init PROVE IInv
  OBVIOUS
<1> USE NamesAssumption DEF Init
<1>1. Zeros \in Pages /\ Whole \in Pages
  BY DEF Pages, Zeros, Whole
<1>2. Holders = {}
  BY DEF Holders, Holding
<1>3. TypeOK
  BY <1>1, <1>2 DEF TypeOK, Over, Procs
<1>4. Printed
  BY DEF Printed, Procs
<1> QED
  BY <1>3, <1>4 DEF IInv

(* p gives up its handles: the others' views stay what they are.            *)
LEMMA LetGoStep ==
  ASSUME IInv, NEW p \in Procs, NEW call \in Over, LetGo(p, call)
  PROVE  IInv'
<1> USE DEF IInv, LetGo, Goto
<1>1. Holders' = Holders \ {p}
  BY DEF TypeOK, Holders, Holding, Over
<1>2. TypeOK'
  <2>1. pc' \in [Procs -> Over \cup Holding \cup {"file", "create", "open"}]
    BY DEF TypeOK
  <2>2. /\ name' \in {"file", "paging", NoName} /\ (name' = NoName <=> Holders' = {})
        /\ page' \in Pages /\ (page' # Zeros => name' = "paging")
    <3>1. Zeros \in Pages
      BY NamesAssumption DEF Pages, Zeros
    <3> QED
      BY <1>1, <3>1 DEF TypeOK
  <2> QED
    BY <2>1, <2>2 DEF TypeOK
<1>3. Printed'
  <2> SUFFICES ASSUME NEW r \in Receivers, whole[r],
                      pc'[r] \in {"map", "print", "unmap"}
               PROVE  View' = View
    BY DEF TypeOK, Printed, Procs, Over
  <2>1. r \in Holders'
    BY DEF Holders, Holding, Procs
  <2>2. UNCHANGED <<name, page>>
    BY <1>1, <2>1
  <2> QED
    BY <2>2 DEF View
<1> QED
  BY <1>2, <1>3

(* p goes on with the mapping it has.                                       *)
LEMMA KeepsStep ==
  ASSUME IInv, NEW p \in Procs,
         MapViewOfFile(p) \/ MapViewOfFileFails(p) \/ UnmapViewOfFile(p)
  PROVE  IInv'
<1> USE DEF IInv, Goto, MapViewOfFile, MapViewOfFileFails, UnmapViewOfFile
<1>1. Holders' = Holders /\ pc' \in [Procs -> Over \cup Holding \cup {"file", "create", "open"}]
  BY DEF TypeOK, Holders, Holding
<1>2. TypeOK'
  BY <1>1 DEF TypeOK
<1>3. Printed'
  BY NamesAssumption DEF TypeOK, Printed, Procs, View
<1> QED
  BY <1>2, <1>3

-----------------------------------------------------------------------------
(* The sender *)

(* A step of a sender before it has a mapping, or its wait for a key.       *)
LEMMA SenderQuiet ==
  ASSUME IInv, NEW s \in Senders,
         \/ SenderStart(s) \/ CreateFile(s)
         \/ CreateFileMappingFails(s) \/ KeyPressed(s)
  PROVE  IInv'
<1> USE NamesAssumption
    DEF IInv, Goto, SenderStart, CreateFile, CreateFileMappingFails, KeyPressed
<1>1. s \in Procs /\ s \notin Receivers
  BY DEF Procs
<1>2. Holders' = Holders /\ pc' \in [Procs -> Over \cup Holding \cup {"file", "create", "open"}]
  BY <1>1 DEF TypeOK, Holders, Holding, Over
<1>3. valid' \in [Senders -> BOOLEAN] /\ UNCHANGED <<todo, out, whole, name, disk, page>>
  BY DEF TypeOK
<1>4. TypeOK'
  BY <1>2, <1>3 DEF TypeOK
<1>5. Printed'
  <2>1. \E call : pc' = [pc EXCEPT ![s] = call]
    OBVIOUS
  <2>2. \A r \in Receivers : pc'[r] = pc[r]
    BY <1>1, <2>1 DEF TypeOK, Procs
  <2> HIDE DEF SenderStart, CreateFile, CreateFileMappingFails, KeyPressed
  <2> QED
    BY <1>3, <2>2 DEF Printed, View
<1> QED
  BY <1>4, <1>5

(* A mapping that exists keeps what backs it; with a new one there are no   *)
(* views yet.                                                               *)
LEMMA CreateFileMappingStep ==
  ASSUME IInv, NEW s \in Senders, CreateFileMapping(s)
  PROVE  IInv'
<1> USE NamesAssumption DEF IInv, Goto, CreateFileMapping
<1>1. s \in Procs /\ s \notin Receivers
  BY DEF Procs
<1>2. s \in Holders' /\ pc' \in [Procs -> Over \cup Holding \cup {"file", "create", "open"}]
  BY <1>1 DEF TypeOK, Holders, Holding
<1>3. name' \in {"file", "paging"} /\ (name # NoName => name' = name)
  BY DEF TypeOK
<1>4. TypeOK'
  <2>1. todo' \in [Senders -> SUBSET (1..Size)]
    BY DEF TypeOK
  <2> QED
    BY <1>2, <1>3, <2>1 DEF TypeOK
<1>5. Printed'
  <2>1. \A r \in Receivers : pc'[r] = pc[r]
    BY <1>1 DEF TypeOK
  <2>2. ASSUME NEW r \in Receivers, pc[r] \in {"map", "print", "unmap"}
        PROVE  View' = View
    <3>1. r \in Holders
      BY <2>2 DEF Holders, Holding, Procs
    <3> QED
      BY <1>3, <3>1 DEF TypeOK, View
  <2> QED
    BY <2>1, <2>2 DEF Printed
<1> QED
  BY <1>4, <1>5

LEMMA CopyMemoryStep ==
  ASSUME IInv, NEW s \in Senders, CopyMemory(s)
  PROVE  IInv' /\ \A j \in 1..Size : disk[j] = j => disk'[j] = j
<1> USE NamesAssumption DEF IInv
<1>1. s \in Procs /\ s \notin Receivers
  BY DEF Procs
<1>2. PICK i \in todo[s] :
        /\ todo' = [todo EXCEPT ![s] = @ \ {i}]
        /\ IF name = "file"
           THEN disk' = [disk EXCEPT ![i] = i] /\ UNCHANGED page
           ELSE page' = [page EXCEPT ![i] = i] /\ UNCHANGED disk
  BY DEF CopyMemory
<1>3. i \in 1..Size /\ disk \in Pages /\ page \in Pages
  BY DEF TypeOK
<1>4. /\ disk' \in Pages /\ page' \in Pages
      /\ View = Whole => View' = Whole
      /\ \A j \in 1..Size : disk[j] = j => disk'[j] = j
  <2>0. UNCHANGED name
    BY DEF CopyMemory
  <2>1. CASE name = "file"
    <3>1. disk' = [disk EXCEPT ![i] = i] /\ page' = page
      BY <1>2, <2>1
    <3> QED
      BY <1>3, <2>0, <2>1, <3>1, WordCopied DEF View
  <2>2. CASE name # "file"
    <3>1. page' = [page EXCEPT ![i] = i] /\ disk' = disk
      BY <1>2, <2>2
    <3> QED
      BY <1>3, <2>0, <2>2, <3>1, WordCopied DEF View
  <2> QED
    BY <2>1, <2>2
<1>5. TypeOK'
  <2>1. s \in Holders /\ Holders' = Holders
    BY <1>1 DEF TypeOK, CopyMemory, Goto, Holders, Holding
  <2>2. /\ pc' \in [Procs -> Over \cup Holding \cup {"file", "create", "open"}]
        /\ todo' \in [Senders -> SUBSET (1..Size)]
    BY <1>1, <1>2 DEF TypeOK, CopyMemory, Goto, Holding
  <2>3. page' # Zeros => name = "paging"
    BY <1>2, <2>1 DEF TypeOK
  <2> QED
    BY <1>4, <2>1, <2>2, <2>3 DEF TypeOK, CopyMemory
<1>6. Printed'
  <2>1. \A r \in Receivers : pc'[r] = pc[r]
    BY <1>1 DEF TypeOK, CopyMemory, Goto
  <2> QED
    BY <1>4, <2>1 DEF Printed, CopyMemory
<1> QED
  BY <1>4, <1>5, <1>6

-----------------------------------------------------------------------------
(* The receiver *)

LEMMA ReceiverStartStep ==
  ASSUME IInv, NEW r \in Receivers, ReceiverStart(r)
  PROVE  IInv'
<1> USE NamesAssumption DEF IInv, Goto, ReceiverStart
<1>1. r \in Procs /\ <<>> \in Seq(1..Size) /\ Len(<<>>) = 0
  BY DEF Procs
<1>2. Holders' = Holders /\ pc' \in [Procs -> Over \cup Holding \cup {"file", "create", "open"}]
  BY <1>1 DEF TypeOK, Holders, Holding, Over
<1>3. TypeOK'
  BY <1>1, <1>2 DEF TypeOK
<1>4. Printed'
  <2>1. /\ out'[r] = <<>> /\ ~whole'[r] /\ pc'[r] = "open"
        /\ \A q \in Receivers : q # r =>
             out'[q] = out[q] /\ whole'[q] = whole[q] /\ pc'[q] = pc[q]
    BY <1>1 DEF TypeOK
  <2>2. View' = View
    BY DEF View
  <2> SUFFICES ASSUME NEW q \in Receivers
               PROVE  /\ out'[q] \in Seq(1..Size) /\ Len(out'[q]) <= Size
                      /\ \A i \in 1..Len(out'[q]) : out'[q][i] = i
                      /\ pc'[q] \in {"open", "map"} => out'[q] = <<>>
                      /\ pc'[q] = "open" => ~whole'[q]
                      /\ whole'[q] /\ pc'[q] \in {"map", "print", "unmap"} => View' = Whole
                      /\ whole'[q] /\ pc'[q] = "unmap" => Len(out'[q]) = Size
    BY DEF Printed, ReceiverStart
  <2> HIDE DEF ReceiverStart
  <2>3. CASE q = r
    <3>1. out'[q] = <<>> /\ ~whole'[q] /\ pc'[q] = "open"
      BY <2>1, <2>3
    <3>2. Len(out'[q]) = 0 /\ 0 <= Size /\ out'[q] \in Seq(1..Size)
      BY <1>1, <3>1
    <3>3. \A i \in 1..Len(out'[q]) : out'[q][i] = i
      BY <3>2
    <3> QED
      BY <3>1, <3>2, <3>3
  <2>4. CASE q # r
    BY <2>1, <2>2, <2>4 DEF Printed
  <2> QED
    BY <2>3, <2>4
<1> QED
  BY <1>3, <1>4

LEMMA OpenFileMappingStep ==
  ASSUME IInv, NEW r \in Receivers,
         OpenFileMapping(r) \/ OpenFileMappingFails(r)
  PROVE  IInv'
<1> USE NamesAssumption DEF IInv, Goto
<1>1. r \in Procs
  BY DEF Procs
<1>2. CASE OpenFileMapping(r)
  <2>1. /\ r \in Holders' /\ name # NoName
        /\ pc' \in [Procs -> Over \cup Holding \cup {"file", "create", "open"}]
        /\ whole' \in [Receivers -> BOOLEAN]
    BY <1>1, <1>2 DEF OpenFileMapping, TypeOK, Holders, Holding
  <2>2. TypeOK'
    BY <1>2, <2>1 DEF OpenFileMapping, TypeOK
  <2>3. Printed'
    BY <1>1, <1>2 DEF OpenFileMapping, TypeOK, Printed, View
  <2> QED
    BY <2>2, <2>3
<1>3. CASE OpenFileMappingFails(r)
  <2>1. /\ Holders' = Holders
        /\ pc' \in [Procs -> Over \cup Holding \cup {"file", "create", "open"}]
    BY <1>1, <1>3 DEF OpenFileMappingFails, TypeOK, Holders, Holding, Over
  <2>2. TypeOK'
    BY <1>3, <2>1 DEF OpenFileMappingFails, TypeOK
  <2>3. Printed'
    BY <1>1, <1>3 DEF OpenFileMappingFails, TypeOK, Printed, View
  <2> QED
    BY <2>2, <2>3
<1> QED
  BY <1>2, <1>3

(* The next word is the next of the message, or the print ends: with a      *)
(* whole view not before the last.                                          *)
LEMMA PrintWordStep ==
  ASSUME IInv, NEW r \in Receivers, PrintWord(r)
  PROVE  IInv'
<1> DEFINE next == Len(out[r]) + 1
<1>0. TypeOK /\ Printed /\ r \in Procs
  BY DEF IInv, Procs
<1>1. View \in Pages /\ Size \in Nat
  BY <1>0, NamesAssumption DEF TypeOK, View
<1>2. /\ out[r] \in Seq(1..Size) /\ Len(out[r]) \in Nat
      /\ Len(out[r]) <= Size /\ next \in 1..Size + 1
  BY <1>0, <1>1 DEF Printed
<1>3. /\ View[next] # 0 => View[next] = next /\ next \in 1..Size
      /\ View = Whole /\ View[next] = 0 => Len(out[r]) = Size
  <2>1. View[next] # 0 => View[next] = next /\ next \in 1..Size
    BY <1>1, <1>2, PageWords
  <2>2. View = Whole /\ next <= Size => View[next] # 0
    BY <1>1, <1>2 DEF Whole
  <2> QED
    BY <1>1, <1>2, <2>1, <2>2
<1>4. pc[r] = "print" /\ UNCHANGED <<valid, todo, whole, name, disk, page>> /\ View' = View
  BY DEF PrintWord, View
<1>5. CASE View[next] # 0
  <2>1. out' = [out EXCEPT ![r] = Append(@, next)] /\ UNCHANGED pc
    BY <1>3, <1>5 DEF PrintWord
  <2>2. /\ Append(out[r], next) \in Seq(1..Size)
        /\ Len(Append(out[r], next)) = next
        /\ \A i \in 1..next : i # next => Append(out[r], next)[i] = out[r][i]
        /\ Append(out[r], next)[next] = next
    BY <1>2, <1>3, <1>5
  <2>3. TypeOK'
    <3>1. Holders' = Holders
      BY <2>1 DEF Holders
    <3>2. out' \in [Receivers -> Seq(1..Size)]
      BY <1>0, <2>1, <2>2 DEF TypeOK
    <3> QED
      BY <1>0, <1>4, <2>1, <3>1, <3>2 DEF TypeOK
  <2>4. Printed'
    <3>1. /\ out'[r] = Append(out[r], next)
          /\ \A q \in Receivers : q # r => out'[q] = out[q]
      BY <1>0, <2>1 DEF TypeOK
    <3>2. \A i \in 1..next : out'[r][i] = i
      BY <1>0, <1>2, <2>2, <3>1 DEF Printed
    <3>3. /\ out'[r] \in Seq(1..Size) /\ Len(out'[r]) = next /\ next <= Size
          /\ pc'[r] = "print" /\ UNCHANGED <<pc, whole>> /\ View' = View
      <4>1. UNCHANGED <<pc, whole>> /\ pc'[r] = "print" /\ View' = View
        BY <1>4, <2>1
      <4>2. next <= Size
        BY <1>1, <1>3, <1>5
      <4> HIDE DEF next
      <4> QED
        BY <2>2, <3>1, <4>1, <4>2
    <3> HIDE DEF next
    <3> QED
      BY <1>0, <3>1, <3>2, <3>3 DEF Printed
  <2> QED
    BY <2>3, <2>4 DEF IInv
<1>6. CASE View[next] = 0
  <2>1. pc' = [pc EXCEPT ![r] = "unmap"] /\ UNCHANGED out
    BY <1>6 DEF PrintWord, Goto
  <2>2. TypeOK'
    <3>1. Holders' = Holders
      BY <1>0, <1>4, <2>1 DEF TypeOK, Holders, Holding
    <3>2. pc' \in [Procs -> Over \cup Holding \cup {"file", "create", "open"}]
      BY <1>0, <2>1 DEF TypeOK, Holding
    <3> QED
      BY <1>0, <1>4, <2>1, <3>1, <3>2 DEF TypeOK
  <2>3. Printed'
    BY <1>0, <1>3, <1>4, <1>6, <2>1 DEF TypeOK, Printed
  <2> QED
    BY <2>2, <2>3 DEF IInv
<1> QED
  BY <1>5, <1>6

-----------------------------------------------------------------------------
WordsKept == \A i \in 1..Size : disk[i] = i => disk'[i] = i

LEMMA Inductive == IInv /\ [Next]_vars => IInv' /\ WordsKept
<1> SUFFICES ASSUME IInv, [Next]_vars PROVE IInv' /\ WordsKept
  OBVIOUS
<1>0. UNCHANGED disk => WordsKept
  BY DEF WordsKept
<1>1. ASSUME NEW p \in Procs, Step(p) PROVE IInv' /\ WordsKept
  <2>1. CASE MapViewOfFile(p) \/ MapViewOfFileFails(p) \/ UnmapViewOfFile(p)
    BY <1>0, <2>1, KeepsStep DEF MapViewOfFile, MapViewOfFileFails, UnmapViewOfFile
  <2>2. CASE CloseHandle(p)
    BY <1>0, <2>2, LetGoStep DEF CloseHandle, LetGo, Over
  <2> QED
    BY <1>1, <2>1, <2>2 DEF Step
<1>2. ASSUME NEW p \in Procs, Killed(p) PROVE IInv' /\ WordsKept
  BY <1>0, <1>2, LetGoStep DEF Killed, LetGo, Over
<1>3. ASSUME NEW s \in Senders,
             \/ SenderStart(s) \/ CreateFile(s)
             \/ CreateFileMappingFails(s) \/ KeyPressed(s)
      PROVE  IInv' /\ WordsKept
  BY <1>0, <1>3, SenderQuiet
  DEF SenderStart, CreateFile, CreateFileMappingFails, KeyPressed
<1>4. ASSUME NEW s \in Senders, CreateFileMapping(s) PROVE IInv' /\ WordsKept
  BY <1>0, <1>4, CreateFileMappingStep DEF CreateFileMapping
<1>5. ASSUME NEW s \in Senders, CopyMemory(s) PROVE IInv' /\ WordsKept
  BY <1>5, CopyMemoryStep DEF WordsKept
<1>6. ASSUME NEW r \in Receivers,
             ReceiverStart(r) \/ OpenFileMapping(r) \/ OpenFileMappingFails(r)
      PROVE  IInv' /\ WordsKept
  BY <1>0, <1>6, ReceiverStartStep, OpenFileMappingStep
  DEF ReceiverStart, OpenFileMapping, OpenFileMappingFails
<1>7. ASSUME NEW r \in Receivers, PrintWord(r) PROVE IInv' /\ WordsKept
  BY <1>0, <1>7, PrintWordStep DEF PrintWord
<1>8. CASE UNCHANGED vars
  BY <1>0, <1>8 DEF vars, IInv, TypeOK, Printed, Holders, View
<1> QED
  BY <1>1, <1>2, <1>3, <1>4, <1>5, <1>6, <1>7, <1>8
  DEF Next, SenderStep, ReceiverStep, Environment, Procs

(* Every variable keeps its type: the mapping of that name exists exactly   *)
(* while somebody has a handle of it, and the file never holds anything but *)
(* words of the message.                                                    *)
THEOREM TypeCorrect == Spec => []TypeOK
<1>1. IInv => TypeOK
  BY DEF IInv
<1> QED
  BY <1>1, Initially, Inductive, PTL DEF Spec

(* A receiver that finds the message prints all of it, for a message of any *)
(* length and any number of senders that come, copy and go meanwhile.       *)
THEOREM LateReceiversPrintAll == Spec => []LateReceiverPrintsAll
<1>1. IInv => LateReceiverPrintsAll
  <2> SUFFICES ASSUME IInv, NEW r \in Receivers, pc[r] = "unmap", whole[r]
               PROVE  out[r] = Message
    BY DEF LateReceiverPrintsAll
  <2>1. /\ out[r] \in Seq(1..Size) /\ Len(out[r]) = Size
        /\ \A i \in 1..Size : out[r][i] = i
    BY DEF IInv, Printed
  <2> QED
    BY <2>1, SMTT(30) DEF Message
<1> QED
  BY <1>1, Initially, Inductive, PTL DEF Spec

(* No step of any program, and no end of one, takes a word of the message   *)
(* out of the file.                                                         *)
THEOREM FileIsKept == Spec => FileKept
<1>1. IInv /\ [Next]_vars => [WordsKept]_disk
  BY Inductive
<1> QED
  BY <1>1, Initially, Inductive, PTL DEF Spec, FileKept, WordsKept

-----------------------------------------------------------------------------
(* A receiver that comes while a sender waits finds the message.            *)

(* Who keeps its handle keeps its mapping, and no word goes from the views. *)
LEMMA ViewGrows ==
  ASSUME IInv, [Next]_vars, NEW p \in Holders, p \in Holders'
  PROVE  /\ name # NoName /\ name' = name
         /\ \A i \in 1..Size : View[i] = i => View'[i] = i
<1>0. TypeOK /\ name # NoName
  BY DEF IInv, TypeOK
<1>1. CASE UNCHANGED <<name, disk, page>>
  BY <1>0, <1>1 DEF View
<1>2. ASSUME NEW q \in Procs, NEW call \in Over, LetGo(q, call)
      PROVE  UNCHANGED <<name, disk, page>>
  <2>1. p \in Holders \ {q}
    BY <1>0, <1>2 DEF LetGo, Goto, TypeOK, Holders, Holding, Over
  <2> QED
    BY <1>2, <2>1 DEF LetGo
<1>3. ASSUME NEW s \in Senders, CreateFileMapping(s)
      PROVE  UNCHANGED <<name, disk, page>>
  BY <1>0, <1>3 DEF CreateFileMapping
<1>4. ASSUME NEW s \in Senders, CopyMemory(s)
      PROVE  /\ name' = name
             /\ \A i \in 1..Size : View[i] = i => View'[i] = i
  <2>1. PICK i \in todo[s] :
          IF name = "file"
          THEN disk' = [disk EXCEPT ![i] = i] /\ UNCHANGED page
          ELSE page' = [page EXCEPT ![i] = i] /\ UNCHANGED disk
    BY <1>4 DEF CopyMemory
  <2>2. name' = name /\ i \in 1..Size /\ disk \in Pages /\ page \in Pages
    BY <1>0, <1>4 DEF CopyMemory, TypeOK
  <2>3. CASE name = "file"
    BY <2>1, <2>2, <2>3, WordCopied DEF View
  <2>4. CASE name # "file"
    BY <2>1, <2>2, <2>4, WordCopied DEF View
  <2> QED
    BY <2>2, <2>3, <2>4
<1>5. ASSUME NEW q \in Procs, CloseHandle(q) \/ Killed(q)
      PROVE  UNCHANGED <<name, disk, page>>
  BY <1>2, <1>5 DEF CloseHandle, Killed, Over
<1>6. ASSUME NEW q \in Procs,
             MapViewOfFile(q) \/ MapViewOfFileFails(q) \/ UnmapViewOfFile(q)
      PROVE  UNCHANGED <<name, disk, page>>
  BY <1>6 DEF MapViewOfFile, MapViewOfFileFails, UnmapViewOfFile
<1>7. ASSUME NEW s \in Senders,
             \/ SenderStart(s) \/ CreateFile(s)
             \/ CreateFileMappingFails(s) \/ KeyPressed(s)
      PROVE  UNCHANGED <<name, disk, page>>
  BY <1>7 DEF SenderStart, CreateFile, CreateFileMappingFails, KeyPressed
<1>8. ASSUME NEW r \in Receivers,
             \/ ReceiverStart(r) \/ OpenFileMapping(r)
             \/ OpenFileMappingFails(r) \/ PrintWord(r)
      PROVE  UNCHANGED <<name, disk, page>>
  BY <1>8 DEF ReceiverStart, OpenFileMapping, OpenFileMappingFails, PrintWord
<1> QED
  BY <1>0, <1>1, <1>3, <1>4, <1>5, <1>6, <1>7, <1>8
  DEF Next, SenderStep, ReceiverStep, Step, Environment, Procs, vars

(* The calls of a sender between CreateFileMapping and CloseHandle.         *)
Mapped == {"map", "copy", "getch", "unmap", "close"}
Waited == {"getch", "unmap", "close"}

(* The words a sender has copied are in the mapping as long as it has it,   *)
(* and all of them are when it waits.                                       *)
Copied ==
  \A s \in Senders :
    /\ pc[s] \in Mapped => \A i \in 1..Size : i \notin todo[s] => View[i] = i
    /\ pc[s] \in Waited => todo[s] = {}

(* A sender comes to have a mapping with nothing copied, copies a word, or  *)
(* goes on with what it has.                                                *)
LEMMA SenderMoves ==
  ASSUME TypeOK, [Next]_vars, NEW s \in Senders, pc'[s] \in Mapped
  PROVE  \/ CopyMemory(s)
         \/ todo'[s] = 1..Size /\ pc'[s] = "map"
         \/ /\ todo'[s] = todo[s] /\ pc[s] \in Mapped
            /\ pc'[s] \in Waited => pc[s] \in Waited
<1> USE NamesAssumption DEF TypeOK, Mapped, Waited, Goto
<1>0. s \in Procs /\ s \notin Receivers
  BY DEF Procs
<1>1. ASSUME NEW t \in Senders, CopyMemory(t)
      PROVE  CopyMemory(s) \/ (todo'[s] = todo[s] /\ pc'[s] = pc[s])
  <2>1. CASE t = s
    BY <1>1, <2>1
  <2>2. CASE t # s
    <3>1. /\ \E call : pc' = [pc EXCEPT ![t] = call]
          /\ \E set : todo' = [todo EXCEPT ![t] = set]
      BY <1>1 DEF CopyMemory
    <3> QED
      BY <1>0, <2>2, <3>1
  <2> QED
    BY <2>1, <2>2
<1>2. ASSUME NEW t \in Senders, CreateFileMapping(t)
      PROVE  \/ todo'[s] = 1..Size /\ pc'[s] = "map"
             \/ todo'[s] = todo[s] /\ pc'[s] = pc[s]
  BY <1>0, <1>2 DEF CreateFileMapping
<1>3. ASSUME NEW t \in Senders,
             \/ SenderStart(t) \/ CreateFile(t)
             \/ CreateFileMappingFails(t) \/ KeyPressed(t)
      PROVE  /\ todo' = todo
             /\ pc'[s] = pc[s] \/ (pc[s] = "getch" /\ pc'[s] = "unmap")
  BY <1>0, <1>3 DEF SenderStart, CreateFile, CreateFileMappingFails, KeyPressed
<1>4. ASSUME NEW r \in Receivers,
             \/ ReceiverStart(r) \/ OpenFileMapping(r)
             \/ OpenFileMappingFails(r) \/ PrintWord(r)
      PROVE  todo' = todo /\ pc'[s] = pc[s]
  BY <1>0, <1>4 DEF ReceiverStart, OpenFileMapping, OpenFileMappingFails, PrintWord
<1>5. ASSUME NEW p \in Procs, Step(p) \/ Killed(p)
      PROVE  /\ todo' = todo
             /\ \/ pc'[s] = pc[s]
                \/ pc[s] = "map" /\ pc'[s] = "copy"
                \/ pc[s] = "unmap" /\ pc'[s] = "close"
  BY <1>0, <1>5 DEF Step, Killed, MapViewOfFile, MapViewOfFileFails, UnmapViewOfFile,
                    CloseHandle, LetGo
<1>6. CASE UNCHANGED vars
  BY <1>6 DEF vars
<1> QED
  BY <1>1, <1>2, <1>3, <1>4, <1>5, <1>6
  DEF Next, SenderStep, ReceiverStep, Environment, Procs

LEMMA CopiedStep == IInv /\ Copied /\ [Next]_vars => Copied'
<1> SUFFICES ASSUME IInv, Copied, [Next]_vars, NEW s \in Senders, pc'[s] \in Mapped
             PROVE  /\ \A i \in 1..Size : i \notin todo'[s] => View'[i] = i
                    /\ pc'[s] \in Waited => todo'[s] = {}
  BY DEF Copied, Mapped, Waited
<1>0. TypeOK /\ s \in Procs /\ s \in Holders'
  BY DEF IInv, Holders, Holding, Mapped, Procs
<1>1. CASE CopyMemory(s)
  <2>1. PICK i \in todo[s] :
          /\ todo' = [todo EXCEPT ![s] = @ \ {i}]
          /\ IF name = "file"
             THEN disk' = [disk EXCEPT ![i] = i] /\ UNCHANGED page
             ELSE page' = [page EXCEPT ![i] = i] /\ UNCHANGED disk
    BY <1>1 DEF CopyMemory
  <2>2. /\ pc[s] = "copy" /\ name' = name /\ i \in 1..Size
        /\ disk \in Pages /\ page \in Pages
        /\ todo'[s] = todo[s] \ {i}
    BY <1>0, <1>1, <2>1 DEF CopyMemory, TypeOK
  <2>3. View'[i] = i
    <3>1. disk \in [1..Size + 1 -> 0..Size] /\ page \in [1..Size + 1 -> 0..Size]
      BY <2>2, PageWords
    <3>2. i \in 1..Size + 1
      BY <2>2, NamesAssumption
    <3> QED
      BY <2>1, <2>2, <3>1, <3>2 DEF View
  <2>4. s \in Holders
    BY <1>0, <2>2 DEF Holders, Holding
  <2>5. \A j \in 1..Size : View[j] = j => View'[j] = j
    BY <1>0, <2>4, ViewGrows
  <2>6. \A j \in 1..Size : j \notin todo'[s] => View'[j] = j
    BY <2>2, <2>3, <2>5 DEF Copied, Mapped
  <2>7. pc'[s] \in Waited => todo'[s] = {}
    BY <1>0, <1>1 DEF CopyMemory, Goto, TypeOK, Waited
  <2> QED
    BY <2>6, <2>7
<1>2. CASE todo'[s] = 1..Size /\ pc'[s] = "map"
  BY <1>2 DEF Waited
<1>3. CASE /\ todo'[s] = todo[s] /\ pc[s] \in Mapped
           /\ pc'[s] \in Waited => pc[s] \in Waited
  <2>1. s \in Holders
    BY <1>0, <1>3 DEF Holders, Holding, Mapped
  <2>2. \A j \in 1..Size : View[j] = j => View'[j] = j
    BY <1>0, <2>1, ViewGrows
  <2> QED
    BY <1>3, <2>2 DEF Copied
<1> QED
  BY <1>0, <1>1, <1>2, <1>3, SenderMoves

(* A sender that waits for its key: the mapping is there, with the message. *)
MessageThere == \A s \in Senders : pc[s] = "getch" => name # NoName /\ View = Whole

LEMMA PagesEqual ==
  ASSUME NEW g \in [1..Size + 1 -> 0..Size], NEW h \in [1..Size + 1 -> 0..Size],
         \A i \in 1..Size + 1 : g[i] = h[i]
  PROVE  g = h
<1>1. /\ g = [i \in 1..Size + 1 |-> g[i]]
      /\ h = [i \in 1..Size + 1 |-> h[i]]
  OBVIOUS
<1>2. [i \in 1..Size + 1 |-> g[i]] = [i \in 1..Size + 1 |-> h[i]]
  OBVIOUS
<1> QED
  BY <1>1, <1>2, Zenon

LEMMA AllCopied == IInv /\ Copied => MessageThere
<1> SUFFICES ASSUME IInv, Copied, NEW s \in Senders, pc[s] = "getch"
             PROVE  name # NoName /\ View = Whole
  BY DEF MessageThere
<1>1. TypeOK /\ s \in Holders
  BY DEF IInv, Holders, Holding, Procs
<1>2. name # NoName /\ View \in Pages
  BY <1>1 DEF TypeOK, View
<1>3. \A i \in 1..Size : View[i] = i
  BY DEF Copied, Mapped, Waited
<1>4. /\ View \in [1..Size + 1 -> 0..Size] /\ View[Size + 1] = 0
      /\ \A i \in 1..Size + 1 : i \in 1..Size \/ i = Size + 1
  BY <1>2, PageWords, NamesAssumption
<1>5. \A i \in 1..Size + 1 : View[i] = Whole[i]
  BY <1>3, <1>4, NamesAssumption DEF Whole
<1>6. Whole \in [1..Size + 1 -> 0..Size]
  BY NamesAssumption DEF Whole
<1>7. View = Whole
  BY <1>4, <1>5, <1>6, PagesEqual
<1> QED
  BY <1>2, <1>7

(* While a sender waits for its key all of the message is in the mapping,   *)
(* whoever else copies, ends or is killed, for a message of any length.     *)
THEOREM MessageWaits == Spec => []MessageThere
<1>1. Init => Copied
  BY DEF Init, Copied, Mapped, Waited, Procs
<1> QED
  BY <1>1, Initially, Inductive, CopiedStep, AllCopied, PTL DEF Spec

(* Who opens the mapping while a sender waits finds all of the message.     *)
OpensFindAll ==
  [][\A r \in Receivers, s \in Senders :
       pc[s] = "getch" /\ pc[r] = "open" /\ pc'[r] = "map" =>
         whole'[r] /\ View' = Whole]_vars

LEMMA OpensStep ==
  ASSUME TypeOK, MessageThere, [Next]_vars, NEW r \in Receivers, NEW s \in Senders,
         pc[s] = "getch", pc[r] = "open", pc'[r] = "map"
  PROVE  whole'[r] /\ View' = Whole
<1> USE NamesAssumption DEF TypeOK, MessageThere, Goto
<1>0. r \in Procs /\ r \notin Senders
  BY DEF Procs
<1>1. ASSUME NEW q \in Receivers, OpenFileMapping(q)
      PROVE  pc'[r] = "open" \/ (whole'[r] /\ View' = Whole)
  BY <1>0, <1>1 DEF OpenFileMapping, View
<1>2. ASSUME NEW q \in Receivers, ReceiverStart(q) \/ OpenFileMappingFails(q) \/ PrintWord(q)
      PROVE  pc'[r] \in {"open", "failed"}
  BY <1>0, <1>2 DEF ReceiverStart, OpenFileMappingFails, PrintWord
<1>3. ASSUME NEW p \in Procs, Step(p) \/ Killed(p)
      PROVE  pc'[r] \in {"open", "killed"}
  BY <1>0, <1>3 DEF Step, Killed, MapViewOfFile, MapViewOfFileFails, UnmapViewOfFile,
                    CloseHandle, LetGo
<1>4. ASSUME NEW t \in Senders,
             \/ SenderStart(t) \/ CreateFile(t) \/ CreateFileMapping(t)
             \/ CreateFileMappingFails(t) \/ CopyMemory(t) \/ KeyPressed(t)
      PROVE  pc'[r] = "open"
  BY <1>0, <1>4 DEF SenderStart, CreateFile, CreateFileMapping, CreateFileMappingFails,
                    CopyMemory, KeyPressed
<1>5. CASE UNCHANGED vars
  BY <1>5 DEF vars
<1> QED
  BY <1>1, <1>2, <1>3, <1>4, <1>5
  DEF Next, SenderStep, ReceiverStep, Environment, Procs

(* The safety half of Delivered: a receiver that comes while a sender waits *)
(* may be refused the mapping, but never opens it too early, whoever else   *)
(* copies, ends or is killed; and by LateReceiversPrintAll it then prints   *)
(* all of the message, if it may view it.                                   *)
THEOREM ReceiversFindMessage == Spec => OpensFindAll
<1>1. TypeOK /\ MessageThere /\ [Next]_vars =>
        [\A r \in Receivers, s \in Senders :
           pc[s] = "getch" /\ pc[r] = "open" /\ pc'[r] = "map" =>
             whole'[r] /\ View' = Whole]_vars
  BY OpensStep
<1> QED
  BY <1>1, TypeCorrect, MessageWaits, PTL DEF Spec, OpensFindAll
=============================================================================
