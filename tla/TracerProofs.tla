---------------------------- MODULE TracerProofs ----------------------------
(***************************************************************************)
(* Proofs about Tracer for any number of processes, threads and any room   *)
(* on the disk: one process writes at a time, at the end of the file, and  *)
(* one thread of it, even while the critical section is deleted.           *)
(***************************************************************************)
EXTENDS Tracer, TLAPS

Inside == {"format", "stamp", "write", "leave"}

(* A thread that is past EnterCriticalSection has the section, or had it    *)
(* when it was deleted; so there is one of them in a process at most, and   *)
(* the two buffers are what it has made of them.                            *)
OneInside ==
  /\ \A t \in Threads : pc[t] \in Inside => cs[t[1]] \in {t, Deleted}
  /\ \A t, u \in Threads :
       t[1] = u[1] /\ pc[t] \in Inside /\ pc[u] \in Inside => t = u
  /\ \A t \in Threads :
       /\ pc[t] \in {"stamp", "write"} => text[t[1]] = t
       /\ pc[t] = "write" => stamp[t[1]] = t

(* The share mode: one process has the file open, and once it is past the   *)
(* mark its file pointer is at the end.                                     *)
OneWriter ==
  /\ \A p, q \in Procs : valid[p] /\ valid[q] => p = q
  /\ \A p \in Procs :
       /\ valid[p] => run[p] \in {"bom", "up", "exit"}
       /\ run[p] = "bom" => valid[p] /\ pos[p] = 0
       /\ valid[p] /\ run[p] # "bom" => pos[p] = Len(log)

(* Nobody traces before the construction is over. *)
QuietBeforeUp ==
  \A t \in Threads : run[t[1]] \in {"off", "open", "bom"} => pc[t] = "idle"

(* There is always room for the mark.                                       *)
RoomForMark == Marked \/ Len(log) <= Room

IInv ==
  TypeOK /\ LogWellFormed /\ RoomForMark /\ OneInside /\ OneWriter /\ QuietBeforeUp

(* The log is kept and grows at its end, or gets its mark.                  *)
Kept == IsPrefix(log, log') \/ log' = <<Bom>> \o log

LEMMA ThreadParts ==
  ASSUME NEW t \in Threads
  PROVE  t[1] \in Procs /\ t \notin {Nobody, Deleted, Nothing}
BY NamesAssumption DEF Threads

LEMMA Initially == Init => IInv
<1> SUFFICES ASSUME Init PROVE IInv
  OBVIOUS
<1> USE NamesAssumption DEF Init
<1>1. TypeOK
  BY DEF TypeOK
<1>2. LogWellFormed /\ RoomForMark /\ OneInside /\ OneWriter /\ QuietBeforeUp
  BY DEF LogWellFormed, RoomForMark, OneInside, OneWriter, QuietBeforeUp, Inside
<1> QED
  BY <1>1, <1>2 DEF IInv

(* WriteFile of a line at the end of the file appends it or, with the disk  *)
(* full, does nothing.                                                      *)
LEMMA WrittenAtEnd ==
  ASSUME TypeOK, NEW e \in Lines
  PROVE  \/ Written(Len(log), e) = log
         \/ /\ Written(Len(log), e) \in Seq(Lines \cup {Bom})
            /\ Len(Written(Len(log), e)) = Len(log) + 1
            /\ Len(log) < Room \/ (Marked /\ Len(log) <= Room)
            /\ Written(Len(log), e)[Len(log) + 1] = e
            /\ \A k \in DOMAIN log : Written(Len(log), e)[k] = log[k]
<1>1. log \in Seq(Lines \cup {Bom}) /\ Len(log) \in Nat /\ Room \in Nat
  BY NamesAssumption DEF TypeOK
<1>2. CASE Full
  BY <1>1, <1>2 DEF Written
<1>3. CASE ~Full
  <2>1. Written(Len(log), e) = Append(log, e)
    BY <1>1, <1>3 DEF Written
  <2>2. Len(log) < Room \/ (Marked /\ Len(log) <= Room)
    BY <1>1, <1>3 DEF Full
  <2> QED
    BY <1>1, <2>1, <2>2
<1> QED
  BY <1>2, <1>3

LEMMA MarkFirst ==
  ASSUME NEW S, NEW b \in S, NEW l \in Seq(S), NEW new, new = <<b>> \o l
  PROVE  /\ new \in Seq(S) /\ Len(new) = Len(l) + 1 /\ new[1] = b
         /\ \A k \in DOMAIN new : k # 1 => k - 1 \in DOMAIN l /\ new[k] = l[k - 1]
<1>1. <<b>> \in Seq(S) /\ Len(<<b>>) = 1 /\ <<b>>[1] = b
  OBVIOUS
<1>2. new \in Seq(S) /\ Len(new) = Len(l) + 1
  BY <1>1
<1>3. new[1] = b
  BY <1>1
<1>4. ASSUME NEW k \in DOMAIN new, k # 1
      PROVE  k - 1 \in DOMAIN l /\ new[k] = l[k - 1]
  BY <1>1, <1>2, <1>4
<1> QED
  BY <1>2, <1>3, <1>4

(* What the log is once a mark has been written at the start.               *)
LEMMA WrittenAtStart ==
  ASSUME TypeOK, RoomForMark, NEW new,
         new = IF log = <<>> \/ Marked THEN Written(0, Bom) ELSE <<Bom>> \o log
  PROVE  \/ new = log /\ Marked
         \/ /\ new = <<Bom>> \o log /\ ~Marked
            /\ new \in Seq(Lines \cup {Bom}) /\ new # <<>> /\ Head(new) = Bom
            /\ Len(new) = Len(log) + 1 /\ Len(new) <= Room + 1 /\ new[1] = Bom
            /\ \A k \in DOMAIN new : k # 1 => k - 1 \in DOMAIN log /\ new[k] = log[k - 1]
<1>0. /\ log \in Seq(Lines \cup {Bom}) /\ <<Bom>> \in Seq(Lines \cup {Bom})
      /\ Room \in Nat \ {0}
  BY NamesAssumption DEF TypeOK
<1>1. CASE Marked
  <2>1. 0 < Len(log) /\ 1 \in DOMAIN log /\ log[1] = Bom
    BY <1>0, <1>1 DEF Marked
  <2>2. [log EXCEPT ![0 + 1] = Bom] = log
    BY <1>0, <2>1
  <2> QED
    BY <1>1, <2>1, <2>2 DEF Written
<1>2. CASE ~Marked
  <2>1. new = <<Bom>> \o log
    <3>1. CASE log = <<>>
      <4>1. Len(log) = 0 /\ ~Full
        BY <1>0, <1>2, <3>1 DEF Full
      <4>2. new = <<Bom>>
        BY <3>1, <4>1 DEF Written
      <4> QED
        BY <3>1, <4>2
    <3>2. CASE log # <<>>
      BY <1>2, <3>2
    <3> QED
      BY <3>1, <3>2
  <2>2. /\ new \in Seq(Lines \cup {Bom}) /\ Len(new) = Len(log) + 1 /\ new[1] = Bom
        /\ \A k \in DOMAIN new : k # 1 => k - 1 \in DOMAIN log /\ new[k] = log[k - 1]
    <3> DEFINE S == Lines \cup {Bom}
    <3>1. Bom \in S /\ log \in Seq(S)
      BY <1>0
    <3> HIDE DEF S
    <3>2. /\ new \in Seq(S) /\ Len(new) = Len(log) + 1 /\ new[1] = Bom
          /\ \A k \in DOMAIN new : k # 1 => k - 1 \in DOMAIN log /\ new[k] = log[k - 1]
      BY <2>1, <3>1, MarkFirst
    <3> QED
      BY <3>2 DEF S
  <2>3. new # <<>> /\ Head(new) = Bom
    BY <1>0, <2>2
  <2>4. Len(log) <= Room
    BY <1>2 DEF RoomForMark
  <2> QED
    BY <1>0, <1>2, <2>1, <2>2, <2>3, <2>4
<1> QED
  BY <1>1, <1>2

(* The end of a process frees its section, its buffers and its handle.      *)
LEMMA EndsStep ==
  ASSUME IInv, NEW p \in Procs, Ends(p)
  PROVE  IInv'
<1> USE ThreadParts DEF IInv, Ends, RunGoto
<1>1. TypeOK'
  BY DEF TypeOK
<1>2. LogWellFormed' /\ RoomForMark' /\ OneWriter'
  BY DEF TypeOK, LogWellFormed, RoomForMark, Marked, OneWriter
<1>3. OneInside' /\ QuietBeforeUp'
  BY DEF TypeOK, OneInside, QuietBeforeUp, Inside
<1> QED
  BY <1>1, <1>2, <1>3

(* A step of a process that is not one of its threads' in Trace and leaves  *)
(* the log alone.                                                           *)
LEMMA ProcStepQuiet ==
  ASSUME IInv, NEW p \in Procs,
         \/ Start(p) \/ CreateLogFile(p) \/ CreateLogFileFails(p) \/ WriteBomFails(p)
         \/ MainReturns(p) \/ CloseLog(p)
  PROVE  IInv'
<1> USE ThreadParts DEF IInv, RunGoto, threadVars
<1>1. CASE Start(p)
  <2>1. TypeOK' /\ LogWellFormed' /\ RoomForMark' /\ OneInside'
    BY <1>1 DEF Start, TypeOK, LogWellFormed, RoomForMark, Marked, OneInside
  <2>2. OneWriter' /\ QuietBeforeUp'
    BY <1>1 DEF Start, TypeOK, OneWriter, QuietBeforeUp
  <2> QED
    BY <2>1, <2>2
<1>2. CASE CreateLogFile(p)
  <2>1. TypeOK' /\ LogWellFormed' /\ RoomForMark' /\ OneInside'
    BY <1>2 DEF CreateLogFile, TypeOK, LogWellFormed, RoomForMark, Marked, OneInside
  <2>2. OneWriter' /\ QuietBeforeUp'
    BY <1>2 DEF CreateLogFile, TypeOK, OneWriter, QuietBeforeUp
  <2> QED
    BY <2>1, <2>2
<1>3. CASE CreateLogFileFails(p)
  <2>1. TypeOK' /\ LogWellFormed' /\ RoomForMark' /\ OneInside'
    BY <1>3 DEF CreateLogFileFails, TypeOK, LogWellFormed, RoomForMark, Marked, OneInside
  <2>2. OneWriter' /\ QuietBeforeUp'
    BY <1>3 DEF CreateLogFileFails, TypeOK, OneWriter, QuietBeforeUp
  <2> QED
    BY <2>1, <2>2
<1>4. CASE MainReturns(p)
  <2>1. TypeOK' /\ LogWellFormed' /\ RoomForMark' /\ OneInside'
    BY <1>4 DEF MainReturns, TypeOK, LogWellFormed, RoomForMark, Marked, OneInside
  <2>2. OneWriter' /\ QuietBeforeUp'
    BY <1>4 DEF MainReturns, TypeOK, OneWriter, QuietBeforeUp
  <2> QED
    BY <2>1, <2>2
<1>5. CASE CloseLog(p)
  <2>1. TypeOK' /\ LogWellFormed' /\ RoomForMark' /\ OneInside'
    BY <1>5 DEF CloseLog, TypeOK, LogWellFormed, RoomForMark, Marked, OneInside
  <2>2. OneWriter' /\ QuietBeforeUp'
    BY <1>5 DEF CloseLog, TypeOK, OneWriter, QuietBeforeUp
  <2> QED
    BY <2>1, <2>2
<1>6. CASE WriteBomFails(p)
  <2>1. TypeOK' /\ LogWellFormed' /\ RoomForMark' /\ OneInside'
    BY <1>6 DEF WriteBomFails, TypeOK, LogWellFormed, RoomForMark, Marked, OneInside
  <2>2. OneWriter' /\ QuietBeforeUp'
    BY <1>6 DEF WriteBomFails, TypeOK, OneWriter, QuietBeforeUp
  <2> QED
    BY <2>1, <2>2
<1> QED
  BY <1>1, <1>2, <1>3, <1>4, <1>5, <1>6

LEMMA DeleteSectionStep ==
  ASSUME IInv, NEW p \in Procs, DeleteSection(p)
  PROVE  IInv'
<1> USE ThreadParts DEF IInv, RunGoto, DeleteSection
<1>1. TypeOK'
  BY DEF TypeOK
<1>2. LogWellFormed' /\ RoomForMark' /\ OneWriter' /\ QuietBeforeUp'
  BY DEF TypeOK, LogWellFormed, RoomForMark, Marked, OneWriter, QuietBeforeUp
<1>3. OneInside'
  BY DEF TypeOK, OneInside
<1> QED
  BY <1>1, <1>2, <1>3

(* The mark stays where it is, or goes before all that the file has.        *)
LEMMA WriteBomStep ==
  ASSUME IInv, NEW p \in Procs, WriteBom(p)
  PROVE  IInv' /\ Kept
<1>0. /\ TypeOK /\ LogWellFormed /\ RoomForMark /\ OneInside /\ OneWriter
      /\ QuietBeforeUp /\ log \in Seq(Lines \cup {Bom})
  BY DEF IInv, TypeOK
<1>1. valid[p] /\ pos[p] = 0
  BY <1>0 DEF OneWriter, WriteBom
<1>2. \/ log' = log /\ Marked
      \/ /\ log' = <<Bom>> \o log /\ ~Marked
         /\ log' \in Seq(Lines \cup {Bom}) /\ log' # <<>> /\ Head(log') = Bom
         /\ Len(log') = Len(log) + 1 /\ Len(log') <= Room + 1 /\ log'[1] = Bom
         /\ \A k \in DOMAIN log' :
              k # 1 => k - 1 \in DOMAIN log /\ log'[k] = log[k - 1]
  <2>1. log' = IF log = <<>> \/ Marked THEN Written(0, Bom) ELSE <<Bom>> \o log
    BY <1>1 DEF WriteBom
  <2> QED
    BY <1>0, <2>1, WrittenAtStart
<1>3. log' \in Seq(Lines \cup {Bom}) /\ Len(log') <= Room + 1 /\ Marked'
  BY <1>0, <1>2 DEF TypeOK, Marked
<1>4. TypeOK'
  <2>1. Len(log') \in Nat
    BY <1>3
  <2>2. pos' \in [Procs -> Nat]
    BY <1>0, <2>1 DEF TypeOK, WriteBom
  <2>3. run' \in [Procs -> {"off", "open", "bom", "up", "exit", "delete", "end"}]
    BY <1>0 DEF TypeOK, WriteBom, RunGoto
  <2> QED
    BY <1>0, <1>3, <2>2, <2>3 DEF TypeOK, WriteBom, threadVars
<1>5. LogWellFormed'
  <2>1. CASE log' = log
    BY <1>0, <2>1 DEF LogWellFormed
  <2>2. CASE log' # log
    <3>1. \A k \in DOMAIN log : log[k] # Bom
      <4>1. log # <<>> => Head(log) = log[1]
        BY <1>0
      <4> QED
        BY <1>0, <1>2, <2>2, <4>1 DEF LogWellFormed, Marked
    <3>2. \A k \in DOMAIN log : log[k].stamp = log[k].text
      BY <1>0, <3>1 DEF LogWellFormed
    <3> QED
      BY <1>2, <2>2, <3>1, <3>2 DEF LogWellFormed
  <2> QED
    BY <2>1, <2>2
<1>6. RoomForMark'
  BY <1>3 DEF RoomForMark
<1>7. OneInside' /\ QuietBeforeUp'
  BY <1>0, ThreadParts DEF TypeOK, OneInside, QuietBeforeUp, WriteBom, RunGoto, threadVars
<1>8. OneWriter'
  BY <1>0, <1>1 DEF TypeOK, OneWriter, WriteBom, RunGoto
<1>9. Kept
  BY <1>0, <1>2 DEF IsPrefix, Kept
<1> QED
  BY <1>4, <1>5, <1>6, <1>7, <1>8, <1>9 DEF IInv

(* A step of a thread in Trace that does not write.                         *)
LEMMA ThreadStepQuiet ==
  ASSUME IInv, NEW t \in Threads,
         Trace(t) \/ Enter(t) \/ Format(t) \/ Stamp(t) \/ Throws(t) \/ Leave(t)
  PROVE  IInv'
<1> USE ThreadParts DEF IInv, Goto
<1>1. CASE Trace(t)
  <2>1. TypeOK'
    BY <1>1 DEF Trace, TypeOK, Calls
  <2>2. LogWellFormed' /\ RoomForMark' /\ OneWriter' /\ QuietBeforeUp'
    BY <1>1 DEF Trace, TypeOK, LogWellFormed, RoomForMark, Marked, OneWriter,
              QuietBeforeUp
  <2>3. OneInside'
    BY <1>1 DEF Trace, TypeOK, OneInside, Inside
  <2> QED
    BY <2>1, <2>2, <2>3
<1>2. CASE Enter(t)
  <2>1. TypeOK'
    BY <1>2 DEF Enter, TypeOK, Calls
  <2>2. LogWellFormed' /\ RoomForMark' /\ OneWriter' /\ QuietBeforeUp'
    BY <1>2 DEF Enter, TypeOK, LogWellFormed, RoomForMark, Marked, OneWriter,
              QuietBeforeUp
  <2>3. OneInside'
    BY <1>2, NamesAssumption DEF Enter, TypeOK, OneInside, Inside
  <2> QED
    BY <2>1, <2>2, <2>3
<1>3. CASE Format(t)
  <2>1. TypeOK'
    BY <1>3 DEF Format, TypeOK, Calls
  <2>2. LogWellFormed' /\ RoomForMark' /\ OneWriter' /\ QuietBeforeUp'
    BY <1>3 DEF Format, TypeOK, LogWellFormed, RoomForMark, Marked, OneWriter,
              QuietBeforeUp
  <2>3. OneInside'
    BY <1>3 DEF Format, TypeOK, OneInside, Inside
  <2> QED
    BY <2>1, <2>2, <2>3
<1>4. CASE Stamp(t)
  <2>1. TypeOK'
    BY <1>4 DEF Stamp, TypeOK, Calls
  <2>2. LogWellFormed' /\ RoomForMark' /\ OneWriter' /\ QuietBeforeUp'
    BY <1>4 DEF Stamp, TypeOK, LogWellFormed, RoomForMark, Marked, OneWriter,
              QuietBeforeUp
  <2>3. OneInside'
    BY <1>4 DEF Stamp, TypeOK, OneInside, Inside
  <2> QED
    BY <2>1, <2>2, <2>3
<1>5. CASE Throws(t)
  <2>1. TypeOK'
    BY <1>5 DEF Throws, TypeOK, Calls
  <2>2. LogWellFormed' /\ RoomForMark' /\ OneWriter' /\ QuietBeforeUp'
    BY <1>5 DEF Throws, TypeOK, LogWellFormed, RoomForMark, Marked, OneWriter,
              QuietBeforeUp
  <2>3. OneInside'
    BY <1>5 DEF Throws, TypeOK, OneInside, Inside
  <2> QED
    BY <2>1, <2>2, <2>3
<1>6. CASE Leave(t)
  <2>1. TypeOK'
    BY <1>6 DEF Leave, TypeOK, Calls
  <2>2. LogWellFormed' /\ RoomForMark' /\ OneWriter' /\ QuietBeforeUp'
    BY <1>6 DEF Leave, TypeOK, LogWellFormed, RoomForMark, Marked, OneWriter,
              QuietBeforeUp
  <2>3. OneInside'
    BY <1>6 DEF Leave, TypeOK, OneInside, Inside
  <2> QED
    BY <2>1, <2>2, <2>3
<1> QED
  BY <1>1, <1>2, <1>3, <1>4, <1>5, <1>6

(* The one thread that is inside the section of the one process that has    *)
(* the file open puts its own line at the end, or nothing is written.       *)
LEMMA WriteLineStep ==
  ASSUME IInv, NEW t \in Threads, WriteLine(t)
  PROVE  IInv' /\ Kept
<1> DEFINE p == t[1]
           e == [stamp |-> t, text |-> t]
<1> USE ThreadParts DEF WriteLine, Goto
<1>0. /\ TypeOK /\ LogWellFormed /\ RoomForMark /\ OneInside /\ OneWriter
      /\ QuietBeforeUp /\ log \in Seq(Lines \cup {Bom}) /\ p \in Procs
  BY DEF IInv, TypeOK
<1>1. /\ stamp[p] = t /\ text[p] = t
      /\ e \in Lines /\ e.stamp = e.text /\ e # Bom
  BY <1>0, NamesAssumption DEF OneInside, Lines
<1>2. \/ log' = log
      \/ /\ valid[p] /\ pos[p] = Len(log)
         /\ log' \in Seq(Lines \cup {Bom}) /\ Len(log') = Len(log) + 1
         /\ Len(log) < Room \/ (Marked /\ Len(log) <= Room)
         /\ log'[Len(log) + 1] = e
         /\ \A k \in DOMAIN log : log'[k] = log[k]
  <2>1. CASE valid[p]
    <3>1. pos[p] = Len(log)
      <4>1. run[p] # "bom"
        BY <1>0 DEF QuietBeforeUp
      <4> QED
        BY <1>0, <2>1, <4>1 DEF OneWriter
    <3>2. log' = Written(Len(log), e)
      BY <1>1, <2>1, <3>1
    <3>3. e \in Lines
      BY <1>1
    <3> HIDE DEF e, WriteLine
    <3>4. \/ log' = log
          \/ /\ log' \in Seq(Lines \cup {Bom})
             /\ Len(log') = Len(log) + 1
             /\ Len(log) < Room \/ (Marked /\ Len(log) <= Room)
             /\ log'[Len(log) + 1] = e
             /\ \A k \in DOMAIN log : log'[k] = log[k]
      BY <1>0, <3>2, <3>3, WrittenAtEnd
    <3> QED
      BY <2>1, <3>1, <3>4
  <2>2. CASE ~valid[p]
    BY <2>2
  <2> QED
    BY <2>1, <2>2
<1> HIDE DEF e
<1>3. TypeOK'
  <2>1. log' \in Seq(Lines \cup {Bom}) /\ Len(log') <= Room + 1
    BY <1>0, <1>2, NamesAssumption DEF TypeOK
  <2> QED
    BY <1>0, <2>1 DEF TypeOK, Calls
<1>4. LogWellFormed' /\ RoomForMark'
  <2>1. CASE log' = log
    BY <1>0, <2>1 DEF LogWellFormed, RoomForMark, Marked
  <2>2. CASE log' # log
    <3>1. \A k \in DOMAIN log' : k = Len(log) + 1 \/ k \in DOMAIN log
      BY <1>0, <1>2, <2>2
    <3>2. LogWellFormed'
      BY <1>0, <1>1, <1>2, <2>2, <3>1 DEF LogWellFormed
    <3>3. CASE Marked
      <4>1. log' # <<>> /\ Head(log') = log'[1] /\ Head(log) = log[1] /\ 1 \in DOMAIN log
        BY <1>0, <1>2, <2>2, <3>3 DEF Marked
      <4>2. Marked'
        BY <1>2, <2>2, <3>3, <4>1 DEF Marked
      <4> QED
        BY <3>2, <4>2 DEF RoomForMark
    <3>4. CASE ~Marked
      BY <1>0, <1>2, <2>2, <3>2, <3>4, NamesAssumption DEF RoomForMark
    <3> QED
      BY <3>3, <3>4
  <2> QED
    BY <2>1, <2>2
<1>5. OneInside' /\ QuietBeforeUp'
  BY <1>0 DEF TypeOK, OneInside, QuietBeforeUp, Inside
<1>6. OneWriter'
  <2>1. CASE log' = log
    BY <1>0, <2>1 DEF TypeOK, OneWriter
  <2>2. CASE log' # log
    <3>1. valid[p] /\ pos[p] = Len(log) /\ Len(log') = Len(log) + 1
      BY <1>2, <2>2
    <3>2. /\ \A q \in Procs : valid[q] => q = p
          /\ run[p] # "bom"
      BY <1>0, <3>1 DEF OneWriter, QuietBeforeUp
    <3>3. pos'[p] = Len(log')
      BY <1>0, <2>2, <3>1 DEF TypeOK
    <3> QED
      BY <1>0, <3>1, <3>2, <3>3 DEF OneWriter
  <2> QED
    BY <2>1, <2>2
<1>7. Kept
  BY <1>0, <1>2 DEF IsPrefix, Kept
<1> QED
  BY <1>3, <1>4, <1>5, <1>6, <1>7 DEF IInv

LEMMA KeptItself == TypeOK /\ UNCHANGED log => Kept
BY DEF TypeOK, IsPrefix, Kept

LEMMA Inductive == IInv /\ [Next]_vars => IInv' /\ Kept
<1> SUFFICES ASSUME IInv, [Next]_vars PROVE IInv' /\ Kept
  OBVIOUS
<1>0. UNCHANGED log => Kept
  BY KeptItself DEF IInv
<1>1. ASSUME NEW p \in Procs,
             \/ Start(p) \/ CreateLogFile(p) \/ CreateLogFileFails(p) \/ WriteBomFails(p)
             \/ MainReturns(p) \/ CloseLog(p)
      PROVE  IInv' /\ Kept
  BY <1>0, <1>1, ProcStepQuiet
  DEF Start, CreateLogFile, CreateLogFileFails, WriteBomFails, MainReturns, CloseLog
<1>2. ASSUME NEW p \in Procs, DeleteSection(p) PROVE IInv' /\ Kept
  BY <1>0, <1>2, DeleteSectionStep DEF DeleteSection
<1>3. ASSUME NEW p \in Procs, WriteBom(p) PROVE IInv' /\ Kept
  BY <1>3, WriteBomStep
<1>4. ASSUME NEW p \in Procs, Ends(p) PROVE IInv' /\ Kept
  BY <1>0, <1>4, EndsStep DEF Ends
<1>5. ASSUME NEW t \in Threads,
             Trace(t) \/ Enter(t) \/ Format(t) \/ Stamp(t) \/ Throws(t) \/ Leave(t)
      PROVE  IInv' /\ Kept
  BY <1>0, <1>5, ThreadStepQuiet DEF Trace, Enter, Format, Stamp, Throws, Leave
<1>6. ASSUME NEW t \in Threads, WriteLine(t) PROVE IInv' /\ Kept
  BY <1>6, WriteLineStep
<1>7. CASE UNCHANGED vars
  BY <1>0, <1>7
  DEF vars, threadVars, IInv, TypeOK, LogWellFormed, RoomForMark, Marked, OneInside,
      OneWriter, QuietBeforeUp
<1> QED
  BY <1>1, <1>2, <1>3, <1>4, <1>5, <1>6, <1>7
  DEF Next, ProcStep, ThreadStep, Environment, Exit, Killed

(* Every variable keeps its type, and no line in the log has a part of a    *)
(* zeroed buffer.                                                           *)
THEOREM TypeCorrect == Spec => []TypeOK
<1>1. IInv => TypeOK
  BY DEF IInv
<1> QED
  BY <1>1, Initially, Inductive, PTL DEF Spec

(* The log is its mark and lines of one call each, for any number of        *)
(* processes and threads, whenever they are destroyed or killed.            *)
THEOREM LogIsWellFormed == Spec => []LogWellFormed
<1>1. IInv => LogWellFormed
  BY DEF IInv
<1> QED
  BY <1>1, Initially, Inductive, PTL DEF Spec

(* What has been logged stays, but for the line break that the mark of an   *)
(* unmarked file takes.                                                     *)
THEOREM LogOnlyGrows == Spec => AppendOnly
<1> QED
  BY Initially, Inductive, PTL DEF Spec, AppendOnly, Kept

-----------------------------------------------------------------------------
(* Nobody waits for a section that is left entered.                         *)

HolderInside ==
  \A p \in Procs :
    cs[p] \in Threads => cs[p][1] = p /\ pc[cs[p]] \in Inside

LEMMA HolderStep == TypeOK /\ HolderInside /\ [Next]_vars => HolderInside'
<1> SUFFICES ASSUME TypeOK, HolderInside, [Next]_vars PROVE HolderInside'
  OBVIOUS
<1>0. /\ cs \in [Procs -> Threads \cup {Nobody, Deleted}]
      /\ pc \in [Threads -> Calls \cup {"idle"}]
      /\ \A t \in Threads : t[1] \in Procs /\ t \notin {Nobody, Deleted}
  BY ThreadParts DEF TypeOK
<1>1. CASE UNCHANGED <<cs, pc>>
  BY <1>1 DEF HolderInside
<1>2. ASSUME NEW p \in Procs, DeleteSection(p) PROVE HolderInside'
  BY <1>0, <1>2, NamesAssumption DEF DeleteSection, HolderInside
<1>3. ASSUME NEW p \in Procs, Ends(p) PROVE HolderInside'
  <2>1. /\ \A q \in Procs : cs'[q] = IF q = p THEN Nobody ELSE cs[q]
        /\ \A t \in Threads : t[1] # p => pc'[t] = pc[t]
    BY <1>0, <1>3 DEF Ends
  <2> QED
    BY <1>0, <2>1, NamesAssumption DEF HolderInside
<1>4. ASSUME NEW t \in Threads, Trace(t) PROVE HolderInside'
  BY <1>0, <1>4 DEF Trace, Goto, HolderInside, Inside
<1>5. ASSUME NEW t \in Threads, Enter(t) PROVE HolderInside'
  BY <1>0, <1>5 DEF Enter, Goto, HolderInside, Inside
<1>6. ASSUME NEW t \in Threads, Format(t) \/ Stamp(t) \/ WriteLine(t) \/ Throws(t)
      PROVE  HolderInside'
  <2>1. UNCHANGED cs /\ \E call \in Inside : pc' = [pc EXCEPT ![t] = call]
    BY <1>6 DEF Format, Stamp, WriteLine, Throws, Goto, Inside
  <2> QED
    BY <1>0, <2>1 DEF HolderInside
<1>7. ASSUME NEW t \in Threads, Leave(t) PROVE HolderInside'
  BY <1>0, <1>7, NamesAssumption DEF Leave, Goto, HolderInside
<1> QED
  BY <1>1, <1>2, <1>3, <1>4, <1>5, <1>6, <1>7
  DEF Next, ProcStep, ThreadStep, Environment, Exit, Killed, vars, threadVars, Start,
      CreateLogFile, CreateLogFileFails, WriteBom, WriteBomFails, MainReturns, CloseLog

(* A thread that has to wait in EnterCriticalSection waits for another one  *)
(* of its process, which is past it and has no call to make that blocks;    *)
(* or the destructor has deleted the section and the process is ending.     *)
WaitsForOneInside ==
  \A t \in Threads : pc[t] = "enter" /\ cs[t[1]] # Nobody =>
    \/ cs[t[1]] = Deleted /\ run[t[1]] = "end"
    \/ \E u \in Threads : u # t /\ u[1] = t[1] /\ cs[t[1]] = u /\ pc[u] \in Inside

DeletedAtEnd == \A p \in Procs : cs[p] = Deleted => run[p] = "end"

LEMMA DeletedStep == TypeOK /\ DeletedAtEnd /\ [Next]_vars => DeletedAtEnd'
<1> SUFFICES ASSUME TypeOK, DeletedAtEnd, [Next]_vars PROVE DeletedAtEnd'
  OBVIOUS
<1> USE NamesAssumption DEF DeletedAtEnd
<1>0. /\ cs \in [Procs -> Threads \cup {Nobody, Deleted}]
      /\ run \in [Procs -> {"off", "open", "bom", "up", "exit", "delete", "end"}]
      /\ \A t \in Threads : t[1] \in Procs /\ t # Deleted
  BY ThreadParts DEF TypeOK
<1>1. CASE UNCHANGED <<run, cs>>
  BY <1>1
<1>2. ASSUME NEW p \in Procs, DeleteSection(p) \/ Ends(p) PROVE DeletedAtEnd'
  BY <1>0, <1>2 DEF DeleteSection, Ends, RunGoto
<1>3. ASSUME NEW p \in Procs,
             \/ Start(p) \/ CreateLogFile(p) \/ CreateLogFileFails(p) \/ WriteBom(p)
             \/ WriteBomFails(p) \/ MainReturns(p) \/ CloseLog(p)
      PROVE  DeletedAtEnd'
  BY <1>0, <1>3 DEF Start, CreateLogFile, CreateLogFileFails, WriteBom, WriteBomFails,
                    MainReturns, CloseLog, RunGoto, threadVars
<1>4. ASSUME NEW t \in Threads, Enter(t) \/ Leave(t) PROVE DeletedAtEnd'
  BY <1>0, <1>4 DEF Enter, Leave
<1> QED
  BY <1>1, <1>2, <1>3, <1>4
  DEF Next, ProcStep, ThreadStep, Environment, Exit, Killed, vars, Trace, Format, Stamp,
      WriteLine, Throws

(* The section is never left entered: not by a call that throws, nor by one *)
(* that finds the handle closed.  The safety half of TraceReturns.          *)
THEOREM NobodyLeftInSection == Spec => []WaitsForOneInside
<1>1. Init => HolderInside /\ DeletedAtEnd
  BY NamesAssumption DEF Init, HolderInside, DeletedAtEnd
<1>2. TypeOK /\ HolderInside /\ DeletedAtEnd => WaitsForOneInside
  <2> SUFFICES ASSUME TypeOK, HolderInside, DeletedAtEnd,
                      NEW t \in Threads, pc[t] = "enter", cs[t[1]] # Nobody
               PROVE  \/ cs[t[1]] = Deleted /\ run[t[1]] = "end"
                      \/ \E u \in Threads : /\ u # t /\ u[1] = t[1]
                                             /\ cs[t[1]] = u /\ pc[u] \in Inside
    BY DEF WaitsForOneInside
  <2>1. t[1] \in Procs /\ (cs[t[1]] = Deleted \/ cs[t[1]] \in Threads)
    BY ThreadParts DEF TypeOK
  <2>2. CASE cs[t[1]] = Deleted
    BY <2>1, <2>2 DEF DeletedAtEnd
  <2>3. CASE cs[t[1]] \in Threads
    BY <2>1, <2>3 DEF HolderInside, Inside
  <2> QED
    BY <2>1, <2>2, <2>3
<1> QED
  BY <1>1, <1>2, HolderStep, DeletedStep, TypeCorrect, PTL DEF Spec
=============================================================================
