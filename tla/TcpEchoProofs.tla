---------------------------- MODULE TcpEchoProofs ----------------------------
(***************************************************************************)
(* Proofs about TcpEcho for any clients, lines, buffers and kernel room:   *)
(* the echo keeps the order of the stream, and while the connection lasts  *)
(* every byte typed is in exactly one place.                               *)
(***************************************************************************)
EXTENDS TcpEcho, SequenceTheorems, TLAPS

(* How far a byte can have come: handed to the kernel, taken by the         *)
(* server, or sent back.                                                    *)
Live(c) == link[c] \in {"backlog", "up"} /\ cl[c] # "done"
Whole(c) == read[c] \o s2c[c]
Taken(c) == typed[c] - left[c] - Len(c2s[c])
Echoed(c) == Taken(c) - Len(InBuf(c))

(* The bytes of w are those behind the m-th. *)
Follows(w, m) == \A k \in DOMAIN w : w[k] = m + k

Intact(c) ==
  /\ Echoed(c) \in Nat
  /\ TypedIn(Elements(Whole(c))) = 1 .. Echoed(c)
  /\ Follows(InBuf(c), Echoed(c))
  /\ Follows(c2s[c], Taken(c))

StreamOf(c) ==
  /\ InOrder(Whole(c)) /\ TypedIn(Elements(Whole(c))) \subseteq 1 .. typed[c]
  /\ Live(c) => Intact(c)

(* What the two ends of a connection know of each other. *)
EndsOf(c) ==
  /\ left[c] <= typed[c] /\ (left[c] > 0 => cl[c] = "send")
  /\ cl[c] = "off" => link[c] = "none" /\ typed[c] = 0 /\ read[c] = <<>>
  /\ link[c] = "none" => cl[c] \in {"off", "done"} /\ c2s[c] = <<>> /\ s2c[c] = <<>>
  /\ link[c] = "up" <=> conn = c
  /\ link[c] \in {"backlog", "up"} => srv \in {"accept", "recv", "send"}

Server ==
  /\ srv \in {"recv", "send"} <=> conn # NoClient
  /\ srv # "send" <=> buf = <<>>

IInv == TypeOK /\ Server /\ \A c \in Clients : EndsOf(c) /\ StreamOf(c)

-----------------------------------------------------------------------------
(* Sequences of bytes. *)

LEMMA EmptyBytes == \A S : <<>> \in Seq(S) /\ Len(<<>>) = 0 /\ DOMAIN <<>> = {}
  OBVIOUS

LEMMA Concat ==
  ASSUME NEW S, NEW u \in Seq(S), NEW v \in Seq(S)
  PROVE  /\ u \o v \in Seq(S) /\ Len(u \o v) = Len(u) + Len(v)
         /\ DOMAIN (u \o v) = 1 .. Len(u) + Len(v)
         /\ \A k \in 1 .. Len(u) : (u \o v)[k] = u[k]
         /\ \A k \in 1 .. Len(v) : (u \o v)[Len(u) + k] = v[k]
  OBVIOUS

LEMMA Cut ==
  ASSUME NEW S, NEW s \in Seq(S), NEW n \in 0 .. Len(s)
  PROVE  /\ SubSeq(s, 1, n) \in Seq(S) /\ Len(SubSeq(s, 1, n)) = n
         /\ SubSeq(s, n + 1, Len(s)) \in Seq(S)
         /\ Len(SubSeq(s, n + 1, Len(s))) = Len(s) - n
         /\ \A k \in 1 .. n : SubSeq(s, 1, n)[k] = s[k]
         /\ \A k \in 1 .. Len(s) - n : SubSeq(s, n + 1, Len(s))[k] = s[n + k]
  OBVIOUS

LEMMA CutAndJoin ==
  ASSUME NEW S, NEW u \in Seq(S), NEW s \in Seq(S), NEW n \in 0 .. Len(s)
  PROVE  (u \o SubSeq(s, 1, n)) \o SubSeq(s, n + 1, Len(s)) = u \o s
<1>1. SubSeq(s, 1, n) \o SubSeq(s, n + 1, Len(s)) = s
  <2>1. SubSeq(s, 1, n) \o SubSeq(s, n + 1, Len(s)) = SubSeq(s, 1, Len(s))
    <3>1. /\ Len(s) \in Nat /\ 1 \in 1 .. Len(s) + 1 /\ n \in 1 - 1 .. Len(s)
          /\ Len(s) \in n .. Len(s)
      OBVIOUS
    <3> QED
      BY <3>1, ConcatAdjacentSubSeq
  <2> QED
    BY <2>1, SubSeqFull
<1>2. SubSeq(s, 1, n) \in Seq(S) /\ SubSeq(s, n + 1, Len(s)) \in Seq(S)
  BY Cut
<1>3. \A a, b \in Seq(S) : (u \o a) \o b = u \o (a \o b)
  BY ConcatAssociative
<1>4. ASSUME NEW a \in Seq(S), NEW b \in Seq(S), a \o b = s
      PROVE  (u \o a) \o b = u \o s
  BY <1>3, <1>4, Zenon
<1> QED
  BY <1>1, <1>2, <1>4

LEMMA InOrderPrefix ==
  ASSUME NEW u \in Seq(Bytes), NEW v \in Seq(Bytes), InOrder(u \o v)
  PROVE  /\ InOrder(u)
         /\ TypedIn(Elements(u)) \subseteq TypedIn(Elements(u \o v))
<1> DEFINE w == u \o v
<1>1. /\ Len(u) \in Nat /\ Len(v) \in Nat /\ DOMAIN u = 1 .. Len(u)
      /\ DOMAIN w = 1 .. Len(u) + Len(v) /\ \A k \in 1 .. Len(u) : w[k] = u[k]
  BY Concat
<1> HIDE DEF w
<1>2. ASSUME NEW k \in DOMAIN u, u[k] > 0
      PROVE  TypedIn({u[j] : j \in 1 .. k - 1}) = 1 .. u[k] - 1
  <2>1. {u[j] : j \in 1 .. k - 1} = {w[j] : j \in 1 .. k - 1}
    BY <1>1, SMTT(30)
  <2>2. k \in DOMAIN w /\ w[k] = u[k]
    BY <1>1
  <2> QED
    BY <1>2, <2>1, <2>2 DEF InOrder, w
<1>3. Elements(u) \subseteq Elements(w)
  BY <1>1 DEF Elements
<1> QED
  BY <1>2, <1>3 DEF InOrder, TypedIn, w

LEMMA InOrderMore ==
  ASSUME NEW w \in Seq(Bytes), NEW v \in Seq(Bytes), NEW m \in Nat,
         InOrder(w), TypedIn(Elements(w)) = 1 .. m, Follows(v, m)
  PROVE  /\ InOrder(w \o v)
         /\ TypedIn(Elements(w \o v)) = 1 .. m + Len(v)
<1> DEFINE x == w \o v
<1>1. /\ Len(w) \in Nat /\ Len(v) \in Nat /\ DOMAIN w = 1 .. Len(w) /\ DOMAIN v = 1 .. Len(v)
      /\ DOMAIN x = 1 .. Len(w) + Len(v)
      /\ \A k \in 1 .. Len(w) : x[k] = w[k]
      /\ \A k \in 1 .. Len(v) : x[Len(w) + k] = v[k]
  BY Concat
<1>2. \A k \in 1 .. Len(v) : v[k] = m + k
  BY <1>1 DEF Follows
<1> HIDE DEF x
(* The first i bytes of v behind w. *)
<1>3. ASSUME NEW i \in 0 .. Len(v)
      PROVE  TypedIn({x[j] : j \in 1 .. Len(w) + i}) = 1 .. m + i
  <2>1. {x[j] : j \in 1 .. Len(w) + i} = Elements(w) \cup {m + j : j \in 1 .. i}
    <3>1. ASSUME NEW j \in 1 .. Len(w) + i
          PROVE  x[j] \in Elements(w) \cup {m + l : l \in 1 .. i}
      <4>1. CASE j \in 1 .. Len(w)
        BY <1>1, <4>1 DEF Elements
      <4>2. CASE j \notin 1 .. Len(w)
        <5>1. j - Len(w) \in 1 .. i /\ j - Len(w) \in 1 .. Len(v) /\ j = Len(w) + (j - Len(w))
          BY <1>1, <4>2
        <5>2. x[j] = m + (j - Len(w))
          BY <1>1, <1>2, <5>1
        <5> QED
          BY <5>1, <5>2
      <4> QED
        BY <4>1, <4>2
    <3>2. ASSUME NEW j \in 1 .. Len(w)
          PROVE  w[j] \in {x[l] : l \in 1 .. Len(w) + i}
      BY <1>1
    <3>3. ASSUME NEW j \in 1 .. i
          PROVE  m + j \in {x[l] : l \in 1 .. Len(w) + i}
      <4>1. Len(w) + j \in 1 .. Len(w) + i /\ j \in 1 .. Len(v)
        BY <1>1
      <4> QED
        BY <1>1, <1>2, <4>1
    <3> QED
      BY <1>1, <3>1, <3>2, <3>3 DEF Elements
  <2>2. TypedIn({m + j : j \in 1 .. i}) = m + 1 .. m + i
    <3>1. \A y \in m + 1 .. m + i : y - m \in 1 .. i /\ y = m + (y - m)
      OBVIOUS
    <3>2. \A j \in 1 .. i : m + j \in m + 1 .. m + i
      OBVIOUS
    <3>3. {m + j : j \in 1 .. i} = m + 1 .. m + i
      BY <3>1, <3>2
    <3>4. 0 \notin m + 1 .. m + i /\ -1 \notin m + 1 .. m + i
      OBVIOUS
    <3> QED
      BY <3>3, <3>4 DEF TypedIn, NUL, Beyond
  <2>3. TypedIn(Elements(w) \cup {m + j : j \in 1 .. i})
          = TypedIn(Elements(w)) \cup TypedIn({m + j : j \in 1 .. i})
    BY DEF TypedIn
  <2>4. (1 .. m) \cup (m + 1 .. m + i) = 1 .. m + i
    OBVIOUS
  <2> QED
    BY <2>1, <2>2, <2>3, <2>4
<1>4. ASSUME NEW k \in DOMAIN x, x[k] > 0
      PROVE  TypedIn({x[j] : j \in 1 .. k - 1}) = 1 .. x[k] - 1
  <2>1. CASE k \in 1 .. Len(w)
    <3>1. {x[j] : j \in 1 .. k - 1} = {w[j] : j \in 1 .. k - 1}
      BY <1>1, <2>1
    <3> QED
      BY <1>1, <1>4, <2>1, <3>1 DEF InOrder
  <2>2. CASE k \notin 1 .. Len(w)
    <3> DEFINE i == k - Len(w) - 1
    <3>1. /\ i \in 0 .. Len(v) /\ k - 1 = Len(w) + i
          /\ i + 1 \in 1 .. Len(v) /\ k = Len(w) + (i + 1)
      BY <1>1, <2>2
    <3>2. x[k] = m + (i + 1)
      <4> HIDE DEF i
      <4> QED
        BY <1>1, <1>2, <3>1
    <3>3. x[k] - 1 = m + i
      BY <3>1, <3>2
    <3> HIDE DEF i
    <3> QED
      BY <1>3, <3>1, <3>3
  <2> QED
    BY <2>1, <2>2
<1>5. TypedIn(Elements(x)) = 1 .. m + Len(v)
  <2>1. Elements(x) = {x[j] : j \in 1 .. Len(w) + Len(v)} /\ Len(v) \in 0 .. Len(v)
    BY <1>1 DEF Elements
  <2> QED
    BY <1>3, <2>1
<1> QED
  BY <1>4, <1>5 DEF InOrder, x

(* Three stretches that follow on one another. *)
LEMMA InOrderAll ==
  ASSUME NEW w \in Seq(Bytes), NEW m \in Nat, InOrder(w), TypedIn(Elements(w)) = 1 .. m,
         NEW b \in Seq(Bytes), NEW q \in Seq(Bytes), NEW u \in Seq(Bytes),
         Follows(b, m), Follows(q, m + Len(b)), Follows(u, m + Len(b) + Len(q))
  PROVE  /\ InOrder(w \o b \o q \o u)
         /\ TypedIn(Elements(w \o b \o q \o u)) = 1 .. m + Len(b) + Len(q) + Len(u)
<1>1. m + Len(b) \in Nat /\ m + Len(b) + Len(q) \in Nat
  OBVIOUS
<1>2. /\ w \o b \in Seq(Bytes) /\ InOrder(w \o b)
      /\ TypedIn(Elements(w \o b)) = 1 .. m + Len(b)
  BY InOrderMore, Concat
<1>3. /\ (w \o b) \o q \in Seq(Bytes) /\ InOrder((w \o b) \o q)
      /\ TypedIn(Elements((w \o b) \o q)) = 1 .. m + Len(b) + Len(q)
  <2>1. ASSUME NEW x \in Seq(Bytes), InOrder(x), TypedIn(Elements(x)) = 1 .. m + Len(b)
        PROVE  /\ x \o q \in Seq(Bytes) /\ InOrder(x \o q)
               /\ TypedIn(Elements(x \o q)) = 1 .. m + Len(b) + Len(q)
    BY <1>1, <2>1, InOrderMore, Concat
  <2> QED
    BY <1>2, <2>1
<1>4. ASSUME NEW x \in Seq(Bytes), InOrder(x), TypedIn(Elements(x)) = 1 .. m + Len(b) + Len(q)
      PROVE  InOrder(x \o u) /\ TypedIn(Elements(x \o u)) = 1 .. m + Len(b) + Len(q) + Len(u)
  BY <1>1, <1>4, InOrderMore
<1> QED
  BY <1>3, <1>4

LEMMA InOrderMadeUp ==
  ASSUME NEW w \in Seq(Bytes), NEW b \in {NUL, Beyond}, InOrder(w)
  PROVE  /\ InOrder(Append(w, b))
         /\ TypedIn(Elements(Append(w, b))) = TypedIn(Elements(w))
<1> DEFINE x == Append(w, b)
<1>1. /\ Len(w) \in Nat /\ DOMAIN w = 1 .. Len(w) /\ DOMAIN x = 1 .. Len(w) + 1
      /\ \A k \in 1 .. Len(w) : x[k] = w[k]
      /\ x[Len(w) + 1] = b /\ ~(b > 0)
  BY DEF NUL, Beyond, Bytes
<1> HIDE DEF x
<1>2. ASSUME NEW k \in DOMAIN x, x[k] > 0
      PROVE  TypedIn({x[j] : j \in 1 .. k - 1}) = 1 .. x[k] - 1
  <2>1. k \in 1 .. Len(w)
    BY <1>1, <1>2
  <2>2. {x[j] : j \in 1 .. k - 1} = {w[j] : j \in 1 .. k - 1}
    BY <1>1, <2>1
  <2> QED
    BY <1>1, <1>2, <2>1, <2>2 DEF InOrder
<1>3. Elements(x) = Elements(w) \cup {b}
  BY <1>1 DEF Elements
<1> QED
  BY <1>2, <1>3 DEF InOrder, TypedIn, x

LEMMA NoMore == ASSUME NEW S, NEW u \in Seq(S) PROVE u \o <<>> = u
  OBVIOUS

LEMMA FollowingOn ==
  ASSUME NEW m \in Nat, NEW n \in Nat
  PROVE  /\ Following(m, n) \in Seq(Typed) /\ Len(Following(m, n)) = n
         /\ Follows(Following(m, n), m)
<1>1. Following(m, n) \in [1 .. n -> Typed]
  BY DEF Following, Typed, NUL
<1>2. Following(m, n) \in Seq(Typed)
  BY <1>1, SeqDef
<1>3. Len(Following(m, n)) = n
  BY <1>1, <1>2
<1> QED
  BY <1>2, <1>3 DEF Follows, Following

LEMMA FollowsCut ==
  ASSUME NEW s \in Seq(Typed), NEW m \in Nat, Follows(s, m), NEW n \in 0 .. Len(s)
  PROVE  /\ Follows(SubSeq(s, 1, n), m)
         /\ Follows(SubSeq(s, n + 1, Len(s)), m + n)
  BY DEF Follows

LEMMA FollowsJoin ==
  ASSUME NEW s \in Seq(Typed), NEW t \in Seq(Typed), NEW m \in Nat,
         Follows(s, m), Follows(t, m + Len(s))
  PROVE  Follows(s \o t, m)
<1>1. /\ DOMAIN (s \o t) = 1 .. Len(s) + Len(t) /\ Len(s) \in Nat /\ Len(t) \in Nat
      /\ DOMAIN s = 1 .. Len(s) /\ DOMAIN t = 1 .. Len(t)
      /\ \A k \in 1 .. Len(s) : (s \o t)[k] = s[k]
      /\ \A k \in 1 .. Len(t) : (s \o t)[Len(s) + k] = t[k]
  BY Concat
<1>2. ASSUME NEW k \in 1 .. Len(s) + Len(t)
      PROVE  (s \o t)[k] = m + k
  <2>1. CASE k \in 1 .. Len(s)
    BY <1>1, <2>1 DEF Follows
  <2>2. CASE k \notin 1 .. Len(s)
    <3>1. k - Len(s) \in 1 .. Len(t) /\ k = Len(s) + (k - Len(s))
      BY <1>1, <2>2
    <3>2. (s \o t)[k] = t[k - Len(s)]
      BY <1>1, <3>1
    <3>3. t[k - Len(s)] = m + Len(s) + (k - Len(s))
      BY <1>1, <3>1 DEF Follows
    <3> QED
      BY <1>1, <3>2, <3>3
  <2> QED
    BY <2>1, <2>2
<1> QED
  BY <1>1, <1>2 DEF Follows

LEMMA TypedAreBytes == \A s : s \in Seq(Typed) => s \in Seq(Bytes)
  BY DEF Typed, Bytes

-----------------------------------------------------------------------------
(* Types and the two ends of a connection. *)

LEMMA Initially == Init => IInv
<1> SUFFICES ASSUME Init PROVE IInv
  OBVIOUS
<1> USE SizesAssumption, EmptyBytes DEF Init
<1>1. TypeOK
  BY DEF TypeOK
<1>2. Server /\ \A c \in Clients : EndsOf(c)
  BY DEF Server, EndsOf
<1>3. \A c \in Clients : StreamOf(c)
  <2> SUFFICES ASSUME NEW c \in Clients PROVE StreamOf(c)
    OBVIOUS
  <2>1. Whole(c) = <<>> /\ ~Live(c)
    BY DEF Whole, Live
  <2> QED
    BY <2>1 DEF StreamOf, InOrder, TypedIn, Elements
<1> QED
  BY <1>1, <1>2, <1>3 DEF IInv

Ends == TypeOK /\ Server /\ \A c \in Clients : EndsOf(c)

LEMMA ServerEndsStep ==
  ASSUME Ends,
         ServerStart \/ (\E c \in Clients : Accept(c)) \/ Recv \/ Send \/ ServerExit
  PROVE  Ends'
<1> USE SizesAssumption, EmptyBytes DEF Ends, TypeOK, Server, EndsOf, clientVars
<1>1. CASE ServerStart
  BY <1>1 DEF ServerStart
<1>2. ASSUME NEW c \in Clients, Accept(c)
      PROVE  Ends'
  BY <1>2 DEF Accept
<1>3. CASE Recv
  <2>1. conn \in Clients
    BY <1>3 DEF Recv
  <2>2. PICK n \in 1 .. BufSize :
          /\ n <= Len(c2s[conn])
          /\ buf' = SubSeq(c2s[conn], 1, n)
          /\ c2s' = [c2s EXCEPT ![conn] = SubSeq(@, n + 1, Len(@))]
    BY <1>3 DEF Recv
  <2>3. c2s[conn] \in Seq(Typed) /\ n \in 0 .. Len(c2s[conn])
    BY <2>1, <2>2
  <2>4. /\ buf' \in Seq(Typed) /\ Len(buf') = n /\ buf' # <<>>
        /\ c2s'[conn] \in Seq(Typed) /\ Len(c2s'[conn]) = Len(c2s[conn]) - n
        /\ \A c \in Clients : c # conn => c2s'[c] = c2s[c]
    <3>1. c2s'[conn] = SubSeq(c2s[conn], n + 1, Len(c2s[conn]))
      BY <2>1, <2>2
    <3>2. \A c \in Clients : c # conn => c2s'[c] = c2s[c]
      BY <2>2
    <3>3. buf' \in Seq(Typed) /\ Len(buf') = n
      BY <2>2, <2>3, Cut
    <3>4. c2s'[conn] \in Seq(Typed) /\ Len(c2s'[conn]) = Len(c2s[conn]) - n
      BY <2>3, <3>1, Cut, SMTT(30)
    <3> QED
      BY <3>2, <3>3, <3>4
  <2>5. TypeOK'
    <3>1. c2s' \in [Clients -> Seq(Typed)]
      BY <2>2, <2>4
    <3>2. \A c \in Clients : Len(c2s'[c]) <= InRoom
      BY <2>1, <2>2, <2>3, <2>4
    <3>3. /\ srv' = "send" /\ UNCHANGED <<conn, link, s2c, cl, left, typed, read>>
          /\ Len(buf') <= BufSize
      BY <1>3, <2>2, <2>4 DEF Recv
    <3> QED
      BY <2>4, <3>1, <3>2, <3>3
  <2>6. Server' /\ \A c \in Clients : EndsOf(c)'
    BY <1>3, <2>1, <2>4 DEF Recv
  <2> QED
    BY <2>5, <2>6
<1>4. CASE Send
  <2>1. conn \in Clients /\ buf \in Seq(Bytes) /\ Extra \in Bytes
    BY <1>4, TypedAreBytes DEF Send, EchoWith, Extra, Bytes, NUL, Beyond
  <2>2. Append(buf, Extra) \in Seq(Bytes)
    BY <2>1
  <2>3. /\ s2c[conn] \o Append(buf, Extra) \in Seq(Bytes)
        /\ Len(s2c[conn] \o Append(buf, Extra)) = Len(s2c[conn]) + Len(Append(buf, Extra))
    BY <2>1, <2>2, Concat
  <2>4. /\ s2c'[conn] \in Seq(Bytes) /\ Len(s2c'[conn]) <= OutRoom
        /\ \A c \in Clients : c # conn => s2c'[c] = s2c[c]
        /\ s2c' \in [Clients -> Seq(Bytes)]
    BY <1>4, <2>1, <2>3 DEF Send, EchoWith
  <2>5. TypeOK'
    BY <1>4, <2>1, <2>4 DEF Send, EchoWith
  <2>6. Server' /\ \A c \in Clients : EndsOf(c)'
    BY <1>4, <2>1, <2>4 DEF Send, EchoWith
  <2> QED
    BY <2>5, <2>6
<1>5. CASE ServerExit
  <2>1. \A c \in Clients : /\ link'[c] \in {"none", "down"} /\ (link'[c] = "none" <=> link[c] = "none")
                           /\ s2c'[c] \in {s2c[c], <<>>} /\ c2s'[c] = <<>>
    BY <1>5 DEF ServerExit
  <2>2. TypeOK'
    BY <1>5, <2>1 DEF ServerExit
  <2>3. Server' /\ \A c \in Clients : EndsOf(c)'
    BY <1>5, <2>1 DEF ServerExit
  <2> QED
    BY <2>2, <2>3
<1> QED
  BY <1>1, <1>2, <1>3, <1>4, <1>5

ClientAction(c) ==
  \/ Connect(c) \/ ConnectFails(c) \/ (\E k \in 1 .. MaxInput : TypeLine(c, k))
  \/ SendLine(c) \/ SendLineFails(c) \/ RecvReply(c) \/ RecvReplyEnds(c)
  \/ Quit(c) \/ ClientKilled(c)

(* What SendLine hands over. *)
Handed(c) ==
  IF link[c] = "down" THEN left[c] ELSE Least(left[c], InRoom - Len(c2s[c]))

LEMMA HandedOver ==
  ASSUME TypeOK, NEW c \in Clients, EndsOf(c), SendLine(c)
  PROVE  /\ Handed(c) \in 1 .. left[c]
         /\ left' = [left EXCEPT ![c] = @ - Handed(c)]
         /\ link[c] # "down" => /\ Handed(c) <= InRoom - Len(c2s[c])
                                /\ c2s' = [c2s EXCEPT ![c] = @ \o SubSeq(Unsent(c), 1, Handed(c))]
         /\ link[c] = "down" => c2s' = c2s
         /\ cl' \in {cl, [cl EXCEPT ![c] = "reply"]}
         /\ cl'[c] # "send" => left'[c] = 0
         /\ UNCHANGED <<srv, conn, buf, link, s2c, typed, read>>
<1>1. c2s[c] \in Seq(Typed) /\ Len(c2s[c]) \in Nat /\ left[c] \in Nat
  BY DEF TypeOK
<1>2. Handed(c) > 0 /\ Handed(c) \in Int /\ Handed(c) <= left[c]
      /\ (link[c] # "down" => Handed(c) <= InRoom - Len(c2s[c]))
  BY <1>1, SizesAssumption DEF SendLine, Handed, Least
<1>3. /\ left' = [left EXCEPT ![c] = @ - Handed(c)]
      /\ link[c] # "down" => c2s' = [c2s EXCEPT ![c] = @ \o SubSeq(Unsent(c), 1, Handed(c))]
      /\ link[c] = "down" => c2s' = c2s
      /\ IF Handed(c) = left[c] THEN cl' = [cl EXCEPT ![c] = "reply"] ELSE cl' = cl
      /\ UNCHANGED <<srv, conn, buf, link, s2c, typed, read>>
      /\ cl[c] = "send"
  BY DEF SendLine, Handed, ClientGoto
<1>4. cl'[c] # "send" => left'[c] = 0
  BY <1>1, <1>2, <1>3 DEF TypeOK
<1> QED
  BY <1>1, <1>2, <1>3, <1>4

LEMMA UnsentType ==
  ASSUME TypeOK, NEW c \in Clients, EndsOf(c)
  PROVE  /\ Unsent(c) \in Seq(Typed) /\ Len(Unsent(c)) = left[c]
         /\ Follows(Unsent(c), typed[c] - left[c])
         /\ typed[c] - left[c] \in Nat
<1>1. left[c] \in Nat /\ typed[c] - left[c] \in Nat
  BY DEF TypeOK, EndsOf
<1> QED
  BY <1>1, FollowingOn DEF Unsent

LEMMA ClientEndsStep ==
  ASSUME Ends, NEW c \in Clients, ClientAction(c)
  PROVE  Ends'
<1> USE SizesAssumption, EmptyBytes DEF Ends, TypeOK, Server, EndsOf, ClientGoto
<1>1. CASE Connect(c)
  BY <1>1 DEF Connect
<1>2. CASE ConnectFails(c)
  BY <1>2 DEF ConnectFails
<1>3. ASSUME NEW k \in 1 .. MaxInput, TypeLine(c, k)
      PROVE  Ends'
  <2>0. /\ cl[c] = "prompt" /\ cl' = [cl EXCEPT ![c] = "send"]
        /\ typed' = [typed EXCEPT ![c] = @ + k + 1] /\ left' = [left EXCEPT ![c] = k + 1]
        /\ UNCHANGED <<srv, conn, buf, link, c2s, s2c, read>>
        /\ typed[c] \in Nat /\ k + 1 \in 0 .. MaxInput + 1 /\ k + 1 \in Nat
    BY <1>3 DEF TypeLine
  <2>1. TypeOK'
    <3>1. typed' \in [Clients -> Nat] /\ left' \in [Clients -> 0 .. MaxInput + 1]
      BY <2>0, SMTT(30)
    <3> QED
      BY <2>0, <3>1
  <2>2. Server' /\ \A d \in Clients : EndsOf(d)'
    <3> SUFFICES ASSUME NEW d \in Clients PROVE Server' /\ EndsOf(d)'
      BY <2>0
    <3>1. CASE d = c
      <4>1. cl'[c] = "send" /\ typed'[c] = typed[c] + k + 1 /\ left'[c] = k + 1 /\ link[c] # "none"
        BY <2>0
      <4> QED
        BY <2>0, <3>1, <4>1, SMTT(30)
    <3>2. CASE d # c
      <4>1. cl'[d] = cl[d] /\ typed'[d] = typed[d] /\ left'[d] = left[d]
        BY <2>0, <3>2
      <4> QED
        BY <2>0, <3>2, <4>1
    <3> QED
      BY <3>1, <3>2
  <2> QED
    BY <2>1, <2>2
<1>4. CASE SendLine(c)
  <2> DEFINE n == Handed(c)
  <2>1. /\ n \in 1 .. left[c] /\ left' = [left EXCEPT ![c] = @ - n]
        /\ link[c] # "down" => n <= InRoom - Len(c2s[c])
        /\ link[c] # "down" => c2s' = [c2s EXCEPT ![c] = @ \o SubSeq(Unsent(c), 1, n)]
        /\ link[c] = "down" => c2s' = c2s
        /\ cl' \in {cl, [cl EXCEPT ![c] = "reply"]}
        /\ cl'[c] # "send" => left'[c] = 0
        /\ UNCHANGED <<srv, conn, buf, link, s2c, typed, read>>
    BY <1>4, HandedOver
  <2> HIDE DEF n
  <2>2. cl[c] = "send" /\ link[c] # "none"
    BY <1>4 DEF SendLine
  <2>3. c2s' \in [Clients -> Seq(Typed)] /\ \A d \in Clients : Len(c2s'[d]) <= InRoom
    <3>1. CASE link[c] = "down"
      BY <2>1, <3>1
    <3>2. CASE link[c] # "down"
      <4>1. /\ SubSeq(Unsent(c), 1, n) \in Seq(Typed) /\ Len(SubSeq(Unsent(c), 1, n)) = n
        <5>1. Unsent(c) \in Seq(Typed) /\ Len(Unsent(c)) = left[c] /\ n \in 0 .. left[c]
          BY <2>1, UnsentType, SMTT(30)
        <5> QED
          BY <5>1, Cut
      <4>2. c2s[c] \in Seq(Typed) /\ Len(c2s[c]) \in Nat
        OBVIOUS
      <4>3. /\ c2s[c] \o SubSeq(Unsent(c), 1, n) \in Seq(Typed)
            /\ Len(c2s[c] \o SubSeq(Unsent(c), 1, n)) = Len(c2s[c]) + n
        BY <4>1, <4>2, Concat
      <4>4. /\ c2s'[c] \in Seq(Typed) /\ Len(c2s'[c]) = Len(c2s[c]) + n
            /\ \A d \in Clients : d # c => c2s'[d] = c2s[d]
            /\ c2s' \in [Clients -> Seq(Typed)]
        <5>1. c2s' = [c2s EXCEPT ![c] = c2s[c] \o SubSeq(Unsent(c), 1, n)]
          BY <2>1, <3>2
        <5> HIDE DEF TypeOK
        <5>2. c2s \in [Clients -> Seq(Typed)]
          BY DEF TypeOK
        <5> QED
          BY <4>3, <5>1, <5>2
      <4>5. Len(c2s'[c]) <= InRoom
        BY <2>1, <3>2, <4>2, <4>4
      <4> QED
        BY <4>4, <4>5
    <3> QED
      BY <3>1, <3>2
  <2>4. /\ left'[c] = left[c] - n /\ left' \in [Clients -> 0 .. MaxInput + 1]
        /\ left'[c] <= typed[c] /\ \A d \in Clients : d # c => left'[d] = left[d]
    <3>1. left \in [Clients -> 0 .. MaxInput + 1] /\ left[c] <= typed[c]
      OBVIOUS
    <3>2. /\ left[c] - n \in 0 .. MaxInput + 1 /\ left[c] - n <= typed[c]
      BY <2>1, SMTT(30)
    <3> QED
      BY <2>1, <3>1, <3>2
  <2>5. cl' \in [Clients -> {"off", "prompt", "send", "reply", "done"}]
    BY <2>1
  <2>6. TypeOK'
    BY <2>1, <2>3, <2>4, <2>5
  <2>7. \A d \in Clients : EndsOf(d)'
    <3> SUFFICES ASSUME NEW d \in Clients PROVE EndsOf(d)'
      OBVIOUS
    <3>1. CASE d = c
      <4>1. cl'[c] \in {"send", "reply"} /\ (left'[c] > 0 => cl'[c] = "send")
        BY <2>1, <2>2, <2>4, SMTT(30)
      <4> QED
        BY <2>1, <2>2, <2>4, <3>1, <4>1
    <3>2. CASE d # c
      <4>1. cl'[d] = cl[d] /\ c2s'[d] = c2s[d]
        BY <2>1, <3>2
      <4> QED
        BY <2>1, <2>4, <3>2, <4>1
    <3> QED
      BY <3>1, <3>2
  <2>8. Server'
    BY <2>1
  <2> QED
    BY <2>6, <2>7, <2>8
<1>5. CASE SendLineFails(c)
  <2>1. TypeOK'
    BY <1>5, SMTT(30) DEF SendLineFails
  <2>2. Server' /\ \A d \in Clients : EndsOf(d)'
    BY <1>5, SMTT(30) DEF SendLineFails
  <2> QED
    BY <2>1, <2>2
<1>6. CASE RecvReply(c)
  <2>1. PICK n \in 1 .. BufSize :
          /\ n <= Len(s2c[c])
          /\ read' = [read EXCEPT ![c] = @ \o SubSeq(s2c[c], 1, n)]
          /\ s2c' = [s2c EXCEPT ![c] = SubSeq(@, n + 1, Len(@))]
    BY <1>6 DEF RecvReply
  <2>2. s2c[c] \in Seq(Bytes) /\ n \in 0 .. Len(s2c[c]) /\ read[c] \in Seq(Bytes)
    BY <2>1
  <2>3. /\ SubSeq(s2c[c], 1, n) \in Seq(Bytes)
        /\ SubSeq(s2c[c], n + 1, Len(s2c[c])) \in Seq(Bytes)
        /\ Len(SubSeq(s2c[c], n + 1, Len(s2c[c]))) = Len(s2c[c]) - n
    BY <2>2, Cut, SMTT(30)
  <2>4. read[c] \o SubSeq(s2c[c], 1, n) \in Seq(Bytes)
    BY <2>2, <2>3, Concat
  <2>5. /\ s2c' \in [Clients -> Seq(Bytes)] /\ read' \in [Clients -> Seq(Bytes)]
        /\ Len(s2c'[c]) <= OutRoom /\ \A d \in Clients : d # c => s2c'[d] = s2c[d] /\ read'[d] = read[d]
    <3>1. /\ read' = [read EXCEPT ![c] = read[c] \o SubSeq(s2c[c], 1, n)]
          /\ s2c' = [s2c EXCEPT ![c] = SubSeq(s2c[c], n + 1, Len(s2c[c]))]
          /\ read \in [Clients -> Seq(Bytes)] /\ s2c \in [Clients -> Seq(Bytes)]
      BY <2>1
    <3>2. /\ read' \in [Clients -> Seq(Bytes)] /\ s2c' \in [Clients -> Seq(Bytes)]
          /\ s2c'[c] = SubSeq(s2c[c], n + 1, Len(s2c[c]))
          /\ \A d \in Clients : d # c => s2c'[d] = s2c[d] /\ read'[d] = read[d]
      <4> HIDE DEF TypeOK
      <4> QED
        BY <2>3, <2>4, <3>1
    <3>3. Len(s2c'[c]) <= OutRoom
      <4>1. Len(s2c[c]) \in Nat /\ Len(s2c[c]) <= OutRoom
        BY <2>2
      <4> QED
        BY <2>2, <2>3, <3>2, <4>1
    <3> QED
      BY <3>2, <3>3
  <2>6. /\ cl' = [cl EXCEPT ![c] = "prompt"] /\ cl[c] = "reply"
        /\ UNCHANGED <<left, srv, conn, buf, link, c2s, typed>>
    BY <1>6 DEF RecvReply
  <2>7. TypeOK'
    BY <2>5, <2>6
  <2>8. Server' /\ \A d \in Clients : EndsOf(d)'
    BY <2>5, <2>6
  <2> QED
    BY <2>7, <2>8
<1>7. CASE RecvReplyEnds(c)
  BY <1>7 DEF RecvReplyEnds
<1>8. CASE Quit(c)
  <2>1. TypeOK'
    BY <1>8, SMTT(30) DEF Quit
  <2>2. Server' /\ \A d \in Clients : EndsOf(d)'
    BY <1>8 DEF Quit
  <2> QED
    BY <2>1, <2>2
<1>9. CASE ClientKilled(c)
  <2>1. TypeOK'
    BY <1>9, SMTT(30) DEF ClientKilled
  <2>2. Server' /\ \A d \in Clients : EndsOf(d)'
    BY <1>9, SMTT(30) DEF ClientKilled
  <2> QED
    BY <2>1, <2>2
<1> QED
  BY <1>1, <1>2, <1>3, <1>4, <1>5, <1>6, <1>7, <1>8, <1>9 DEF ClientAction

-----------------------------------------------------------------------------
(* The stream of each client. *)

LEMMA SameStream ==
  ASSUME NEW d \in Clients, StreamOf(d), Live(d)' => Live(d), InBuf(d)' = InBuf(d),
         c2s'[d] = c2s[d], s2c'[d] = s2c[d], left'[d] = left[d], typed'[d] = typed[d],
         read'[d] = read[d]
  PROVE  StreamOf(d)'
  BY DEF StreamOf, Intact, Whole, Echoed, Taken

(* Answers that nobody will read leave what was read in order. *)
LEMMA ClosedStream ==
  ASSUME TypeOK, NEW d \in Clients, StreamOf(d), ~Live(d)',
         read'[d] = read[d], typed'[d] = typed[d], s2c'[d] \in {s2c[d], <<>>}
  PROVE  StreamOf(d)'
<1>1. read[d] \in Seq(Bytes) /\ s2c[d] \in Seq(Bytes)
  BY DEF TypeOK
<1>2. InOrder(Whole(d)) /\ TypedIn(Elements(Whole(d))) \subseteq 1 .. typed[d]
  BY DEF StreamOf
<1>3. CASE s2c'[d] = s2c[d]
  BY <1>2, <1>3 DEF StreamOf, Whole
<1>4. CASE s2c'[d] = <<>>
  <2>1. /\ InOrder(read[d])
        /\ TypedIn(Elements(read[d])) \subseteq TypedIn(Elements(Whole(d)))
    BY <1>1, <1>2, InOrderPrefix DEF Whole
  <2>2. Whole(d)' = read[d]
    BY <1>1, <1>4, NoMore DEF Whole
  <2> QED
    BY <1>2, <2>1, <2>2 DEF StreamOf
<1> QED
  BY <1>3, <1>4

LEMMA RecvStream ==
  ASSUME Ends, \A c \in Clients : StreamOf(c), Recv,
         NEW o \in Clients, conn = o
  PROVE  \A c \in Clients : StreamOf(c)'
<1> USE DEF clientVars
<1>1. /\ conn = o /\ buf = <<>> /\ link[o] = "up" /\ NoClient \notin Clients
      /\ UNCHANGED <<conn, link, s2c, cl, left, typed, read>>
  BY SizesAssumption DEF Ends, TypeOK, Server, EndsOf, Recv
<1>2. PICK n \in 1 .. BufSize :
        /\ n <= Len(c2s[o])
        /\ buf' = SubSeq(c2s[o], 1, n)
        /\ c2s' = [c2s EXCEPT ![conn] = SubSeq(@, n + 1, Len(@))]
  BY DEF Recv
<1>3. /\ c2s[o] \in Seq(Typed) /\ n \in 0 .. Len(c2s[o]) /\ Len(c2s[o]) \in Nat
      /\ typed[o] \in Nat /\ left[o] \in Nat
  BY <1>1, <1>2 DEF Ends, TypeOK
<1>4. /\ c2s'[o] = SubSeq(c2s[o], n + 1, Len(c2s[o]))
      /\ \A c \in Clients : c # o => c2s'[c] = c2s[c]
  BY <1>1, <1>2 DEF Ends, TypeOK
<1>5. ASSUME NEW c \in Clients, c # o
      PROVE  StreamOf(c)'
  BY <1>1, <1>4, <1>5, SameStream DEF Live, InBuf
<1>6. StreamOf(o)'
  <2>1. /\ Whole(o)' = Whole(o) /\ (Live(o)' <=> Live(o))
        /\ InBuf(o) = <<>> /\ InBuf(o)' = buf'
    BY <1>1 DEF Whole, Live, InBuf
  <2>2. SUFFICES ASSUME Live(o) PROVE Intact(o)'
    BY <1>1, <2>1 DEF StreamOf
  <2>3. Intact(o)
    BY <1>1, <2>2 DEF StreamOf
  <2>4. Echoed(o) = Taken(o) /\ Taken(o) \in Nat
    BY <1>3, <2>1, <2>3, EmptyBytes DEF Intact, Echoed, Taken
  <2>5. /\ Len(buf') = n /\ Len(c2s'[o]) = Len(c2s[o]) - n
    BY <1>2, <1>3, <1>4, Cut
  <2>6. Taken(o)' = Taken(o) + n /\ Echoed(o)' = Echoed(o)
    <3>1. Taken(o)' = Taken(o) + n
      BY <1>1, <1>3, <2>5 DEF Taken
    <3> QED
      BY <1>3, <2>1, <2>4, <2>5, <3>1 DEF Echoed
  <2>7. Follows(buf', Taken(o)) /\ Follows(c2s'[o], Taken(o) + n)
    <3>1. Follows(c2s[o], Taken(o))
      BY <2>3 DEF Intact
    <3> QED
      BY <1>2, <1>3, <1>4, <2>4, <3>1, FollowsCut
  <2> QED
    BY <1>1, <2>1, <2>3, <2>4, <2>6, <2>7 DEF Intact
<1> QED
  BY <1>5, <1>6

(* The answer behind what was sent before. *)
LEMMA AnswerBehind ==
  ASSUME NEW r \in Seq(Bytes), NEW q \in Seq(Bytes), NEW b \in Seq(Bytes), NEW e \in Bytes
  PROVE  r \o (q \o Append(b, e)) = Append((r \o q) \o b, e)
<1>1. Append(b, e) \in Seq(Bytes) /\ Append(b, e) = b \o <<e>> /\ <<e>> \in Seq(Bytes)
  OBVIOUS
<1>2. r \o (q \o Append(b, e)) = (r \o q) \o (b \o <<e>>)
  BY <1>1, ConcatAssociative, SMTT(30)
<1>3. r \o q \in Seq(Bytes)
  BY Concat
<1>4. (r \o q) \o (b \o <<e>>) = ((r \o q) \o b) \o <<e>>
  BY <1>1, <1>3, ConcatAssociative
<1>5. (r \o q) \o b \in Seq(Bytes)
  BY <1>3, Concat
<1>6. ((r \o q) \o b) \o <<e>> = Append((r \o q) \o b, e)
  BY <1>5
<1> QED
  BY <1>2, <1>4, <1>6

LEMMA SendStream ==
  ASSUME Ends, \A c \in Clients : StreamOf(c), Send,
         NEW o \in Clients, conn = o
  PROVE  \A c \in Clients : StreamOf(c)'
<1> USE DEF clientVars
<1>1. /\ conn = o /\ link[o] = "up" /\ NoClient \notin Clients
      /\ buf' = <<>> /\ UNCHANGED <<conn, link, c2s, cl, left, typed, read>>
      /\ s2c' = [s2c EXCEPT ![conn] = IF cl[o] = "done" THEN @ ELSE @ \o Append(buf, Extra)]
  BY SizesAssumption DEF Ends, TypeOK, Server, EndsOf, Send, EchoWith
<1>2. /\ buf \in Seq(Typed) /\ buf \in Seq(Bytes) /\ Len(buf) \in Nat
      /\ read[o] \in Seq(Bytes) /\ s2c[o] \in Seq(Bytes) /\ s2c \in [Clients -> Seq(Bytes)]
      /\ typed[o] \in Nat /\ left[o] \in Nat /\ Len(c2s[o]) \in Nat
      /\ Extra \in {NUL, Beyond} /\ Extra \in Bytes
  BY <1>1, TypedAreBytes DEF Ends, TypeOK, Extra, Bytes, NUL, Beyond
<1>3. ASSUME NEW c \in Clients, c # o
      PROVE  StreamOf(c)'
  <2>1. s2c'[c] = s2c[c]
    BY <1>1, <1>2, <1>3
  <2> QED
    BY <1>1, <1>3, <2>1, SameStream DEF Live, InBuf
<1>4. CASE cl[o] = "done"
  <2>1. s2c'[o] = s2c[o] /\ ~Live(o)'
    BY <1>1, <1>2, <1>4 DEF Live
  <2>2. StreamOf(o)'
    BY <1>1, <2>1, ClosedStream DEF Ends
  <2> QED
    BY <1>3, <2>2
<1>5. CASE cl[o] # "done"
  <2>1. Live(o) /\ InBuf(o) = buf /\ InBuf(o)' = <<>>
    BY <1>1, <1>5 DEF Live, InBuf
  <2>2. Intact(o) /\ InOrder(Whole(o))
    BY <1>1, <2>1 DEF StreamOf
  <2>3. Whole(o)' = Append(Whole(o) \o buf, Extra)
    <3>1. s2c'[o] = s2c[o] \o Append(buf, Extra)
      BY <1>1, <1>2, <1>5
    <3>2. read[o] \o (s2c[o] \o Append(buf, Extra))
            = Append((read[o] \o s2c[o]) \o buf, Extra)
      BY <1>2, AnswerBehind
    <3>3. read'[o] = read[o]
      BY <1>1
    <3> QED
      BY <3>1, <3>2, <3>3, Zenon DEF Whole
  <2>4. Echoed(o) \in Nat /\ Taken(o) = Echoed(o) + Len(buf)
    BY <1>2, <2>1, <2>2 DEF Intact, Echoed, Taken
  <2>5. Taken(o)' = Taken(o) /\ Echoed(o)' = Taken(o)
    <3>1. Taken(o)' = Taken(o)
      BY <1>1 DEF Taken
    <3> QED
      BY <1>2, <2>1, <2>4, <3>1, EmptyBytes DEF Echoed
  <2>6. Whole(o) \in Seq(Bytes) /\ Whole(o) \o buf \in Seq(Bytes)
    BY <1>2, Concat DEF Whole
  <2>7. /\ InOrder(Whole(o) \o buf)
        /\ TypedIn(Elements(Whole(o) \o buf)) = 1 .. Taken(o)
    BY <1>2, <2>1, <2>2, <2>4, <2>6, InOrderMore DEF Intact
  <2>8. InOrder(Whole(o)') /\ TypedIn(Elements(Whole(o)')) = 1 .. Taken(o)
    BY <1>2, <2>3, <2>6, <2>7, InOrderMadeUp
  <2>9. Taken(o) <= typed[o]
    BY <1>2 DEF Taken
  <2>10. Intact(o)'
    <3>1. Follows(<<>>, Taken(o))
      BY EmptyBytes DEF Follows
    <3>2. Follows(c2s'[o], Taken(o))
      BY <1>1, <2>2 DEF Intact
    <3> QED
      BY <1>1, <1>2, <2>1, <2>4, <2>5, <2>8, <3>1, <3>2 DEF Intact
  <2>11. StreamOf(o)'
    <3>1. TypedIn(Elements(Whole(o)')) \subseteq 1 .. typed'[o]
      BY <1>1, <1>2, <2>4, <2>8, <2>9
    <3> QED
      BY <1>1, <2>8, <2>10, <3>1 DEF StreamOf
  <2> QED
    BY <1>3, <2>11
<1> QED
  BY <1>4, <1>5

LEMMA ServerStream ==
  ASSUME Ends, \A c \in Clients : StreamOf(c),
         ServerStart \/ (\E c \in Clients : Accept(c)) \/ Recv \/ Send \/ ServerExit
  PROVE  \A c \in Clients : StreamOf(c)'
<1> USE DEF clientVars
<1>1. CASE ServerStart
  BY <1>1, SameStream DEF ServerStart, Live, InBuf
<1>2. ASSUME NEW c \in Clients, Accept(c)
      PROVE  \A d \in Clients : StreamOf(d)'
  <2>1. /\ buf = <<>> /\ buf' = <<>> /\ link[c] = "backlog" /\ link' = [link EXCEPT ![c] = "up"]
        /\ UNCHANGED <<c2s, s2c, cl, left, typed, read>>
    BY <1>2 DEF Accept, Ends, Server
  <2> SUFFICES ASSUME NEW d \in Clients PROVE StreamOf(d)'
    OBVIOUS
  <2>2. InBuf(d) = <<>> /\ InBuf(d)' = <<>>
    BY <2>1 DEF InBuf
  <2>3. Live(d)' => Live(d)
    BY <2>1 DEF Live, Ends, TypeOK
  <2> QED
    BY <2>1, <2>2, <2>3, SameStream
<1>3. CASE Recv
  BY <1>3, RecvStream, SizesAssumption DEF Ends, TypeOK, Server, Recv
<1>4. CASE Send
  BY <1>4, SendStream, SizesAssumption DEF Ends, TypeOK, Server, Send, EchoWith
<1>5. CASE ServerExit
  <2> SUFFICES ASSUME NEW d \in Clients PROVE StreamOf(d)'
    OBVIOUS
  <2>1. /\ ~Live(d)' /\ s2c'[d] \in {s2c[d], <<>>}
        /\ UNCHANGED <<left, typed, read>>
    BY <1>5 DEF ServerExit, Live
  <2> QED
    BY <2>1, ClosedStream DEF Ends
<1> QED
  BY <1>1, <1>2, <1>3, <1>4, <1>5

(* The other clients' streams are as they were. *)
LEMMA OtherStreams ==
  ASSUME Ends, \A d \in Clients : StreamOf(d), NEW c \in Clients, ClientAction(c),
         NEW d \in Clients, d # c
  PROVE  StreamOf(d)'
<1> USE DEF Ends, TypeOK, ClientGoto
<1>1. /\ cl'[d] = cl[d] /\ left'[d] = left[d] /\ typed'[d] = typed[d] /\ read'[d] = read[d]
      /\ UNCHANGED <<conn, buf>>
  <2>1. CASE SendLine(c)
    BY <2>1 DEF SendLine
  <2>2. CASE RecvReply(c)
    BY <2>2 DEF RecvReply
  <2>3. CASE ~SendLine(c) /\ ~RecvReply(c)
    BY <2>3 DEF ClientAction, Connect, ConnectFails, TypeLine, SendLineFails, RecvReplyEnds,
                Quit, ClientKilled
  <2> QED
    BY <2>1, <2>2, <2>3
<1>2. link'[d] = link[d] /\ c2s'[d] = c2s[d] /\ s2c'[d] = s2c[d]
  <2>1. CASE SendLine(c)
    BY <2>1 DEF SendLine
  <2>2. CASE RecvReply(c)
    BY <2>2 DEF RecvReply
  <2>3. CASE ~SendLine(c) /\ ~RecvReply(c)
    BY <2>3 DEF ClientAction, Connect, ConnectFails, TypeLine, SendLineFails, RecvReplyEnds,
                Quit, ClientKilled
  <2> QED
    BY <2>1, <2>2, <2>3
<1> HIDE DEF Ends, TypeOK
<1> QED
  BY <1>1, <1>2, SameStream DEF Live, InBuf

LEMMA SendLineStream ==
  ASSUME Ends, NEW c \in Clients, StreamOf(c), SendLine(c)
  PROVE  StreamOf(c)'
<1> DEFINE n == Handed(c)
<1>1. /\ n \in 1 .. left[c] /\ left' = [left EXCEPT ![c] = @ - n]
      /\ link[c] # "down" => c2s' = [c2s EXCEPT ![c] = @ \o SubSeq(Unsent(c), 1, n)]
      /\ link[c] = "down" => c2s' = c2s
      /\ UNCHANGED <<srv, conn, buf, link, s2c, typed, read>>
      /\ cl'[c] # "done"
  <2>1. cl[c] = "send" /\ cl'[c] # "done"
    BY DEF SendLine, ClientGoto, Ends, TypeOK
  <2> QED
    BY <2>1, HandedOver DEF Ends
<1> HIDE DEF n
<1>2. /\ c2s[c] \in Seq(Typed) /\ Len(c2s[c]) \in Nat /\ c2s \in [Clients -> Seq(Typed)]
      /\ left[c] \in Nat /\ typed[c] \in Nat /\ left'[c] = left[c] - n /\ n \in Nat
      /\ EndsOf(c)
  BY <1>1 DEF Ends, TypeOK
<1>3. Whole(c)' = Whole(c) /\ InBuf(c)' = InBuf(c)
  BY <1>1 DEF Whole, InBuf
<1>4. CASE link[c] \notin {"backlog", "up"}
  BY <1>1, <1>3, <1>4 DEF StreamOf, Live
<1>5. CASE link[c] \in {"backlog", "up"}
  <2>1. Live(c)
    BY <1>5 DEF Live, SendLine
  <2>2. Intact(c)
    BY <2>1 DEF StreamOf
  <2>3. /\ Unsent(c) \in Seq(Typed) /\ Len(Unsent(c)) = left[c]
        /\ Follows(Unsent(c), typed[c] - left[c]) /\ typed[c] - left[c] \in Nat
    BY <1>2, UnsentType DEF Ends
  <2>4. n \in 0 .. Len(Unsent(c))
    BY <1>1, <1>2, <2>3
  <2>5. /\ SubSeq(Unsent(c), 1, n) \in Seq(Typed) /\ Len(SubSeq(Unsent(c), 1, n)) = n
        /\ Follows(SubSeq(Unsent(c), 1, n), typed[c] - left[c])
    BY <2>3, <2>4, Cut, FollowsCut
  <2>6. c2s'[c] = c2s[c] \o SubSeq(Unsent(c), 1, n)
    BY <1>1, <1>2, <1>5
  <2>7. Taken(c) \in Nat /\ typed[c] - left[c] = Taken(c) + Len(c2s[c]) /\ Follows(c2s[c], Taken(c))
    <3>1. Len(InBuf(c)) \in Nat
      BY EmptyBytes DEF InBuf, Ends, TypeOK
    <3>2. Taken(c) = typed[c] - left[c] - Len(c2s[c]) /\ Taken(c) = Echoed(c) + Len(InBuf(c))
      BY <1>2, <3>1 DEF Taken, Echoed
    <3> QED
      BY <1>2, <2>2, <3>1, <3>2 DEF Intact
  <2>8. Follows(c2s'[c], Taken(c)) /\ Len(c2s'[c]) = Len(c2s[c]) + n
    <3>1. Follows(SubSeq(Unsent(c), 1, n), Taken(c) + Len(c2s[c]))
      BY <2>5, <2>7
    <3>2. ASSUME NEW t \in Seq(Typed), Len(t) = n, Follows(t, Taken(c) + Len(c2s[c])),
                 c2s'[c] = c2s[c] \o t
          PROVE  Follows(c2s'[c], Taken(c)) /\ Len(c2s'[c]) = Len(c2s[c]) + n
      <4>1. Follows(c2s[c] \o t, Taken(c))
        BY <1>2, <2>7, <3>2, FollowsJoin
      <4>2. Len(c2s[c] \o t) = Len(c2s[c]) + Len(t)
        BY <1>2, <3>2, Concat
      <4> QED
        BY <3>2, <4>1, <4>2
    <3> QED
      BY <2>5, <2>6, <3>1, <3>2
  <2>9. Taken(c)' = Taken(c) /\ Echoed(c)' = Echoed(c)
    <3>1. Taken(c)' = Taken(c)
      <4>1. typed'[c] = typed[c] /\ left'[c] = left[c] - n /\ Len(c2s'[c]) = Len(c2s[c]) + n
        BY <1>1, <1>2, <2>8
      <4> QED
        BY <1>2, <4>1 DEF Taken
    <3> QED
      BY <1>3, <3>1 DEF Echoed
  <2> QED
    BY <1>1, <1>3, <2>2, <2>8, <2>9 DEF StreamOf, Intact
<1> QED
  BY <1>4, <1>5

LEMMA ClientStream ==
  ASSUME Ends, NEW c \in Clients, StreamOf(c), ClientAction(c)
  PROVE  StreamOf(c)'
<1> USE DEF ClientGoto
<1>0. /\ cl \in [Clients -> {"off", "prompt", "send", "reply", "done"}]
      /\ link \in [Clients -> {"none", "backlog", "up", "down"}]
      /\ left[c] \in Nat /\ left \in [Clients -> 0 .. MaxInput + 1]
      /\ typed[c] \in Nat /\ typed \in [Clients -> Nat]
      /\ read[c] \in Seq(Bytes) /\ s2c[c] \in Seq(Bytes)
      /\ read \in [Clients -> Seq(Bytes)] /\ s2c \in [Clients -> Seq(Bytes)]
      /\ Len(c2s[c]) \in Nat /\ TypeOK /\ EndsOf(c)
  BY DEF Ends, TypeOK
<1>1. CASE Connect(c)
  <2>1. /\ cl[c] = "off" /\ UNCHANGED <<left, srv, conn, buf, c2s, s2c, typed, read>>
    BY <1>1 DEF Connect
  <2>2. /\ link[c] = "none" /\ conn # c /\ typed[c] = 0 /\ left[c] = 0
        /\ c2s[c] = <<>> /\ s2c[c] = <<>> /\ read[c] = <<>>
    BY <1>0, <2>1 DEF EndsOf
  <2>3. InBuf(c)' = <<>> /\ Whole(c)' = <<>>
    BY <2>1, <2>2 DEF InBuf, Whole
  <2>4. Taken(c)' = 0 /\ Echoed(c)' = 0
    <3>1. typed'[c] = 0 /\ left'[c] = 0 /\ Len(c2s'[c]) = 0 /\ Len(InBuf(c)') = 0
      BY <2>1, <2>2, <2>3, EmptyBytes
    <3>2. Taken(c)' = 0
      BY <3>1 DEF Taken
    <3> QED
      BY <3>1, <3>2 DEF Echoed
  <2>5. InOrder(<<>>) /\ TypedIn(Elements(<<>>)) = {}
    BY EmptyBytes DEF InOrder, TypedIn, Elements
  <2>6. Follows(<<>>, 0)
    BY EmptyBytes DEF Follows
  <2> QED
    BY <2>1, <2>2, <2>3, <2>4, <2>5, <2>6 DEF StreamOf, Intact
<1>2. CASE ConnectFails(c)
  BY <1>0, <1>2, ClosedStream DEF ConnectFails, Live
<1>3. ASSUME NEW k \in 1 .. MaxInput, TypeLine(c, k)
      PROVE  StreamOf(c)'
  <2>1. /\ cl[c] = "prompt" /\ cl'[c] = "send" /\ left'[c] = k + 1
        /\ typed'[c] = typed[c] + k + 1 /\ left[c] = 0 /\ k \in Nat
        /\ UNCHANGED <<srv, conn, buf, link, c2s, s2c, read>>
    BY <1>0, <1>3 DEF TypeLine, EndsOf
  <2>2. Whole(c)' = Whole(c) /\ InBuf(c)' = InBuf(c) /\ Live(c)' = Live(c)
    BY <2>1 DEF Whole, InBuf, Live
  <2>3. Taken(c)' = Taken(c) /\ Echoed(c)' = Echoed(c)
    <3>1. Taken(c)' = Taken(c)
      BY <1>0, <2>1 DEF Taken
    <3> QED
      BY <2>2, <3>1 DEF Echoed
  <2>4. 1 .. typed[c] \subseteq 1 .. typed'[c]
    BY <1>0, <2>1
  <2> QED
    BY <2>1, <2>2, <2>3, <2>4 DEF StreamOf, Intact
<1>4. CASE SendLine(c)
  BY <1>4, SendLineStream
<1>5. CASE SendLineFails(c)
  BY <1>0, <1>5, ClosedStream DEF SendLineFails, Live
<1>6. CASE RecvReply(c)
  <2>1. PICK n \in 1 .. BufSize :
          /\ n <= Len(s2c[c])
          /\ read' = [read EXCEPT ![c] = @ \o SubSeq(s2c[c], 1, n)]
          /\ s2c' = [s2c EXCEPT ![c] = SubSeq(@, n + 1, Len(@))]
    BY <1>6 DEF RecvReply
  <2>2. /\ read'[c] = read[c] \o SubSeq(s2c[c], 1, n)
        /\ s2c'[c] = SubSeq(s2c[c], n + 1, Len(s2c[c]))
        /\ n \in 0 .. Len(s2c[c])
    BY <1>0, <2>1
  <2>3. Whole(c)' = Whole(c)
    <3>1. (read[c] \o SubSeq(s2c[c], 1, n)) \o SubSeq(s2c[c], n + 1, Len(s2c[c])) = read[c] \o s2c[c]
      BY <1>0, <2>2, CutAndJoin
    <3> QED
      BY <2>2, <3>1, Zenon DEF Whole
  <2>4. /\ UNCHANGED <<left, srv, conn, buf, link, c2s, typed>>
        /\ Live(c)' => Live(c)
    BY <1>0, <1>6 DEF RecvReply, Live
  <2>5. InBuf(c)' = InBuf(c) /\ Taken(c)' = Taken(c) /\ Echoed(c)' = Echoed(c)
    BY <2>4 DEF InBuf, Taken, Echoed
  <2> QED
    BY <2>3, <2>4, <2>5 DEF StreamOf, Intact
<1>7. CASE RecvReplyEnds(c)
  BY <1>0, <1>7, SameStream DEF RecvReplyEnds, Live, InBuf
<1>8. CASE Quit(c)
  BY <1>0, <1>8, ClosedStream DEF Quit, Live
<1>9. CASE ClientKilled(c)
  BY <1>0, <1>9, ClosedStream DEF ClientKilled, Live
<1> QED
  BY <1>1, <1>2, <1>3, <1>4, <1>5, <1>6, <1>7, <1>8, <1>9 DEF ClientAction

-----------------------------------------------------------------------------
LEMMA NextIs ==
  Next => \/ ServerStart \/ (\E c \in Clients : Accept(c)) \/ Recv \/ Send \/ ServerExit
          \/ \E c \in Clients : ClientAction(c)
  BY DEF Next, ServerStep, ClientStep, Environment, RecvEnds, SendFails, ServerKilled, ClientAction

LEMMA Inductive == IInv /\ [Next]_vars => IInv'
<1> SUFFICES ASSUME IInv, [Next]_vars PROVE IInv'
  OBVIOUS
<1>1. Ends /\ \A c \in Clients : StreamOf(c)
  BY DEF IInv, Ends
<1>2. CASE ServerStart \/ (\E c \in Clients : Accept(c)) \/ Recv \/ Send \/ ServerExit
  BY <1>1, <1>2, ServerEndsStep, ServerStream DEF IInv, Ends
<1>3. ASSUME NEW c \in Clients, ClientAction(c)
      PROVE  IInv'
  <2>1. Ends'
    BY <1>1, <1>3, ClientEndsStep
  <2>2. \A d \in Clients : StreamOf(d)'
    BY <1>1, <1>3, ClientStream, OtherStreams
  <2> QED
    BY <2>1, <2>2 DEF IInv, Ends
<1>4. CASE UNCHANGED vars
  <2> USE <1>4 DEF vars
  <2>1. Ends'
    BY <1>1 DEF Ends, TypeOK, Server, EndsOf
  <2>2. \A d \in Clients : StreamOf(d)'
    BY <1>1, SameStream DEF Live, InBuf
  <2> QED
    BY <2>1, <2>2 DEF IInv, Ends
<1> QED
  BY <1>2, <1>3, <1>4, NextIs

LEMMA Invariant == Spec => []IInv
  BY Initially, Inductive, PTL DEF Spec

(* The invariant puts the parts of the stream end to end. *)
LEMMA StreamInOrder == IInv => EchoInOrder
<1> SUFFICES ASSUME IInv, NEW c \in Clients
    PROVE  /\ InOrder(read[c]) /\ TypedIn(Elements(read[c])) \subseteq 1 .. typed[c]
           /\ Live(c) => LET stream == read[c] \o s2c[c] \o InBuf(c) \o c2s[c] \o Unsent(c)
                         IN  InOrder(stream) /\ TypedIn(Elements(stream)) = 1 .. typed[c]
  BY DEF EchoInOrder, Live
<1>1. /\ read[c] \in Seq(Bytes) /\ s2c[c] \in Seq(Bytes)
      /\ c2s[c] \in Seq(Typed) /\ c2s[c] \in Seq(Bytes) /\ Len(c2s[c]) \in Nat
      /\ InBuf(c) \in Seq(Typed) /\ InBuf(c) \in Seq(Bytes) /\ Len(InBuf(c)) \in Nat
      /\ typed[c] \in Nat /\ left[c] \in Nat /\ StreamOf(c)
  <2>1. InBuf(c) \in Seq(Typed)
    BY EmptyBytes DEF IInv, TypeOK, InBuf
  <2> QED
    BY <2>1, TypedAreBytes DEF IInv, TypeOK
<1>2. /\ Unsent(c) \in Seq(Typed) /\ Unsent(c) \in Seq(Bytes) /\ Len(Unsent(c)) = left[c]
      /\ Follows(Unsent(c), typed[c] - left[c])
  BY UnsentType, TypedAreBytes DEF IInv
<1>3. InOrder(read[c]) /\ TypedIn(Elements(read[c])) \subseteq 1 .. typed[c]
  BY <1>1, InOrderPrefix DEF StreamOf, Whole
<1>4. ASSUME Live(c)
      PROVE  LET stream == Whole(c) \o InBuf(c) \o c2s[c] \o Unsent(c)
             IN  InOrder(stream) /\ TypedIn(Elements(stream)) = 1 .. typed[c]
  <2>1. InOrder(Whole(c)) /\ Intact(c) /\ Whole(c) \in Seq(Bytes)
    BY <1>1, <1>4, Concat DEF StreamOf, Whole
  <2>2. Echoed(c) \in Nat /\ TypedIn(Elements(Whole(c))) = 1 .. Echoed(c)
    BY <2>1 DEF Intact
  <2>3. /\ Taken(c) \in Int /\ Taken(c) + Len(c2s[c]) = typed[c] - left[c]
        /\ Taken(c) = Echoed(c) + Len(InBuf(c))
    <3>1. Taken(c) \in Int /\ Taken(c) + Len(c2s[c]) = typed[c] - left[c]
      BY <1>1 DEF Taken
    <3> QED
      BY <1>1, <3>1 DEF Echoed
  <2>4. /\ Follows(InBuf(c), Echoed(c))
        /\ Follows(c2s[c], Echoed(c) + Len(InBuf(c)))
        /\ Follows(Unsent(c), Echoed(c) + Len(InBuf(c)) + Len(c2s[c]))
    BY <1>2, <2>1, <2>3 DEF Intact
  <2>5. Echoed(c) + Len(InBuf(c)) + Len(c2s[c]) + Len(Unsent(c)) = typed[c]
    BY <1>1, <1>2, <2>3
  <2>6. ASSUME NEW w, w = Whole(c), NEW m, m = Echoed(c), NEW b, b = InBuf(c),
               NEW q, q = c2s[c], NEW u, u = Unsent(c)
        PROVE  /\ InOrder(w \o b \o q \o u)
               /\ TypedIn(Elements(w \o b \o q \o u)) = 1 .. typed[c]
    <3>1. /\ w \in Seq(Bytes) /\ InOrder(w) /\ m \in Nat /\ TypedIn(Elements(w)) = 1 .. m
          /\ b \in Seq(Bytes) /\ q \in Seq(Bytes) /\ u \in Seq(Bytes)
          /\ Follows(b, m) /\ Follows(q, m + Len(b)) /\ Follows(u, m + Len(b) + Len(q))
      BY <1>1, <1>2, <2>1, <2>2, <2>4, <2>6
    <3>2. /\ InOrder(w \o b \o q \o u)
          /\ TypedIn(Elements(w \o b \o q \o u)) = 1 .. m + Len(b) + Len(q) + Len(u)
      BY ONLY <3>1, InOrderAll
    <3> QED
      BY <2>5, <2>6, <3>2
  <2> QED
    BY <2>6
<1> QED
  BY <1>3, <1>4 DEF Whole

(* Every variable keeps its type: buf is never filled beyond its size, nor  *)
(* are the kernel's buffers.                                                *)
THEOREM TypesHold == Spec => []TypeOK
  BY Invariant, PTL DEF IInv

(* The client reads what was typed, in order, and of a connection that      *)
(* lasts no byte is lost or doubled, however TCP cuts the stream.           *)
THEOREM EchoKeepsOrder == Spec => []EchoInOrder
  BY Invariant, StreamInOrder, PTL

-----------------------------------------------------------------------------
(* The two programs never wait for each other while an answer is due.       *)

(* The last byte of a line its client has not taken an answer to. *)
DueUnread(c) ==
  cl[c] \in {"send", "reply"} => typed[c] > 0 /\ typed[c] \notin Elements(read[c])

AnswersDue == \A c \in Clients : DueUnread(c)

(* The answer is in the client's recv, or the server's recv has bytes of    *)
(* the line, or its send has room: one of the two programs can go on.       *)
OneGoesOn(c) ==
  \/ s2c[c] # <<>>
  \/ srv = "recv" /\ c2s[c] # <<>>
  \/ srv = "send" /\ ~SendBlocked(c)

NeverBothWait == \A c \in Clients : cl[c] = "reply" /\ link[c] = "up" => OneGoesOn(c)

LEMMA DueStep ==
  ASSUME IInv, AnswersDue, [Next]_vars
  PROVE  AnswersDue'
<1> SUFFICES ASSUME NEW c \in Clients PROVE DueUnread(c)'
  BY DEF AnswersDue
<1> USE DEF AnswersDue
<1>0. /\ cl \in [Clients -> {"off", "prompt", "send", "reply", "done"}]
      /\ typed \in [Clients -> Nat] /\ TypedIn(Elements(read[c])) \subseteq 1 .. typed[c]
  <2>1. InOrder(read[c]) /\ TypedIn(Elements(read[c])) \subseteq 1 .. typed[c]
    BY StreamInOrder DEF EchoInOrder
  <2> QED
    BY <2>1 DEF IInv, TypeOK
<1>1. CASE UNCHANGED <<cl, typed, read>>
  BY <1>1 DEF DueUnread
<1>2. ASSUME NEW d \in Clients, NEW k \in 1 .. MaxInput, TypeLine(d, k)
      PROVE  DueUnread(c)'
  <2>1. UNCHANGED read /\ (d # c => cl'[c] = cl[c] /\ typed'[c] = typed[c])
    BY <1>0, <1>2 DEF TypeLine, ClientGoto
  <2>2. CASE d = c
    <3>1. typed'[c] = typed[c] + k + 1 /\ typed[c] \in Nat /\ k \in Nat
      BY <1>0, <1>2, <2>2 DEF TypeLine
    <3>2. typed'[c] \notin 1 .. typed[c] /\ typed'[c] > 0 /\ typed'[c] # 0 /\ typed'[c] # -1
      BY <3>1
    <3> QED
      BY <1>0, <2>1, <3>2 DEF DueUnread, TypedIn, NUL, Beyond
  <2> QED
    BY <2>1, <2>2 DEF DueUnread
<1>3. ASSUME NEW d \in Clients, SendLine(d)
      PROVE  DueUnread(c)'
  BY <1>0, <1>3 DEF SendLine, ClientGoto, DueUnread
<1>4. ASSUME NEW d \in Clients,
             \/ Connect(d) \/ ConnectFails(d) \/ SendLineFails(d)
             \/ RecvReplyEnds(d) \/ Quit(d) \/ ClientKilled(d)
      PROVE  DueUnread(c)'
  BY <1>0, <1>4 DEF Connect, ConnectFails, SendLineFails, RecvReplyEnds, Quit, ClientKilled,
                    ClientGoto, DueUnread
<1>5. ASSUME NEW d \in Clients, RecvReply(d)
      PROVE  DueUnread(c)'
  <2>1. cl'[d] = "prompt" /\ UNCHANGED typed /\ (d # c => cl'[c] = cl[c])
    BY <1>0, <1>5 DEF RecvReply, ClientGoto
  <2>2. d # c => read'[c] = read[c]
    BY <1>5 DEF RecvReply, IInv, TypeOK
  <2> QED
    BY <2>1, <2>2 DEF DueUnread
<1>6. CASE ServerStart \/ (\E d \in Clients : Accept(d)) \/ Recv \/ Send \/ ServerExit
  BY <1>1, <1>6 DEF ServerStart, Accept, Recv, Send, EchoWith, ServerExit, clientVars
<1>7. CASE \E d \in Clients : ClientAction(d)
  BY <1>2, <1>3, <1>4, <1>5, <1>7 DEF ClientAction
<1> QED
  BY <1>1, <1>6, <1>7, NextIs DEF vars

LEMMA DueInvariant == Spec => [](IInv /\ AnswersDue)
<1>1. Init => AnswersDue
  BY DEF Init, AnswersDue, DueUnread
<1>2. IInv /\ AnswersDue /\ [Next]_vars => AnswersDue'
  BY DueStep
<1> QED
  BY <1>1, <1>2, Invariant, PTL DEF Spec

(* With nothing on its way to the server and nothing in buf, all that was   *)
(* typed has been echoed, and what of it is not read is on its way.         *)
LEMMA AnswerIsSomewhere ==
  ASSUME IInv, NEW c \in Clients, DueUnread(c), cl[c] = "reply", link[c] = "up"
  PROVE  OneGoesOn(c)
<1>1. /\ Live(c) /\ conn = c /\ srv \in {"recv", "send"} /\ left[c] = 0 /\ Intact(c)
      /\ typed[c] \in Nat /\ typed[c] > 0 /\ typed[c] \notin Elements(read[c])
      /\ read[c] \in Seq(Bytes) /\ s2c[c] \in Seq(Bytes)
      /\ Len(buf) \in Nat /\ Len(buf) <= BufSize
  <2>1. TypeOK /\ Server /\ EndsOf(c) /\ StreamOf(c)
    BY DEF IInv
  <2>2. Live(c) /\ conn = c /\ srv \in {"recv", "send"}
    BY <2>1, SizesAssumption DEF Server, EndsOf, Live
  <2>3. left[c] = 0
    BY <2>1 DEF EndsOf, TypeOK
  <2>4. Intact(c)
    BY <2>1, <2>2 DEF StreamOf
  <2>5. /\ typed[c] \in Nat /\ read[c] \in Seq(Bytes) /\ s2c[c] \in Seq(Bytes)
        /\ Len(buf) \in Nat /\ Len(buf) <= BufSize
    BY <2>1 DEF TypeOK
  <2>6. typed[c] > 0 /\ typed[c] \notin Elements(read[c])
    BY DEF DueUnread
  <2> QED
    BY <2>2, <2>3, <2>4, <2>5, <2>6
<1>2. ASSUME s2c[c] = <<>> PROVE buf # <<>> \/ c2s[c] # <<>>
  <2> SUFFICES ASSUME buf = <<>>, c2s[c] = <<>> PROVE FALSE
    OBVIOUS
  <2>1. Whole(c) = read[c]
    BY <1>1, <1>2, NoMore DEF Whole
  <2>2. Echoed(c) = typed[c]
    <3>1. Taken(c) = typed[c]
      BY <1>1, EmptyBytes DEF Taken
    <3> QED
      BY <1>1, <3>1, EmptyBytes DEF Echoed, InBuf
  <2>3. TypedIn(Elements(read[c])) = 1 .. typed[c]
    BY <1>1, <2>1, <2>2 DEF Intact
  <2> QED
    BY <1>1, <2>3 DEF TypedIn
<1>3. CASE s2c[c] = <<>> /\ srv = "send"
  <2>1. Len(s2c[c]) = 0
    BY <1>3, EmptyBytes
  <2> QED
    BY <1>1, <1>3, <2>1, SizesAssumption DEF OneGoesOn, SendBlocked
<1>4. CASE s2c[c] = <<>> /\ srv = "recv"
  BY <1>2, <1>4 DEF OneGoesOn, IInv, Server
<1> QED
  BY <1>1, <1>3, <1>4 DEF OneGoesOn

(* A client that waits for its answer is never left with a server that      *)
(* waits too, whatever sizes the lines, the buffers and the kernel's room   *)
(* have: the safety half of AnswerComes.                                    *)
THEOREM NoMutualWait == Spec => []NeverBothWait
<1>1. IInv /\ AnswersDue => NeverBothWait
  BY AnswerIsSomewhere DEF NeverBothWait, AnswersDue
<1> QED
  BY <1>1, DueInvariant, PTL

-----------------------------------------------------------------------------
(* A client in send is stuck in one way only.                               *)

SendsSomething == \A c \in Clients : cl[c] = "send" => left[c] > 0

(* The client waits for the server to recv, which is in a send that waits   *)
(* for the client to take the answers before it.                            *)
EachInSend(c) == Len(c2s[c]) = InRoom /\ SendBlocked(c) /\ s2c[c] # <<>>

(* The kernel takes more of the line, or the server goes on, or neither can *)
(* for the one reason there is.                                             *)
StuckInSendOnly ==
  \A c \in Clients : cl[c] = "send" /\ link[c] = "up" =>
    /\ left[c] > 0
    /\ \/ Len(c2s[c]) < InRoom
       \/ srv = "recv" /\ c2s[c] # <<>>
       \/ srv = "send" /\ ~SendBlocked(c)
       \/ EachInSend(c)

LEMMA SendsStep ==
  ASSUME IInv, SendsSomething, [Next]_vars
  PROVE  SendsSomething'
<1> SUFFICES ASSUME NEW c \in Clients, cl'[c] = "send" PROVE left'[c] > 0
  BY DEF SendsSomething
<1>0. /\ cl \in [Clients -> {"off", "prompt", "send", "reply", "done"}]
      /\ left \in [Clients -> 0 .. MaxInput + 1] /\ (cl[c] = "send" => left[c] > 0)
  BY DEF IInv, TypeOK, SendsSomething
<1>1. CASE UNCHANGED <<cl, left>>
  BY <1>0, <1>1
<1>2. ASSUME NEW d \in Clients, NEW k \in 1 .. MaxInput, TypeLine(d, k)
      PROVE  left'[c] > 0
  BY <1>0, <1>2 DEF TypeLine, ClientGoto
<1>3. ASSUME NEW d \in Clients, SendLine(d)
      PROVE  left'[c] > 0
  <2>1. CASE d = c
    <3>1. EndsOf(c) /\ TypeOK
      BY DEF IInv
    <3>2. /\ Handed(c) \in 1 .. left[c] /\ left'[c] = left[c] - Handed(c)
      BY <1>0, <1>3, <2>1, <3>1, HandedOver
    <3>3. Handed(c) # left[c]
      BY <1>0, <1>3, <2>1 DEF SendLine, Handed, ClientGoto
    <3> QED
      BY <1>0, <3>2, <3>3
  <2>2. CASE d # c
    BY <1>0, <1>3, <2>2 DEF SendLine, ClientGoto
  <2> QED
    BY <2>1, <2>2
<1>4. ASSUME NEW d \in Clients,
             \/ Connect(d) \/ ConnectFails(d) \/ SendLineFails(d) \/ RecvReply(d)
             \/ RecvReplyEnds(d) \/ Quit(d) \/ ClientKilled(d)
      PROVE  left'[c] > 0
  BY <1>0, <1>4 DEF Connect, ConnectFails, SendLineFails, RecvReply, RecvReplyEnds, Quit,
                    ClientKilled, ClientGoto
<1>5. CASE ServerStart \/ (\E d \in Clients : Accept(d)) \/ Recv \/ Send \/ ServerExit
  BY <1>1, <1>5 DEF ServerStart, Accept, Recv, Send, EchoWith, ServerExit, clientVars
<1>6. CASE \E d \in Clients : ClientAction(d)
  BY <1>2, <1>3, <1>4, <1>6 DEF ClientAction
<1> QED
  BY <1>1, <1>5, <1>6, NextIs DEF vars

LEMMA SenderIsStuck ==
  ASSUME IInv, NEW c \in Clients, link[c] = "up", ~(Len(c2s[c]) < InRoom),
         ~(srv = "recv" /\ c2s[c] # <<>>), ~(srv = "send" /\ ~SendBlocked(c))
  PROVE  EachInSend(c)
<1>1. /\ conn = c /\ srv \in {"recv", "send"} /\ Len(c2s[c]) \in Nat /\ Len(c2s[c]) <= InRoom
      /\ Len(s2c[c]) \in Nat /\ Len(buf) \in Nat /\ Len(buf) <= BufSize
  BY SizesAssumption DEF IInv, TypeOK, Server, EndsOf
<1>2. Len(c2s[c]) = InRoom /\ c2s[c] # <<>>
  BY <1>1, EmptyBytes, SizesAssumption
<1>3. SendBlocked(c)
  BY <1>1, <1>2
<1>4. Len(s2c[c]) > 0
  BY <1>1, <1>3, SizesAssumption DEF SendBlocked
<1> QED
  BY <1>2, <1>3, <1>4, EmptyBytes DEF EachInSend

(* A served client in send has bytes to hand over, and unless the answers   *)
(* it has not read fill what the kernel takes, it or the server can go on:  *)
(* the safety half of the rest of AnswerComes.                              *)
THEOREM SendWaitsForSend == Spec => []StuckInSendOnly
<1>1. Init => SendsSomething
  BY DEF Init, SendsSomething
<1>2. IInv /\ SendsSomething /\ [Next]_vars => SendsSomething'
  BY SendsStep
<1>3. IInv /\ SendsSomething => StuckInSendOnly
  BY SenderIsStuck DEF SendsSomething, StuckInSendOnly
<1> QED
  BY <1>1, <1>2, <1>3, Invariant, PTL DEF Spec
=============================================================================
