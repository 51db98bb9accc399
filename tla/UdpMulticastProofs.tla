-------------------------- MODULE UdpMulticastProofs --------------------------
(***************************************************************************)
(* Proofs about UdpMulticast for any finite sets of servers and clients:   *)
(* what is under way is bounded by what the first messages, which go to    *)
(* the group, put there.                                                   *)
(***************************************************************************)
EXTENDS UdpMulticast, FiniteSetTheorems, TLAPS

(* A client sends to the group once: whoever got an answer has its sender   *)
(* as the address, and errors come only of messages to such an address.     *)
GroupOnce ==
  \A c \in Clients :
    /\ cl[c] = "off" => caddr[c] = Group
    /\ cliErr[c] > 0 => caddr[c] # Group
    /\ \A s \in Servers : toSrv[<<s, c, "own">>] > 0 => caddr[c] # Group

IInv == TypeOK /\ GroupOnce /\ NoStorm

Sending == {s \in Servers : srv[s] = "send"}
Following == {c \in Clients : cl[c] = "send" /\ caddr[c] # Group}
Pairs == Clients \X Servers
Triples == Servers \X Clients \X Ways

-----------------------------------------------------------------------------
(* Counting what is under way. *)

LEMMA KeysFinite == IsFiniteSet(Pairs) /\ IsFiniteSet(Triples)
<1>1. IsFiniteSet(Ways)
  <2>1. Ways = ({} \cup {"group"}) \cup {"own"}
    BY DEF Ways
  <2> QED
    BY <2>1, FS_EmptySet, FS_AddElement
<1>2. IsFiniteSet(Pairs)
  BY FiniteAssumption, FS_Product DEF Pairs
<1>3. IsFiniteSet((Servers \X Clients) \X Ways)
  BY <1>1, FiniteAssumption, FS_Product
<1> DEFINE f == [p \in (Servers \X Clients) \X Ways |-> <<p[1][1], p[1][2], p[2]>>]
<1>4. f \in Surjection((Servers \X Clients) \X Ways, Triples)
  <2>1. f \in [(Servers \X Clients) \X Ways -> Triples]
    BY DEF Triples
  <2>2. ASSUME NEW t \in Triples
        PROVE  \E p \in (Servers \X Clients) \X Ways : f[p] = t
    <3>1. PICK s \in Servers, c \in Clients, w \in Ways : t = <<s, c, w>>
      BY DEF Triples
    <3>2. <<<<s, c>>, w>> \in (Servers \X Clients) \X Ways
      OBVIOUS
    <3>3. f[<<<<s, c>>, w>>] = t
      BY <3>1, <3>2
    <3> QED
      BY <3>2, <3>3
  <2> QED
    BY <2>1, <2>2 DEF Surjection
<1> HIDE DEF f
<1>5. IsFiniteSet(Triples)
  BY <1>3, <1>4, FS_Surjection
<1> QED
  BY <1>2, <1>5

LEMMA UnitsIn ==
  ASSUME NEW D, NEW n \in [D -> Nat]
  PROVE  /\ \A k \in D, i \in Nat : <<k, i>> \in Units(n) <=> i \in 1 .. n[k]
         /\ \A u \in Units(n) : \E k \in D, i \in Nat : i \in 1 .. n[k] /\ u = <<k, i>>
  BY DEF Units

LEMMA UnitsFinite ==
  ASSUME NEW D, IsFiniteSet(D), NEW n \in [D -> Nat]
  PROVE  IsFiniteSet(Units(n)) /\ Total(n) \in Nat
<1> DEFINE T == {{k} \X (1 .. n[k]) : k \in D}
<1> DEFINE f == [k \in D |-> {k} \X (1 .. n[k])]
<1>1. f \in Surjection(D, T)
  BY DEF Surjection
<1>2. IsFiniteSet(T)
  <2> HIDE DEF f, T
  <2> QED
    BY <1>1, FS_Surjection
<1>3. \A x \in T : IsFiniteSet(x)
  <2> SUFFICES ASSUME NEW k \in D PROVE IsFiniteSet({k} \X (1 .. n[k]))
    OBVIOUS
  <2>1. IsFiniteSet({k}) /\ IsFiniteSet(1 .. n[k])
    <3>1. n[k] \in Int /\ 1 \in Int
      OBVIOUS
    <3> QED
      BY <3>1, FS_Singleton, FS_Interval
  <2> QED
    BY <2>1, FS_Product
<1>4. IsFiniteSet(UNION T)
  <2> HIDE DEF T
  <2> QED
    BY <1>2, <1>3, FS_UNION
<1>5. Units(n) = UNION T
  BY DEF Units
<1> QED
  BY <1>4, <1>5, FS_CardinalityType DEF Total

LEMMA TotalPlus ==
  ASSUME NEW D, IsFiniteSet(D), NEW n \in [D -> Nat], NEW k \in D
  PROVE  Plus(n, k) \in [D -> Nat] /\ Total(Plus(n, k)) = Total(n) + 1
<1> DEFINE m == Plus(n, k)  u == <<k, n[k] + 1>>
<1>1. m \in [D -> Nat] /\ m[k] = n[k] + 1 /\ \A q \in D : q # k => m[q] = n[q]
  BY DEF Plus
<1>2. IsFiniteSet(Units(n)) /\ u \notin Units(n)
  BY UnitsFinite, UnitsIn
<1>3. Units(m) = Units(n) \cup {u}
  <2> HIDE DEF m
  <2>1. ASSUME NEW x \in Units(m) PROVE x \in Units(n) \cup {u}
    <3>1. PICK q \in D, i \in Nat : i \in 1 .. m[q] /\ x = <<q, i>>
      BY <1>1, UnitsIn
    <3>2. CASE q = k
      BY <1>1, <3>1, <3>2, UnitsIn
    <3>3. CASE q # k
      BY <1>1, <3>1, <3>3, UnitsIn
    <3> QED
      BY <3>2, <3>3
  <2>2. ASSUME NEW x \in Units(n) PROVE x \in Units(m)
    <3>1. PICK q \in D, i \in Nat : i \in 1 .. n[q] /\ x = <<q, i>>
      BY UnitsIn
    <3>2. i \in 1 .. m[q]
      BY <1>1, <3>1
    <3> QED
      BY <1>1, <3>1, <3>2, UnitsIn
  <2>3. u \in Units(m)
    BY <1>1, UnitsIn
  <2> QED
    BY <2>1, <2>2, <2>3
<1>4. Cardinality(Units(m)) = Cardinality(Units(n)) + 1
  <2> HIDE DEF m, u
  <2> QED
    BY <1>2, <1>3, FS_AddElement
<1> QED
  BY <1>1, <1>4 DEF Total

LEMMA TotalMinus ==
  ASSUME NEW D, IsFiniteSet(D), NEW n \in [D -> Nat], NEW k \in D, n[k] > 0
  PROVE  Minus(n, k) \in [D -> Nat] /\ Total(Minus(n, k)) = Total(n) - 1
<1> DEFINE m == Minus(n, k)
<1>1. m \in [D -> Nat] /\ m[k] = n[k] - 1 /\ \A q \in D : q # k => m[q] = n[q]
  BY DEF Minus
<1>2. Plus(m, k) = n
  <2>1. /\ Plus(m, k) = [q \in D |-> IF q = k THEN m[k] + 1 ELSE m[q]]
        /\ n = [q \in D |-> n[q]]
    BY <1>1 DEF Plus
  <2> HIDE DEF m
  <2> QED
    BY <1>1, <2>1
<1> HIDE DEF m
<1>3. Total(n) = Total(m) + 1 /\ Total(m) \in Nat
  BY <1>1, <1>2, TotalPlus, UnitsFinite
<1> QED
  BY <1>1, <1>3 DEF m

(* To set an entry to zero takes units away. *)
LEMMA TotalClear ==
  ASSUME NEW D, IsFiniteSet(D), NEW n \in [D -> Nat], NEW k \in D
  PROVE  [n EXCEPT ![k] = 0] \in [D -> Nat] /\ Total([n EXCEPT ![k] = 0]) <= Total(n)
<1> DEFINE m == [n EXCEPT ![k] = 0]
<1>1. m \in [D -> Nat] /\ \A q \in D : m[q] <= n[q]
  OBVIOUS
<1> HIDE DEF m
<1>2. ASSUME NEW x \in Units(m) PROVE x \in Units(n)
  <2>1. PICK q \in D, i \in Nat : i \in 1 .. m[q] /\ x = <<q, i>>
    BY <1>1, UnitsIn
  <2>2. i \in 1 .. n[q]
    BY <1>1, <2>1
  <2> QED
    BY <2>1, <2>2, UnitsIn
<1>3. Total(m) <= Total(n)
  BY <1>2, UnitsFinite, FS_Subset DEF Total
<1> QED
  BY <1>1, <1>3 DEF m

LEMMA TotalOfZero ==
  ASSUME NEW D
  PROVE  [k \in D |-> 0] \in [D -> Nat] /\ Total([k \in D |-> 0]) = 0
<1> DEFINE n == [k \in D |-> 0]
<1>1. n \in [D -> Nat] /\ \A k \in D : 1 .. n[k] = {}
  OBVIOUS
<1> HIDE DEF n
<1>2. Units(n) = {}
  BY <1>1, UnitsIn
<1> QED
  BY <1>1, <1>2, FS_EmptySet DEF Total, n

(* To add one to each entry of a set adds as many units as the set has members. *)
LEMMA TotalMore ==
  ASSUME NEW D, IsFiniteSet(D), NEW n \in [D -> Nat], NEW S \in SUBSET D, NEW m,
         m = [k \in D |-> IF k \in S THEN n[k] + 1 ELSE n[k]]
  PROVE  m \in [D -> Nat] /\ Total(m) = Total(n) + Cardinality(S)
<1> DEFINE New == {<<k, n[k] + 1>> : k \in S}
<1>1. /\ m \in [D -> Nat]
      /\ \A k \in D : m[k] = IF k \in S THEN n[k] + 1 ELSE n[k]
  OBVIOUS
<1>2. IsFiniteSet(S) /\ Cardinality(S) \in Nat
  BY FS_Subset, FS_CardinalityType
<1>3. IsFiniteSet(New) /\ Cardinality(New) = Cardinality(S)
  <2> DEFINE f == [k \in S |-> <<k, n[k] + 1>>]
  <2>1. f \in Bijection(S, New)
    BY DEF Bijection, Injection, Surjection, IsInjective
  <2>2. ExistsBijection(S, New)
    <3> HIDE DEF f, New
    <3> QED
      BY <2>1 DEF ExistsBijection
  <2> QED
    <3> HIDE DEF f, New
    <3> QED
      BY <1>2, <2>2, FS_Bijection
<1>4. Units(n) \cap New = {}
  <2> SUFFICES ASSUME NEW k \in S, <<k, n[k] + 1>> \in Units(n) PROVE FALSE
    OBVIOUS
  <2>1. n[k] \in Nat /\ k \in D
    OBVIOUS
  <2> QED
    BY <2>1, UnitsIn
<1>5. Units(m) = Units(n) \cup New
  <2>1. ASSUME NEW x \in Units(m) PROVE x \in Units(n) \cup New
    <3>1. PICK q \in D, i \in Nat : i \in 1 .. m[q] /\ x = <<q, i>>
      BY <1>1, UnitsIn
    <3>2. CASE i \in 1 .. n[q]
      BY <3>1, <3>2, UnitsIn
    <3>3. CASE i \notin 1 .. n[q]
      <4>1. q \in S /\ i = n[q] + 1
        BY <1>1, <3>1, <3>3
      <4> QED
        BY <3>1, <4>1
    <3> QED
      BY <3>2, <3>3
  <2>2. ASSUME NEW x \in Units(n) PROVE x \in Units(m)
    <3>1. PICK q \in D, i \in Nat : i \in 1 .. n[q] /\ x = <<q, i>>
      BY UnitsIn
    <3>2. i \in 1 .. m[q]
      BY <1>1, <3>1
    <3> QED
      BY <1>1, <3>1, <3>2, UnitsIn
  <2>3. ASSUME NEW k \in S PROVE <<k, n[k] + 1>> \in Units(m)
    <3>1. k \in D /\ n[k] + 1 \in Nat /\ n[k] + 1 \in 1 .. m[k]
      BY <1>1
    <3> QED
      BY <1>1, <3>1, UnitsIn
  <2> QED
    BY <2>1, <2>2, <2>3
<1>6. Cardinality(Units(m)) = Cardinality(Units(n)) + Cardinality(S)
  <2>1. IsFiniteSet(Units(n)) /\ Cardinality(Units(n)) \in Nat
    BY UnitsFinite, FS_CardinalityType
  <2> HIDE DEF New
  <2> QED
    <3>1. Cardinality(Units(n) \cap New) = 0
      BY <1>4, FS_EmptySet
    <3>2. Cardinality(Units(n) \cup New)
            = Cardinality(Units(n)) + Cardinality(New) - Cardinality(Units(n) \cap New)
      BY <1>3, <2>1, FS_Union
    <3>3. Cardinality(Units(m)) = Cardinality(Units(n)) + Cardinality(New) - 0
      BY <1>5, <3>1, <3>2, Zenon
    <3> QED
      BY <1>2, <1>3, <2>1, <3>3
<1> QED
  BY <1>1, <1>6 DEF Total

-----------------------------------------------------------------------------
(* Types, and the group as a first address only. *)

LEMMA Initially == Init => IInv
<1> SUFFICES ASSUME Init PROVE IInv
  OBVIOUS
<1> USE DEF Init
<1>1. /\ toSrv \in [Triples -> Nat] /\ Total(toSrv) = 0
      /\ toCli \in [Pairs -> Nat] /\ Total(toCli) = 0
      /\ srvErr \in [Servers -> Nat] /\ Total(srvErr) = 0
      /\ cliErr \in [Clients -> Nat] /\ Total(cliErr) = 0
  BY TotalOfZero DEF Triples, Pairs
<1>2. TypeOK
  BY <1>1 DEF TypeOK, Triples, Pairs
<1>3. GroupOnce
  <2>1. \A c \in Clients : cliErr[c] = 0 /\ \A s \in Servers : toSrv[<<s, c, "own">>] = 0
    BY DEF Ways
  <2> QED
    BY <2>1 DEF GroupOnce
<1>4. Sending = {} /\ Following = {} /\ Started = {}
  BY DEF Sending, Following, Started
<1>5. Activity = 0
  <2>1. Activity = Total(toSrv) + Total(toCli) + Total(srvErr) + Total(cliErr)
                     + Cardinality(Sending) + Cardinality(Following)
    BY DEF Activity, Sending, Following
  <2> QED
    BY <1>1, <1>4, <2>1, FS_EmptySet
<1>6. NoStorm
  BY <1>4, <1>5, FS_EmptySet, FS_CardinalityType, FiniteAssumption DEF NoStorm
<1> QED
  BY <1>2, <1>3, <1>6 DEF IInv

LEMMA PlusAt ==
  ASSUME NEW D, NEW n \in [D -> Nat], NEW k \in D
  PROVE  /\ Plus(n, k) \in [D -> Nat]
         /\ \A q \in D : Plus(n, k)[q] = IF q = k THEN n[q] + 1 ELSE n[q]
  BY DEF Plus

LEMMA MinusAt ==
  ASSUME NEW D, NEW n \in [D -> Nat], NEW k \in D, n[k] > 0
  PROVE  /\ Minus(n, k) \in [D -> Nat]
         /\ \A q \in D : Minus(n, k)[q] > 0 => n[q] > 0
  BY DEF Minus

LEMMA TypesStep ==
  ASSUME TypeOK, GroupOnce, [Next]_vars
  PROVE  TypeOK' /\ GroupOnce'
<1> USE NamesAssumption DEF TypeOK, serverVars, clientVars, net
<1>1. ASSUME NEW s \in Servers, ServerStart(s)
      PROVE  TypeOK' /\ GroupOnce'
  BY <1>1 DEF ServerStart, GroupOnce
<1>2. ASSUME NEW s \in Servers, NEW c \in Clients, Recv(s, c)
      PROVE  TypeOK' /\ GroupOnce'
  <2>1. PICK way \in Ways : toSrv[<<s, c, way>>] > 0 /\ toSrv' = Minus(toSrv, <<s, c, way>>)
    BY <1>2 DEF Recv
  <2>2. /\ toSrv' \in [Servers \X Clients \X Ways -> Nat]
        /\ \A q \in Servers \X Clients \X Ways : toSrv'[q] > 0 => toSrv[q] > 0
    <3>1. <<s, c, way>> \in Servers \X Clients \X Ways
      OBVIOUS
    <3> QED
      BY <2>1, <3>1, MinusAt
  <2>3. TypeOK'
    BY <1>2, <2>2 DEF Recv
  <2>4. \A q \in Servers, d \in Clients : toSrv'[<<q, d, "own">>] > 0 => toSrv[<<q, d, "own">>] > 0
    BY <2>2 DEF Ways
  <2>5. GroupOnce'
    BY <1>2, <2>4 DEF Recv, GroupOnce
  <2> QED
    BY <2>3, <2>5
<1>3. ASSUME NEW s \in Servers, RecvError(s)
      PROVE  TypeOK' /\ GroupOnce'
  <2>1. srvErr' \in [Servers -> Nat]
    BY <1>3, MinusAt DEF RecvError
  <2>2. TypeOK'
    BY <1>3, <2>1 DEF RecvError
  <2>3. GroupOnce'
    BY <1>3 DEF RecvError, GroupOnce
  <2> QED
    BY <2>2, <2>3
<1>4. ASSUME NEW s \in Servers, Send(s)
      PROVE  TypeOK' /\ GroupOnce'
  <2>1. toCli' \in [Clients \X Servers -> Nat]
    <3>1. CASE saddr[s] = AnyAddress
      BY <1>4, <3>1 DEF Send
    <3>2. CASE saddr[s] # AnyAddress
      <4>1. <<saddr[s], s>> \in Clients \X Servers
        BY <3>2
      <4> QED
        BY <1>4, <3>2, <4>1, PlusAt DEF Send
    <3> QED
      BY <3>1, <3>2
  <2>2. TypeOK'
    BY <1>4, <2>1 DEF Send
  <2>3. GroupOnce'
    BY <1>4 DEF Send, GroupOnce
  <2> QED
    BY <2>2, <2>3
<1>5. ASSUME NEW s \in Servers, ServerKilled(s)
      PROVE  TypeOK' /\ GroupOnce'
  BY <1>5 DEF ServerKilled, GroupOnce
<1>6. ASSUME NEW c \in Clients, Start(c)
      PROVE  TypeOK' /\ GroupOnce'
  BY <1>6 DEF Start, GroupOnce
<1>7. ASSUME NEW c \in Clients, SendMessage(c)
      PROVE  TypeOK' /\ GroupOnce'
  <2>1. TypeOK'
    BY <1>7 DEF SendMessage
  <2>2. GroupOnce'
    BY <1>7 DEF SendMessage, Destinations, GroupOnce, Ways
  <2> QED
    BY <2>1, <2>2
<1>8. ASSUME NEW c \in Clients, NEW s \in Servers, RecvAnswer(c, s)
      PROVE  TypeOK' /\ GroupOnce'
  <2>1. toCli' \in [Clients \X Servers -> Nat]
    BY <1>8, MinusAt DEF RecvAnswer, Answered
  <2>2. TypeOK'
    BY <1>8, <2>1 DEF RecvAnswer, Answered
  <2>3. GroupOnce'
    BY <1>8 DEF RecvAnswer, Answered, GroupOnce
  <2> QED
    BY <2>2, <2>3
<1>9. ASSUME NEW c \in Clients, RecvAnswerError(c)
      PROVE  TypeOK' /\ GroupOnce'
  <2>1. cliErr' \in [Clients -> Nat] /\ \A d \in Clients : cliErr'[d] > 0 => cliErr[d] > 0
    BY <1>9, MinusAt DEF RecvAnswerError
  <2>2. TypeOK'
    BY <1>9, <2>1 DEF RecvAnswerError
  <2>3. GroupOnce'
    BY <1>9, <2>1 DEF RecvAnswerError, GroupOnce
  <2> QED
    BY <2>2, <2>3
<1>10. ASSUME NEW c \in Clients, ClientKilled(c)
       PROVE  TypeOK' /\ GroupOnce'
  <2>1. TypeOK'
    BY <1>10 DEF ClientKilled
  <2>2. GroupOnce'
    BY <1>10 DEF ClientKilled, GroupOnce
  <2> QED
    BY <2>1, <2>2
<1>11. ASSUME Lose
       PROVE  TypeOK' /\ GroupOnce'
  <2>1. TypeOK'
    BY <1>11 DEF Lose, Minus
  <2>2. GroupOnce'
    BY <1>11 DEF Lose, Minus, GroupOnce, Ways
  <2> QED
    BY <2>1, <2>2
<1>12. ASSUME NEW s \in Servers, NEW c \in Clients, ServerUnreachable(s, c)
       PROVE  TypeOK' /\ GroupOnce'
  <2>1. <<s, c, "own">> \in Servers \X Clients \X Ways
    BY DEF Ways
  <2>2. /\ toSrv' \in [Servers \X Clients \X Ways -> Nat]
        /\ \A q \in Servers \X Clients \X Ways : toSrv'[q] > 0 => toSrv[q] > 0
    BY <1>12, <2>1, MinusAt DEF ServerUnreachable
  <2>3. cliErr' \in [Clients -> Nat] /\ \A d \in Clients : d # c => cliErr'[d] = cliErr[d]
    BY <1>12, PlusAt DEF ServerUnreachable
  <2>4. TypeOK'
    BY <1>12, <2>2, <2>3 DEF ServerUnreachable
  <2>5. \A q \in Servers, d \in Clients : toSrv'[<<q, d, "own">>] > 0 => toSrv[<<q, d, "own">>] > 0
    BY <2>2 DEF Ways
  <2>6. GroupOnce'
    BY <1>12, <2>3, <2>5 DEF ServerUnreachable, GroupOnce
  <2> QED
    BY <2>4, <2>6
<1>13. ASSUME NEW s \in Servers, NEW c \in Clients, ClientUnreachable(c, s)
       PROVE  TypeOK' /\ GroupOnce'
  <2>1. toCli' \in [Clients \X Servers -> Nat]
    BY <1>13, MinusAt DEF ClientUnreachable
  <2>2. srvErr' \in [Servers -> Nat]
    BY <1>13, PlusAt DEF ClientUnreachable
  <2>3. TypeOK'
    BY <1>13, <2>1, <2>2 DEF ClientUnreachable
  <2>4. GroupOnce'
    BY <1>13 DEF ClientUnreachable, GroupOnce
  <2> QED
    BY <2>3, <2>4
<1>14. CASE UNCHANGED vars
  BY <1>14 DEF vars, GroupOnce
<1> HIDE DEF TypeOK
<1> QED
  BY <1>1, <1>2, <1>3, <1>4, <1>5, <1>6, <1>7, <1>8, <1>9, <1>10, <1>11, <1>12, <1>13, <1>14
     DEF Next, ServerStep, ClientStep, Network, Environment

-----------------------------------------------------------------------------
(* What each step adds to the activity. *)

LEMMA SetGrows ==
  ASSUME NEW S, IsFiniteSet(S), NEW x, NEW T \in SUBSET (S \cup {x})
  PROVE  Cardinality(T) \in Nat /\ Cardinality(T) <= Cardinality(S) + 1
<1>1. /\ IsFiniteSet(S \cup {x}) /\ Cardinality(S) \in Nat
      /\ Cardinality(S \cup {x}) \in Nat /\ Cardinality(S \cup {x}) <= Cardinality(S) + 1
  BY FS_AddElement, FS_CardinalityType
<1> QED
  BY <1>1, FS_Subset, FS_CardinalityType

LEMMA SetShrinks ==
  ASSUME NEW S, IsFiniteSet(S), NEW x \in S, NEW T \in SUBSET (S \ {x})
  PROVE  Cardinality(T) \in Nat /\ Cardinality(T) <= Cardinality(S) - 1
<1>1. /\ IsFiniteSet(S \ {x}) /\ Cardinality(S \ {x}) \in Nat
      /\ Cardinality(S \ {x}) = Cardinality(S) - 1
  BY FS_RemoveElement, FS_CardinalityType
<1> QED
  BY <1>1, FS_Subset, FS_CardinalityType

LEMMA SetStays ==
  ASSUME NEW S, IsFiniteSet(S), NEW T \in SUBSET S
  PROVE  Cardinality(T) \in Nat /\ Cardinality(T) <= Cardinality(S)
  BY FS_Subset, FS_CardinalityType

LEMMA Counted ==
  ASSUME TypeOK
  PROVE  /\ toSrv \in [Triples -> Nat] /\ Total(toSrv) \in Nat
         /\ toCli \in [Pairs -> Nat] /\ Total(toCli) \in Nat
         /\ srvErr \in [Servers -> Nat] /\ Total(srvErr) \in Nat
         /\ cliErr \in [Clients -> Nat] /\ Total(cliErr) \in Nat
         /\ IsFiniteSet(Sending) /\ Cardinality(Sending) \in Nat
         /\ IsFiniteSet(Following) /\ Cardinality(Following) \in Nat
         /\ IsFiniteSet(Started) /\ Cardinality(Started) \in Nat
<1>1. /\ toSrv \in [Triples -> Nat] /\ toCli \in [Pairs -> Nat]
      /\ srvErr \in [Servers -> Nat] /\ cliErr \in [Clients -> Nat]
  BY DEF TypeOK, Triples, Pairs
<1>2. Total(toSrv) \in Nat /\ Total(toCli) \in Nat /\ Total(srvErr) \in Nat /\ Total(cliErr) \in Nat
  BY <1>1, KeysFinite, FiniteAssumption, UnitsFinite
<1>3. Sending \in SUBSET Servers /\ Following \in SUBSET Clients /\ Started \in SUBSET Clients
  BY DEF Sending, Following, Started
<1>4. /\ IsFiniteSet(Sending) /\ Cardinality(Sending) \in Nat
      /\ IsFiniteSet(Following) /\ Cardinality(Following) \in Nat
      /\ IsFiniteSet(Started) /\ Cardinality(Started) \in Nat
  BY <1>3, FiniteAssumption, FS_Subset, FS_CardinalityType
<1> QED
  BY <1>1, <1>2, <1>4

(* Activity in the names used here. *)
LEMMA ActivityIs ==
  Activity = Total(toSrv) + Total(toCli) + Total(srvErr) + Total(cliErr)
               + Cardinality(Sending) + Cardinality(Following)
  BY DEF Activity, Sending, Following

LEMMA ActivityWillBe ==
  Activity' = Total(toSrv') + Total(toCli') + Total(srvErr') + Total(cliErr')
                + Cardinality(Sending') + Cardinality(Following')
  BY DEF Activity, Sending, Following

LEMMA ActivityType ==
  /\ TypeOK => Activity \in Int
  /\ TypeOK' => (Activity \in Int)'
<1>1. TypeOK => Activity \in Int
  BY Counted, ActivityIs
<1> QED
  BY <1>1, PTL

LEMMA ServerBalance ==
  ASSUME TypeOK, NEW s \in Servers,
         \/ ServerStart(s) \/ (\E c \in Clients : Recv(s, c)) \/ RecvError(s)
         \/ Send(s) \/ ServerKilled(s)
  PROVE  Activity' <= Activity /\ Started \subseteq Started'
<1> USE Counted, ActivityIs, ActivityWillBe DEF clientVars, net
<1>1. Following' = Following /\ Started' = Started /\ cliErr' = cliErr
  BY DEF ServerStart, Recv, RecvError, Send, ServerKilled, Following, Started
<1>2. CASE ServerStart(s)
  <2>1. Sending' \in SUBSET Sending
    BY <1>2 DEF ServerStart, Sending, TypeOK
  <2>2. Cardinality(Sending') \in Nat /\ Cardinality(Sending') <= Cardinality(Sending)
    BY <2>1, SetStays
  <2>3. UNCHANGED <<toSrv, toCli, srvErr>>
    BY <1>2 DEF ServerStart
  <2> QED
    BY <1>1, <2>2, <2>3
<1>3. CASE \E c \in Clients : Recv(s, c)
  <2>1. PICK c \in Clients : Recv(s, c)
    BY <1>3
  <2>2. PICK way \in Ways : toSrv[<<s, c, way>>] > 0 /\ toSrv' = Minus(toSrv, <<s, c, way>>)
    BY <2>1 DEF Recv
  <2>3. <<s, c, way>> \in Triples
    BY DEF Triples
  <2>4. Total(toSrv') = Total(toSrv) - 1
    BY <2>2, <2>3, KeysFinite, TotalMinus
  <2>5. Sending' \in SUBSET (Sending \cup {s})
    BY <2>1 DEF Recv, Sending, TypeOK
  <2>6. Cardinality(Sending') \in Nat /\ Cardinality(Sending') <= Cardinality(Sending) + 1
    BY <2>5, SetGrows
  <2>7. UNCHANGED <<toCli, srvErr>>
    BY <2>1 DEF Recv
  <2> QED
    BY <1>1, <2>4, <2>6, <2>7
<1>4. CASE RecvError(s)
  <2>1. Total(srvErr') = Total(srvErr) - 1
    BY <1>4, FiniteAssumption, TotalMinus DEF RecvError
  <2>2. Sending' \in SUBSET (Sending \cup {s})
    BY <1>4 DEF RecvError, Sending, TypeOK
  <2>3. Cardinality(Sending') \in Nat /\ Cardinality(Sending') <= Cardinality(Sending) + 1
    BY <2>2, SetGrows
  <2>4. UNCHANGED <<toSrv, toCli>>
    BY <1>4 DEF RecvError
  <2> QED
    BY <1>1, <2>1, <2>3, <2>4
<1>5. CASE Send(s)
  <2>1. Total(toCli') \in Nat /\ Total(toCli') <= Total(toCli) + 1
    <3>1. CASE saddr[s] = AnyAddress
      BY <1>5, <3>1 DEF Send
    <3>2. CASE saddr[s] # AnyAddress
      <4>1. <<saddr[s], s>> \in Pairs
        BY <3>2 DEF TypeOK, Pairs
      <4>2. Total(toCli') = Total(toCli) + 1
        BY <1>5, <3>2, <4>1, KeysFinite, TotalPlus DEF Send
      <4> QED
        BY <4>2
    <3> QED
      BY <3>1, <3>2
  <2>2. s \in Sending /\ Sending' \in SUBSET (Sending \ {s})
    BY <1>5 DEF Send, Sending, TypeOK
  <2>3. Cardinality(Sending') \in Nat /\ Cardinality(Sending') <= Cardinality(Sending) - 1
    BY <2>2, SetShrinks
  <2>4. UNCHANGED <<toSrv, srvErr>>
    BY <1>5 DEF Send
  <2> QED
    BY <1>1, <2>1, <2>3, <2>4
<1>6. CASE ServerKilled(s)
  <2>1. srvErr' \in [Servers -> Nat] /\ Total(srvErr') <= Total(srvErr)
    BY <1>6, FiniteAssumption, TotalClear DEF ServerKilled
  <2>2. Total(srvErr') \in Nat
    BY <2>1, FiniteAssumption, UnitsFinite
  <2>3. Sending' \in SUBSET Sending
    BY <1>6 DEF ServerKilled, Sending, TypeOK
  <2>4. Cardinality(Sending') \in Nat /\ Cardinality(Sending') <= Cardinality(Sending)
    BY <2>3, SetStays
  <2>5. UNCHANGED <<toSrv, toCli>>
    BY <1>6 DEF ServerKilled
  <2> QED
    BY <1>1, <2>1, <2>2, <2>4, <2>5
<1> QED
  BY <1>2, <1>3, <1>4, <1>5, <1>6

(* A client that does not send its first message now. *)
LEMMA ClientBalance ==
  ASSUME TypeOK, GroupOnce, NEW c \in Clients,
         \/ Start(c) \/ (SendMessage(c) /\ caddr[c] # Group)
         \/ (\E s \in Servers : RecvAnswer(c, s)) \/ RecvAnswerError(c) \/ ClientKilled(c)
  PROVE  Activity' <= Activity /\ Started \subseteq Started'
<1> USE Counted, ActivityIs, ActivityWillBe, NamesAssumption DEF serverVars, net
<1>1. Sending' = Sending /\ srvErr' = srvErr
  BY DEF Start, SendMessage, RecvAnswer, Answered, RecvAnswerError, ClientKilled, Sending
<1>2. CASE Start(c)
  <2>1. Following' \in SUBSET Following /\ Started \subseteq Started'
    BY <1>2 DEF Start, Following, Started, TypeOK, GroupOnce
  <2>2. Cardinality(Following') \in Nat /\ Cardinality(Following') <= Cardinality(Following)
    BY <2>1, SetStays
  <2>3. UNCHANGED <<toSrv, toCli, cliErr>>
    BY <1>2 DEF Start
  <2> QED
    BY <1>1, <2>1, <2>2, <2>3
<1>3. CASE SendMessage(c) /\ caddr[c] # Group
  <2>1. /\ Destinations(c) = {<<caddr[c], c, "own">>}
        /\ Destinations(c) \in SUBSET Triples
    BY <1>3 DEF Destinations, TypeOK, Triples, Ways
  <2>2. Total(toSrv') = Total(toSrv) + Cardinality(Destinations(c))
    <3>1. toSrv' = [p \in Triples |-> IF p \in Destinations(c) THEN toSrv[p] + 1 ELSE toSrv[p]]
      BY <1>3 DEF SendMessage
    <3> QED
      BY <2>1, <3>1, KeysFinite, TotalMore
  <2>3. Cardinality(Destinations(c)) = 1
    BY <2>1, FS_Singleton
  <2>4. /\ c \in Following /\ Following' \in SUBSET (Following \ {c})
        /\ Started \subseteq Started'
    BY <1>3 DEF SendMessage, Following, Started, TypeOK
  <2>5. Cardinality(Following') \in Nat /\ Cardinality(Following') <= Cardinality(Following) - 1
    BY <2>4, SetShrinks
  <2>6. UNCHANGED <<toCli, cliErr>>
    BY <1>3 DEF SendMessage
  <2> QED
    BY <1>1, <2>2, <2>3, <2>4, <2>5, <2>6
<1>4. CASE \E s \in Servers : RecvAnswer(c, s)
  <2>1. PICK s \in Servers : RecvAnswer(c, s)
    BY <1>4
  <2>2. <<c, s>> \in Pairs
    BY DEF Pairs
  <2>3. Total(toCli') = Total(toCli) - 1
    BY <2>1, <2>2, KeysFinite, TotalMinus DEF RecvAnswer, Answered
  <2>4. Following' \in SUBSET (Following \cup {c}) /\ Started \subseteq Started'
    BY <2>1 DEF RecvAnswer, Answered, Following, Started, TypeOK
  <2>5. Cardinality(Following') \in Nat /\ Cardinality(Following') <= Cardinality(Following) + 1
    BY <2>4, SetGrows
  <2>6. UNCHANGED <<toSrv, cliErr>>
    BY <2>1 DEF RecvAnswer, Answered
  <2> QED
    BY <1>1, <2>3, <2>4, <2>5, <2>6
<1>5. CASE RecvAnswerError(c)
  <2>1. Total(cliErr') = Total(cliErr) - 1
    BY <1>5, FiniteAssumption, TotalMinus DEF RecvAnswerError
  <2>2. Following' \in SUBSET (Following \cup {c}) /\ Started \subseteq Started'
    BY <1>5 DEF RecvAnswerError, Following, Started, TypeOK, GroupOnce
  <2>3. Cardinality(Following') \in Nat /\ Cardinality(Following') <= Cardinality(Following) + 1
    BY <2>2, SetGrows
  <2>4. UNCHANGED <<toSrv, toCli>>
    BY <1>5 DEF RecvAnswerError
  <2> QED
    BY <1>1, <2>1, <2>2, <2>3, <2>4
<1>6. CASE ClientKilled(c)
  <2>1. cliErr' \in [Clients -> Nat] /\ Total(cliErr') <= Total(cliErr)
    BY <1>6, FiniteAssumption, TotalClear DEF ClientKilled
  <2>2. Total(cliErr') \in Nat
    BY <2>1, FiniteAssumption, UnitsFinite
  <2>3. Following' \in SUBSET Following /\ Started \subseteq Started'
    BY <1>6 DEF ClientKilled, Following, Started, TypeOK
  <2>4. Cardinality(Following') \in Nat /\ Cardinality(Following') <= Cardinality(Following)
    BY <2>3, SetStays
  <2>5. UNCHANGED <<toSrv, toCli>>
    BY <1>6 DEF ClientKilled
  <2> QED
    BY <1>1, <2>1, <2>2, <2>3, <2>4, <2>5
<1> QED
  BY <1>2, <1>3, <1>4, <1>5, <1>6

LEMMA NetworkBalance ==
  ASSUME TypeOK, Network
  PROVE  Activity' <= Activity /\ Started \subseteq Started'
<1> USE Counted, ActivityIs, ActivityWillBe DEF serverVars, clientVars
<1>1. Sending' = Sending /\ Following' = Following /\ Started' = Started
  BY DEF Network, Lose, ServerUnreachable, ClientUnreachable, Sending, Following, Started
<1>2. CASE Lose
  <2>1. CASE \E p \in DOMAIN toSrv : toSrv[p] > 0 /\ toSrv' = Minus(toSrv, p) /\ UNCHANGED toCli
    <3>1. PICK p \in Triples : toSrv[p] > 0 /\ toSrv' = Minus(toSrv, p) /\ UNCHANGED toCli
      BY <2>1
    <3>2. Total(toSrv') = Total(toSrv) - 1
      BY <3>1, KeysFinite, TotalMinus
    <3> QED
      BY <1>1, <1>2, <3>1, <3>2 DEF Lose
  <2>2. CASE \E p \in DOMAIN toCli : toCli[p] > 0 /\ toCli' = Minus(toCli, p) /\ UNCHANGED toSrv
    <3>1. PICK p \in Pairs : toCli[p] > 0 /\ toCli' = Minus(toCli, p) /\ UNCHANGED toSrv
      BY <2>2
    <3>2. Total(toCli') = Total(toCli) - 1
      BY <3>1, KeysFinite, TotalMinus
    <3> QED
      BY <1>1, <1>2, <3>1, <3>2 DEF Lose
  <2> QED
    BY <1>2, <2>1, <2>2 DEF Lose
<1>3. ASSUME NEW s \in Servers, NEW c \in Clients, ServerUnreachable(s, c)
      PROVE  Activity' <= Activity
  <2>1. <<s, c, "own">> \in Triples
    BY DEF Triples, Ways
  <2>2. Total(toSrv') = Total(toSrv) - 1
    BY <1>3, <2>1, KeysFinite, TotalMinus DEF ServerUnreachable
  <2>3. Total(cliErr') = Total(cliErr) \/ Total(cliErr') = Total(cliErr) + 1
    BY <1>3, FiniteAssumption, TotalPlus DEF ServerUnreachable
  <2>4. UNCHANGED <<toCli, srvErr>>
    BY <1>3 DEF ServerUnreachable
  <2> QED
    BY <1>1, <2>2, <2>3, <2>4
<1>4. ASSUME NEW s \in Servers, NEW c \in Clients, ClientUnreachable(c, s)
      PROVE  Activity' <= Activity
  <2>1. <<c, s>> \in Pairs
    BY DEF Pairs
  <2>2. Total(toCli') = Total(toCli) - 1
    BY <1>4, <2>1, KeysFinite, TotalMinus DEF ClientUnreachable
  <2>3. Total(srvErr') = Total(srvErr) \/ Total(srvErr') = Total(srvErr) + 1
    BY <1>4, FiniteAssumption, TotalPlus DEF ClientUnreachable
  <2>4. UNCHANGED <<toSrv, cliErr>>
    BY <1>4 DEF ClientUnreachable
  <2> QED
    BY <1>1, <2>2, <2>3, <2>4
<1> QED
  BY <1>1, <1>2, <1>3, <1>4 DEF Network

(* The first message adds a datagram for each server that is up, and the    *)
(* client has started with it.                                              *)
LEMMA FirstMessage ==
  ASSUME TypeOK, NEW c \in Clients, SendMessage(c), caddr[c] = Group
  PROVE  /\ Activity' <= Activity + Cardinality(Servers)
         /\ c \notin Started /\ Started' = Started \cup {c}
<1> USE Counted, ActivityIs, ActivityWillBe DEF serverVars
<1> DEFINE Up == {s \in Servers : srv[s] # "off"}
           f == [s \in Up |-> <<s, c, "group">>]
<1>1. Destinations(c) = {<<s, c, "group">> : s \in Up} /\ Destinations(c) \in SUBSET Triples
  BY DEF Destinations, Triples, Ways
<1>2. /\ IsFiniteSet(Up) /\ Cardinality(Up) <= Cardinality(Servers)
      /\ Cardinality(Up) \in Nat /\ Cardinality(Servers) \in Nat
  BY FiniteAssumption, FS_Subset, FS_CardinalityType
<1>3. Cardinality(Destinations(c)) \in Nat /\ Cardinality(Destinations(c)) <= Cardinality(Up)
  <2>1. f \in Surjection(Up, Destinations(c))
    BY <1>1 DEF Surjection
  <2> HIDE DEF f, Up
  <2> QED
    BY <1>2, <2>1, FS_Surjection, FS_CardinalityType
<1>4. Total(toSrv') = Total(toSrv) + Cardinality(Destinations(c))
  <2>1. toSrv' = [p \in Triples |-> IF p \in Destinations(c) THEN toSrv[p] + 1 ELSE toSrv[p]]
    BY DEF SendMessage
  <2> QED
    BY <1>1, <2>1, KeysFinite, TotalMore
<1>5. /\ Following' = Following /\ Sending' = Sending
      /\ UNCHANGED <<toCli, srvErr, cliErr>>
  BY DEF SendMessage, Following, Sending, TypeOK
<1>6. c \notin Started /\ Started' = Started \cup {c}
  BY DEF SendMessage, Started, TypeOK
<1> QED
  <2> HIDE DEF Up
  <2> QED
    BY <1>2, <1>3, <1>4, <1>5, <1>6

SendsFirst(c) == SendMessage(c) /\ caddr[c] = Group

LEMMA Balance ==
  ASSUME TypeOK, GroupOnce, [Next]_vars, \A c \in Clients : ~SendsFirst(c)
  PROVE  Activity' <= Activity /\ Started \subseteq Started'
<1>1. CASE UNCHANGED vars
  BY <1>1, Counted, ActivityIs, ActivityWillBe DEF vars, Sending, Following, Started
<1>2. CASE Next
  BY <1>2, ServerBalance, ClientBalance, NetworkBalance
     DEF Next, ServerStep, ClientStep, Environment, SendsFirst
<1> QED
  BY <1>1, <1>2

LEMMA Product ==
  ASSUME NEW n \in Nat, NEW k \in Nat
  PROVE  /\ n * k \in Nat /\ n * (k + 1) = n * k + n
         /\ \A l \in Nat : k <= l => n * k <= n * l
  OBVIOUS

LEMMA NoStormStep ==
  ASSUME IInv, [Next]_vars, TypeOK'
  PROVE  NoStorm'
<1> DEFINE N == Cardinality(Servers)
           k == Cardinality(Started)
           l == Cardinality(Started')
<1>1. N \in Nat /\ k \in Nat /\ IsFiniteSet(Started)
  BY FiniteAssumption, FS_CardinalityType, Counted DEF IInv
<1>2. l \in Nat /\ IsFiniteSet(Started')
  BY FiniteAssumption, FS_Subset, FS_CardinalityType DEF Started
<1>3. Activity \in Int /\ Activity' \in Int
  BY ActivityType DEF IInv
<1>4. Activity <= N * k /\ N * k \in Nat /\ N * l \in Nat
  BY <1>1, <1>2, Product DEF IInv, NoStorm
<1>5. CASE \A c \in Clients : ~SendsFirst(c)
  <2>1. Activity' <= Activity /\ Started \subseteq Started'
    BY <1>5, Balance DEF IInv
  <2>2. k <= l
    BY <1>2, <2>1, FS_Subset
  <2>3. N * k <= N * l
    BY <1>1, <1>2, <2>2, Product
  <2>4. Activity' <= N * l
    <3> HIDE DEF N, k, l
    <3> QED
      BY <1>3, <1>4, <2>1, <2>3
  <2> QED
    BY <2>4 DEF NoStorm
<1>6. ASSUME NEW c \in Clients, SendsFirst(c)
      PROVE  NoStorm'
  <2>1. /\ Activity' <= Activity + N
        /\ c \notin Started /\ Started' = Started \cup {c}
    BY <1>6, FirstMessage DEF IInv, SendsFirst
  <2>2. l = k + 1
    BY <1>1, <2>1, FS_AddElement
  <2>3. N * l = N * k + N
    BY <1>1, <2>2, Product
  <2>4. Activity' <= N * l
    <3> HIDE DEF N, k, l
    <3> QED
      BY <1>1, <1>3, <1>4, <2>1, <2>3
  <2> QED
    BY <2>4 DEF NoStorm
<1> QED
  BY <1>5, <1>6

LEMMA Inductive == IInv /\ [Next]_vars => IInv'
  BY TypesStep, NoStormStep DEF IInv

LEMMA Invariant == Spec => []IInv
  BY Initially, Inductive, PTL DEF Spec

-----------------------------------------------------------------------------
(* Every variable keeps its type; no datagram or error is taken that is not *)
(* there.                                                                   *)
THEOREM TypesHold == Spec => []TypeOK
  BY Invariant, PTL DEF IInv

(* Two loops that answer each other never multiply what they send, with any *)
(* number of servers and clients.                                           *)
THEOREM StormNeverComes == Spec => []NoStorm
  BY Invariant, PTL DEF IInv

(* Only a first message, which goes to the group, adds to what is under     *)
(* way; answers, errors, deaths and restarts never do.                      *)
THEOREM OnlyFirstMessagesAdd ==
  Spec => [][Activity' > Activity => \E c \in Clients : SendsFirst(c)]_vars
<1>1. IInv /\ [Next]_vars => [Activity' > Activity => \E c \in Clients : SendsFirst(c)]_vars
  <2> SUFFICES ASSUME IInv, [Next]_vars, Activity' > Activity, \A c \in Clients : ~SendsFirst(c)
               PROVE  FALSE
    OBVIOUS
  <2>1. Activity' <= Activity
    BY Balance DEF IInv
  <2>2. Activity \in Int /\ Activity' \in Int
    BY TypesStep, ActivityType DEF IInv
  <2> QED
    BY <2>1, <2>2
<1> QED
  BY <1>1, Invariant, PTL DEF Spec
=============================================================================
