-------------------------- MODULE DisplayStateProofs --------------------------
(***************************************************************************)
(* What a peer reads and shows of a player's displays, for any forms,      *)
(* slots, attachments and poses and any number of displays.                *)
(***************************************************************************)
EXTENDS DisplayState, FunctionTheorems, FiniteSetTheorems, SequenceTheorems,
        WellFoundedInduction, TLAPS

-----------------------------------------------------------------------------
(* The elements of a sequence at a set of indices.                         *)

\* The number of indices of a sequence.
LEMMA IntervalFacts ==
  ASSUME NEW n \in Nat
  PROVE  IsFiniteSet(1..n) /\ Cardinality(1..n) = n
<1>1. Cardinality(1..n) = IF 1 > n THEN 0 ELSE n - 1 + 1
  BY FS_Interval
<1>2. IsFiniteSet(1..n)
  BY FS_Interval
<1> QED
  BY <1>1, <1>2

\* The indices up to one of them are numbered without gaps, in order.
LEMMA RankFacts ==
  ASSUME NEW m \in Nat, NEW K \in SUBSET (1..m)
  PROVE  /\ IsFiniteSet(K) /\ Cardinality(K) \in Nat
         /\ \A i \in K : Rank(K, i) \in 1..Cardinality(K)
         /\ \A i, k \in K : i < k => Rank(K, i) < Rank(K, k)
         /\ \A n \in 1..Cardinality(K) : \E i \in K : Rank(K, i) = n
<1>1. IsFiniteSet(K) /\ Cardinality(K) \in Nat
  BY IntervalFacts, FS_Subset, FS_CardinalityType
<1> DEFINE Below(i) == {j \in K : j <= i}
<1>2. \A i \in K : IsFiniteSet(Below(i)) /\ Cardinality(Below(i)) \in Nat
                     /\ Cardinality(Below(i)) <= Cardinality(K)
  BY <1>1, FS_Subset, FS_CardinalityType
<1>3. \A i \in K : Rank(K, i) \in 1..Cardinality(K)
  <2> SUFFICES ASSUME NEW i \in K PROVE Rank(K, i) \in 1..Cardinality(K)
    OBVIOUS
  <2>1. i \in Below(i)
    OBVIOUS
  <2>2. Cardinality(Below(i)) # 0
    BY <2>1, <1>2, FS_EmptySet
  <2> QED
    BY <2>2, <1>1, <1>2 DEF Rank
<1>4. ASSUME NEW i \in K, NEW k \in K, i < k PROVE Rank(K, i) < Rank(K, k)
  <2>1. Below(i) \in SUBSET Below(k)
    <3> SUFFICES ASSUME NEW j \in K, j <= i PROVE j <= k
      OBVIOUS
    <3> QED
      BY <1>4
  <2>2. k \in Below(k) /\ k \notin Below(i)
    BY <1>4
  <2>3. Cardinality(Below(i)) <= Cardinality(Below(k))
    BY <2>1, <1>2, FS_Subset
  <2>4. Cardinality(Below(i)) # Cardinality(Below(k))
    BY <2>1, <2>2, <1>2, FS_Subset
  <2> QED
    BY <2>3, <2>4, <1>2 DEF Rank
<1>5. \A n \in 1..Cardinality(K) : \E i \in K : Rank(K, i) = n
  <2> DEFINE T == 1..Cardinality(K)
             r == [i \in K |-> Rank(K, i)]
  <2>1. r \in [K -> T]
    BY <1>3
  <2>2. \A a, b \in K : r[a] = r[b] => a = b
    <3> SUFFICES ASSUME NEW a \in K, NEW b \in K, Rank(K, a) = Rank(K, b), a # b
                 PROVE  FALSE
      OBVIOUS
    <3>1. a < b \/ b < a
      OBVIOUS
    <3> QED
      BY <3>1, <1>3, <1>4
  <2>3. r \in Injection(K, T)
    BY <2>1, <2>2, Fun_IsInj
  <2>4. IsFiniteSet(T) /\ Cardinality(T) = Cardinality(K)
    BY <1>1, IntervalFacts
  <2>5. r \in Surjection(K, T)
    BY <2>3, <2>4, FS_Injection
  <2> HIDE DEF T, r
  <2>6. \A t \in T : \E s \in K : r[s] = t
    BY <2>5, Fun_SurjectionProperties
  <2> USE DEF T, r
  <2> QED
    BY <2>6
<1> QED
  BY <1>1, <1>3, <1>4, <1>5

\* Nth enumerates the indices in order, each of them once.
LEMMA NthFacts ==
  ASSUME NEW m \in Nat, NEW K \in SUBSET (1..m)
  PROVE  /\ \A n \in 1..Cardinality(K) : Nth(K, n) \in K /\ Rank(K, Nth(K, n)) = n
         /\ \A a, b \in 1..Cardinality(K) : a < b => Nth(K, a) < Nth(K, b)
         /\ \A i \in K : Rank(K, i) \in 1..Cardinality(K) /\ Nth(K, Rank(K, i)) = i
<1> DEFINE N == Cardinality(K)
<1>2. /\ N \in Nat
      /\ \A i \in K : Rank(K, i) \in 1..N
      /\ \A i, k \in K : i < k => Rank(K, i) < Rank(K, k)
      /\ \A n \in 1..N : \E i \in K : Rank(K, i) = n
  BY RankFacts
<1>3. \A n \in 1..N : Nth(K, n) \in K /\ Rank(K, Nth(K, n)) = n
  BY <1>2 DEF Nth
<1>4. K \subseteq Nat
  OBVIOUS
<1>7. \A a, b \in 1..N : a < b => Nth(K, a) < Nth(K, b)
  <2> SUFFICES ASSUME NEW a \in 1..N, NEW b \in 1..N, a < b PROVE Nth(K, a) < Nth(K, b)
    OBVIOUS
  <2>1. PICK i, k : i = Nth(K, a) /\ k = Nth(K, b)
    OBVIOUS
  <2>2. i \in K /\ k \in K /\ Rank(K, i) = a /\ Rank(K, k) = b /\ a \in Int /\ b \in Int
    BY <1>2, <1>3, <2>1
  <2>3. k < i => b < a
    BY <2>2, <1>2
  <2>4. i # k
    BY <2>2
  <2>5. i \in Nat /\ k \in Nat
    BY <2>2, <1>4
  <2>6. i < k
    BY <2>2, <2>3, <2>4, <2>5
  <2> QED
    BY <2>1, <2>6
<1>8. \A i \in K : Nth(K, Rank(K, i)) = i
  <2> SUFFICES ASSUME NEW i \in K PROVE Nth(K, Rank(K, i)) = i
    OBVIOUS
  <2>1. Rank(K, i) \in 1..N
    BY <1>2
  <2> DEFINE j == Nth(K, Rank(K, i))
  <2>2. j \in K /\ Rank(K, j) = Rank(K, i)
    BY <2>1, <1>3
  <2> HIDE DEF j
  <2>3. ~(i < j) /\ ~(j < i)
    <3>1. (i < j => Rank(K, i) < Rank(K, j)) /\ (j < i => Rank(K, j) < Rank(K, i))
      BY <2>2, <1>2
    <3> QED
      BY <2>1, <2>2, <3>1
  <2>4. i \in Nat /\ j \in Nat
    BY <2>2
  <2>5. i = j
    BY <2>3, <2>4
  <2> QED
    BY <2>5 DEF j
<1> QED
  BY <1>2, <1>3, <1>7, <1>8

\* What is picked, and how much.
LEMMA PickFacts ==
  ASSUME NEW S, NEW q \in Seq(S), NEW K \in SUBSET DOMAIN q
  PROVE  /\ Len(q) \in Nat /\ K \in SUBSET (1..Len(q))
         /\ Cardinality(K) \in Nat
         /\ Pick(q, K) \in Seq(S)
         /\ DOMAIN Pick(q, K) = 1..Cardinality(K)
         /\ Len(Pick(q, K)) = Cardinality(K)
         /\ \A n \in 1..Cardinality(K) : Nth(K, n) \in K /\ Pick(q, K)[n] = q[Nth(K, n)]
<1>1. K \in SUBSET (1..Len(q)) /\ Len(q) \in Nat
  OBVIOUS
<1>2. Cardinality(K) \in Nat
  BY <1>1, RankFacts
<1>3. \A n \in 1..Cardinality(K) : Nth(K, n) \in K
  BY <1>1, NthFacts
<1>4. \A n \in 1..Cardinality(K) : Pick(q, K)[n] = q[Nth(K, n)]
  BY DEF Pick
<1>5. Pick(q, K) \in [1..Cardinality(K) -> S]
  <2>1. \A n \in 1..Cardinality(K) : q[Nth(K, n)] \in S
    BY <1>3
  <2> QED
    BY <2>1 DEF Pick
<1> QED
  BY <1>1, <1>2, <1>3, <1>4, <1>5

\* Picking every index changes nothing.
LEMMA PickAll ==
  ASSUME NEW S, NEW q \in Seq(S)
  PROVE  Pick(q, DOMAIN q) = q
<1> DEFINE K == DOMAIN q
<1>1. K = 1..Len(q) /\ Len(q) \in Nat
  OBVIOUS
<1>2. Cardinality(1..Len(q)) = Len(q)
  BY <1>1, IntervalFacts
<1>3. ASSUME NEW i \in 1..Len(q) PROVE Rank(1..Len(q), i) = i
  <2>1. {j \in 1..Len(q) : j <= i} = 1..i /\ i \in Nat
    BY <1>1
  <2> QED
    BY <2>1, IntervalFacts DEF Rank
<1> HIDE DEF K
<1>4. K \in SUBSET (1..Len(q)) /\ K \in SUBSET DOMAIN q
  BY DEF K
<1>5. \A n \in 1..Cardinality(K) : Nth(K, n) \in K /\ Rank(K, Nth(K, n)) = n
  BY <1>1, <1>4, NthFacts
<1>6. /\ Pick(q, K) \in Seq(S) /\ Len(Pick(q, K)) = Cardinality(K)
      /\ \A n \in 1..Cardinality(K) : Pick(q, K)[n] = q[Nth(K, n)]
  BY <1>4, PickFacts
<1>7. \A n \in 1..Len(q) : Pick(q, K)[n] = q[n]
  BY <1>1, <1>2, <1>3, <1>5, <1>6
<1>8. Pick(q, K) = q
  BY <1>1, <1>2, <1>6, <1>7, SeqEqual
<1> QED
  BY <1>8 DEF K

-----------------------------------------------------------------------------
(* The wire format.                                                        *)

\* What is not a slot is written as -1 and read as no slot again.
LEMMA SlotFieldRead ==
  ASSUME NEW s \in Slots \cup {None}
  PROVE  SlotRank(s) \in Slots \cup {-1} /\ DecodeSlot(SlotRank(s)) = s
<1>1. None \notin Slots /\ Slots \subseteq Nat
  BY DisplayStateAssumption DEF Slots
<1> QED
  BY <1>1 DEF SlotRank, DecodeSlot

\* An object is read from its line as it was.
LEMMA ObjectRead ==
  ASSUME NEW o \in Object
  PROVE  /\ EncodeObject(o) \in ObjectLine
         /\ EncodeObject(o).tag = "O"
         /\ DecodeObject(EncodeObject(o)) = o
<1>1. /\ o.kind \in {"slot", "custom"} /\ o.form \in Forms /\ o.slot \in Slots \cup {None}
      /\ o.visible \in BOOLEAN /\ o.attach \in Attachments /\ o.pose \in Poses
      /\ o = [kind |-> o.kind, form |-> o.form, slot |-> o.slot, visible |-> o.visible,
              attach |-> o.attach, pose |-> o.pose]
  BY DEF Object
<1>2. SlotRank(o.slot) \in Slots \cup {-1} /\ DecodeSlot(SlotRank(o.slot)) = o.slot
  BY <1>1, SlotFieldRead
<1>3. /\ (IF o.kind = "slot" THEN 0 ELSE 1) \in {0, 1}
      /\ (IF o.visible THEN 1 ELSE 0) \in {0, 1}
  OBVIOUS
<1>4. EncodeObject(o) \in ObjectLine /\ EncodeObject(o).tag = "O"
  BY <1>1, <1>2, <1>3 DEF EncodeObject, ObjectLine
<1>5. (IF (IF o.kind = "slot" THEN 0 ELSE 1) = 0 THEN "slot" ELSE "custom") = o.kind
  BY <1>1
<1>6. ((IF o.visible THEN 1 ELSE 0) # 0) = o.visible
  BY <1>1
<1>7. DecodeObject(EncodeObject(o)) =
        [kind |-> o.kind, form |-> o.form, slot |-> o.slot, visible |-> o.visible,
         attach |-> o.attach, pose |-> o.pose]
  BY <1>2, <1>5, <1>6 DEF DecodeObject, EncodeObject
<1> QED
  BY <1>1, <1>4, <1>7

\* The slots are read from their line as they were.
LEMMA SlotsRead ==
  ASSUME NEW sl \in SlotState
  PROVE  /\ [tag |-> "S", slots |-> EncodeSlots(sl)] \in SlotLine
         /\ DecodeSlots(EncodeSlots(sl)) = sl
<1> DEFINE tokens == EncodeSlots(sl)
<1>1. ASSUME NEW s \in Slots
      PROVE  /\ tokens[s] \in {<<>>} \cup {<<f>> : f \in Forms}
             /\ (IF tokens[s] = <<>> THEN None ELSE tokens[s][1]) = sl[s]
  <2>1. tokens[s] = IF sl[s] = None THEN <<>> ELSE <<sl[s]>>
    BY DEF EncodeSlots
  <2>2. CASE sl[s] = None
    BY <2>1, <2>2
  <2>3. CASE sl[s] # None
    <3>1. sl[s] \in Forms
      BY <2>3 DEF SlotState
    <3>2. tokens[s] = <<sl[s]>>
      BY <2>1, <2>3
    <3>3. <<sl[s]>> # <<>> /\ <<sl[s]>>[1] = sl[s]
      OBVIOUS
    <3> QED
      BY <3>1, <3>2, <3>3
  <2> QED
    BY <2>2, <2>3
<1>2. [tag |-> "S", slots |-> EncodeSlots(sl)] \in SlotLine
  <2>1. EncodeSlots(sl) \in [Slots -> {<<>>} \cup {<<f>> : f \in Forms}]
    BY <1>1 DEF EncodeSlots
  <2> QED
    BY <2>1 DEF SlotLine
<1>3. DecodeSlots(EncodeSlots(sl)) = [s \in Slots |-> sl[s]]
  BY <1>1 DEF DecodeSlots
<1> QED
  BY <1>2, <1>3 DEF SlotState

\* A message is the line of slots and a line for each object.
LEMMA Message ==
  ASSUME NEW st \in State
  PROVE  /\ Encode(st) \in Seq(SlotLine \cup ObjectLine)
         /\ Len(st.objects) \in Nat
         /\ Len(Encode(st)) = Len(st.objects) + 1
         /\ Encode(st)[1] = [tag |-> "S", slots |-> EncodeSlots(st.slots)]
         /\ \A i \in 1..Len(st.objects) : Encode(st)[i + 1] = EncodeObject(st.objects[i])
<1> DEFINE head == <<[tag |-> "S", slots |-> EncodeSlots(st.slots)]>>
           L == SlotLine \cup ObjectLine
           rest == [i \in DOMAIN st.objects |-> EncodeObject(st.objects[i])]
           n == Len(st.objects)
<1>1. st.slots \in SlotState /\ st.objects \in Seq(Object)
  BY DEF State
<1>2. n \in Nat /\ DOMAIN st.objects = 1..n /\ \A i \in 1..n : st.objects[i] \in Object
  BY <1>1
<1>3. head \in Seq(L) /\ Len(head) = 1 /\ head[1] = [tag |-> "S", slots |-> EncodeSlots(st.slots)]
  BY <1>1, SlotsRead
<1>4. rest \in [1..n -> L]
  BY <1>2, ObjectRead
<1>5. rest \in Seq(L) /\ Len(rest) = n
  BY <1>2, <1>4
<1>6. \A i \in 1..n : rest[i] = EncodeObject(st.objects[i])
  BY <1>2
<1>7. Encode(st) = head \o rest
  BY DEF Encode
<1> HIDE DEF head, rest, L, n
<1>8. /\ head \o rest \in Seq(L) /\ Len(head \o rest) = 1 + n
      /\ \A i \in 1..(1 + n) : (head \o rest)[i] = IF i <= 1 THEN head[i] ELSE rest[i - 1]
  <2>1. /\ head \o rest \in Seq(L) /\ Len(head \o rest) = Len(head) + Len(rest)
        /\ \A i \in 1..(Len(head) + Len(rest)) :
             (head \o rest)[i] = IF i <= Len(head) THEN head[i] ELSE rest[i - Len(head)]
    BY <1>3, <1>5, ConcatProperties
  <2> QED
    BY <2>1, <1>3, <1>5
<1>9. (head \o rest)[1] = head[1]
  BY <1>2, <1>8
<1>10. ASSUME NEW i \in 1..n PROVE (head \o rest)[i + 1] = EncodeObject(st.objects[i])
  <2>1. i + 1 \in 1..(1 + n) /\ ~(i + 1 <= 1) /\ i + 1 - 1 = i
    BY <1>2
  <2> QED
    BY <2>1, <1>8, <1>6
<1> QED
  BY <1>2, <1>3, <1>7, <1>8, <1>9, <1>10 DEF L, n

\* What is written of a state is read back as that state.
LEMMA DecodeEncode ==
  ASSUME NEW st \in State
  PROVE  Decode(Encode(st)) = st
<1> DEFINE msg == Encode(st)
           L == SlotLine \cup ObjectLine
           n == Len(st.objects)
           KS == {i \in DOMAIN msg : msg[i].tag = "S"}
           KO == {i \in DOMAIN msg : msg[i].tag = "O"}
           heads == Pick(msg, KS)
           objects == Pick(msg, KO)
<1>1. /\ msg \in Seq(L) /\ n \in Nat /\ Len(msg) = n + 1
      /\ msg[1] = [tag |-> "S", slots |-> EncodeSlots(st.slots)]
      /\ \A i \in 1..n : msg[i + 1] = EncodeObject(st.objects[i])
  BY Message
<1>2. /\ st.slots \in SlotState /\ st.objects \in Seq(Object)
      /\ st = [slots |-> st.slots, objects |-> st.objects]
      /\ \A i \in 1..n : st.objects[i] \in Object
  BY DEF State
<1>3. msg[1].tag = "S" /\ msg[1].slots = EncodeSlots(st.slots)
  BY <1>1
<1>4. \A i \in 1..n : msg[i + 1].tag = "O"
  BY <1>1, <1>2, ObjectRead
<1> HIDE DEF n, L, msg
<1>5. DOMAIN msg = 1..(n + 1)
  BY <1>1
<1>6. KS = {1}
  <2>1. ASSUME NEW i \in KS PROVE i = 1
    <3>1. CASE i # 1
      <4>1. i - 1 \in 1..n /\ (i - 1) + 1 = i
        BY <3>1, <1>1, <1>5
      <4> QED
        BY <4>1, <1>4
    <3> QED
      BY <3>1
  <2>2. 1 \in KS
    BY <1>1, <1>3, <1>5
  <2> QED
    BY <2>1, <2>2
<1>7. KO = 2..(n + 1)
  <2>1. ASSUME NEW i \in KO PROVE i \in 2..(n + 1)
    BY <1>1, <1>3, <1>5
  <2>2. ASSUME NEW i \in 2..(n + 1) PROVE i \in KO
    <3>1. i - 1 \in 1..n /\ (i - 1) + 1 = i /\ i \in 1..(n + 1)
      BY <1>1
    <3> QED
      BY <3>1, <1>4, <1>5
  <2> QED
    BY <2>1, <2>2
<1>8. Cardinality(KS) = 1
  BY <1>6, FS_Singleton
<1>9. Cardinality(2..(n + 1)) = n
  <2>1. Cardinality(2..(n + 1)) = IF 2 > n + 1 THEN 0 ELSE n + 1 - 2 + 1
    BY <1>1, FS_Interval
  <2> QED
    BY <1>1, <2>1
<1>10. KS \in SUBSET DOMAIN msg /\ KO \in SUBSET DOMAIN msg
  OBVIOUS
<1> HIDE DEF KS, KO
<1>11. heads \in Seq(L) /\ Len(heads) = 1 /\ heads[1] = msg[Nth(KS, 1)] /\ Nth(KS, 1) \in KS
  <2>1. /\ Pick(msg, KS) \in Seq(L) /\ Len(Pick(msg, KS)) = Cardinality(KS)
        /\ \A k \in 1..Cardinality(KS) : Nth(KS, k) \in KS /\ Pick(msg, KS)[k] = msg[Nth(KS, k)]
    BY <1>1, <1>10, PickFacts
  <2>2. 1 \in 1..1
    OBVIOUS
  <2> QED
    BY <1>8, <2>1, <2>2
<1>12. heads[Len(heads)] = msg[1] /\ heads # <<>>
  BY <1>6, <1>11
<1>13. Cardinality(KO) = n
  BY <1>7, <1>9
<1>14. /\ objects \in Seq(L) /\ Len(objects) = n /\ DOMAIN objects = 1..n
       /\ \A k \in 1..n : objects[k] = msg[Nth(KO, k)]
  BY <1>1, <1>10, <1>13, PickFacts
<1>15. \A k \in 1..n : objects[k] = msg[k + 1]
  <2> SUFFICES ASSUME NEW k \in 1..n PROVE Nth(KO, k) = k + 1
    BY <1>14
  <2>1. KO \in SUBSET (1..(n + 1)) /\ n + 1 \in Nat
    BY <1>1, <1>5, <1>10
  <2>2. Nth(KO, k) \in KO /\ Rank(KO, Nth(KO, k)) = k
    BY <2>1, <1>13, NthFacts
  <2>3. PICK i : i = Nth(KO, k)
    OBVIOUS
  <2>4. {j \in KO : j <= i} = 2..i /\ i \in Int /\ i >= 2
    BY <1>1, <1>7, <2>2, <2>3
  <2>5. Cardinality(2..i) = IF 2 > i THEN 0 ELSE i - 2 + 1
    BY <2>4, FS_Interval
  <2>6. Rank(KO, i) = Cardinality(2..i)
    BY <2>4 DEF Rank
  <2> QED
    BY <2>2, <2>3, <2>4, <2>5, <2>6
<1>16. Decode(msg) = [slots |-> DecodeSlots(heads[Len(heads)].slots),
                      objects |-> [i \in DOMAIN objects |-> DecodeObject(objects[i])]]
  <2>1. ~(heads = <<>> \/ Len(heads) + Len(objects) # Len(msg))
    BY <1>1, <1>11, <1>12, <1>14
  <2> HIDE DEF heads, objects
  <2>2. Decode(msg) = IF heads = <<>> \/ Len(heads) + Len(objects) # Len(msg) THEN None
     ELSE [slots |-> DecodeSlots(heads[Len(heads)].slots),
           objects |-> [i \in DOMAIN objects |-> DecodeObject(objects[i])]]
    BY DEF Decode, heads, objects, KS, KO
  <2> QED
    BY <2>1, <2>2
<1>17. DecodeSlots(heads[Len(heads)].slots) = st.slots
  BY <1>2, <1>3, <1>12, SlotsRead
<1>18. [i \in DOMAIN objects |-> DecodeObject(objects[i])] = st.objects
  <2>1. ASSUME NEW i \in 1..n PROVE DecodeObject(objects[i]) = st.objects[i]
    BY <1>1, <1>2, <1>15, ObjectRead
  <2>2. DOMAIN objects = 1..n
    BY <1>14
  <2>3. DOMAIN st.objects = 1..n /\ st.objects = [i \in 1..n |-> st.objects[i]]
    BY <1>2 DEF n
  <2> HIDE DEF objects
  <2> QED
    BY <2>1, <2>2, <2>3
<1> HIDE DEF heads, objects
<1> QED
  BY <1>2, <1>16, <1>17, <1>18 DEF msg

-----------------------------------------------------------------------------
(* Orders.                                                                 *)

\* g numbers 1..n by 1..m in order and leaves nothing out.
Renumbers(g, n, m) ==
  /\ g \in [1..n -> 1..m]
  /\ \A i, j \in 1..n : i < j => g[i] < g[j]
  /\ \A k \in 1..m : \E i \in 1..n : g[i] = k

\* It changes no number.
LEMMA InOrder ==
  ASSUME NEW n \in Nat, NEW m \in Nat, NEW g, Renumbers(g, n, m)
  PROVE  n = m /\ \A i \in 1..n : g[i] = i
<1>0. /\ g \in [1..n -> 1..m]
      /\ \A i, j \in 1..n : i < j => g[i] < g[j]
      /\ \A k \in 1..m : \E i \in 1..n : g[i] = k
  BY DEF Renumbers
<1>1. ASSUME NEW i \in 1..n PROVE g[i] = i
  <2> DEFINE h == [j \in 1..i |-> g[j]]
             T == 1..g[i]
  <2>1. i \in Nat /\ g[i] \in Nat /\ 1..i \subseteq 1..n
    BY <1>0
  <2>2. \A j \in 1..i : g[j] \in T
    <3> SUFFICES ASSUME NEW j \in 1..i PROVE g[j] \in 1..m /\ g[j] <= g[i]
      BY <2>1
    <3>1. j \in 1..n /\ (j = i \/ j < i)
      BY <2>1
    <3>2. j < i => g[j] < g[i]
      BY <3>1, <1>0
    <3>3. g[j] \in 1..m
      BY <3>1, <1>0
    <3> QED
      BY <3>1, <3>2, <3>3, <2>1
  <2>3. h \in [1..i -> T]
    BY <2>2
  <2>4. \A a, b \in 1..i : h[a] = h[b] => a = b
    <3> SUFFICES ASSUME NEW a \in 1..i, NEW b \in 1..i, g[a] = g[b], a # b PROVE FALSE
      OBVIOUS
    <3>1. a \in 1..n /\ b \in 1..n /\ (a < b \/ b < a)
      BY <2>1
    <3>2. g[a] < g[b] \/ g[b] < g[a]
      BY <3>1, <1>0
    <3>3. g[a] \in Nat /\ g[b] \in Nat
      BY <3>1, <1>0
    <3> QED
      BY <3>2, <3>3
  <2>5. \A t \in T : \E j \in 1..i : h[j] = t
    <3> SUFFICES ASSUME NEW t \in T PROVE \E j \in 1..i : g[j] = t
      OBVIOUS
    <3>1. t \in 1..m
      BY <2>1, <1>0
    <3>2. PICK j \in 1..n : g[j] = t
      BY <3>1, <1>0
    <3>3. ~(i < j)
      <4>1. i < j => g[i] < g[j]
        BY <1>0
      <4> QED
        BY <4>1, <3>2, <2>1
    <3> QED
      BY <3>2, <3>3
  <2>6. h \in Injection(1..i, T)
    BY <2>3, <2>4, Fun_IsInj
  <2>7. h \in Surjection(1..i, T)
    BY <2>3, <2>5, Fun_IsSurj
  <2>8. /\ IsFiniteSet(1..i) /\ Cardinality(1..i) = i
        /\ IsFiniteSet(1..g[i]) /\ Cardinality(1..g[i]) = g[i]
    BY <2>1, IntervalFacts
  <2> HIDE DEF h
  <2>9. Cardinality(1..i) = Cardinality(T)
    BY <2>6, <2>7, <2>8, FS_Injection
  <2> QED
    BY <2>8, <2>9
<1>2. n <= m
  <2>1. CASE n = 0
    BY <2>1
  <2>2. CASE n # 0
    <3>1. n \in 1..n
      BY <2>2
    <3>2. g[n] = n /\ g[n] \in 1..m
      BY <3>1, <1>0, <1>1
    <3> QED
      BY <3>2
  <2> QED
    BY <2>1, <2>2
<1>3. m <= n
  <2>1. CASE m = 0
    BY <2>1
  <2>2. CASE m # 0
    <3>1. m \in 1..m
      BY <2>2
    <3>2. PICK i \in 1..n : g[i] = m
      BY <3>1, <1>0
    <3> QED
      BY <3>2, <1>1
  <2> QED
    BY <2>1, <2>2
<1> QED
  BY <1>1, <1>2, <1>3

\* The sort order is strict, and tells objects apart that differ in their form
\* or, when they share form and slot, in their attachment.
LEMMA BeforeFacts ==
  ASSUME NEW x \in Object, NEW y \in Object
  PROVE  /\ ~(Before(x, y) /\ Before(y, x))
         /\ x.form # y.form => Before(x, y) \/ Before(y, x)
         /\ x.slot = y.slot /\ x.attach # y.attach => Before(x, y) \/ Before(y, x)
<1>1. /\ x.form \in Nat /\ y.form \in Nat /\ x.attach \in Nat /\ y.attach \in Nat
      /\ x.slot \in Slots \cup {None} /\ y.slot \in Slots \cup {None}
  BY DisplayStateAssumption DEF Object
<1>2. SlotRank(x.slot) \in Slots \cup {-1} /\ SlotRank(y.slot) \in Slots \cup {-1}
  BY <1>1, SlotFieldRead
<1>3. SlotRank(x.slot) \in Int /\ SlotRank(y.slot) \in Int
  BY <1>2, DisplayStateAssumption DEF Slots
<1>4. x.slot = y.slot => SlotRank(x.slot) = SlotRank(y.slot)
  OBVIOUS
<1> HIDE DEF SlotRank
<1> QED
  BY <1>1, <1>3, <1>4 DEF Before

StrictlySorted(q) == \A i, j \in DOMAIN q : i < j => Before(q[i], q[j])

\* Two strictly sorted sequences of the same objects are the same.
LEMMA SortedOnce ==
  ASSUME NEW q \in Seq(Object), NEW r \in Seq(Object),
         StrictlySorted(q), StrictlySorted(r),
         \A i \in DOMAIN q : \E j \in DOMAIN r : r[j] = q[i],
         \A j \in DOMAIN r : \E i \in DOMAIN q : q[i] = r[j]
  PROVE  q = r
<1> DEFINE n == Len(q)
           m == Len(r)
           g == [i \in 1..n |-> CHOOSE j \in 1..m : r[j] = q[i]]
<1>1. n \in Nat /\ m \in Nat /\ DOMAIN q = 1..n /\ DOMAIN r = 1..m
  OBVIOUS
<1> HIDE DEF n, m
<1>2. \A i \in 1..n : g[i] \in 1..m /\ r[g[i]] = q[i]
  BY <1>1
<1>3. g \in [1..n -> 1..m]
  BY <1>2
<1>4. (\A i \in 1..n : q[i] \in Object) /\ (\A j \in 1..m : r[j] \in Object)
  BY <1>1
<1>5. (\A i \in 1..n : ~Before(q[i], q[i])) /\ (\A j \in 1..m : ~Before(r[j], r[j]))
  BY <1>4, BeforeFacts
<1>6. /\ \A i, j \in 1..n : i < j => Before(q[i], q[j])
      /\ \A i, j \in 1..m : i < j => Before(r[i], r[j])
  BY <1>1 DEF StrictlySorted
<1> HIDE DEF g
<1>7. ASSUME NEW i \in 1..n, NEW j \in 1..n, i < j PROVE g[i] < g[j]
  <2>1. PICK a \in 1..m : a = g[i]
    BY <1>2
  <2>2. PICK b \in 1..m : b = g[j]
    BY <1>2
  <2>3. Before(r[a], r[b])
    BY <1>2, <1>6, <1>7, <2>1, <2>2
  <2>4. a # b
    BY <2>3, <1>5
  <2>5. ~(b < a)
    BY <2>3, <1>4, <1>6, BeforeFacts
  <2> QED
    BY <2>1, <2>2, <2>4, <2>5
<1>8. ASSUME NEW k \in 1..m PROVE \E i \in 1..n : g[i] = k
  <2>1. PICK i \in 1..n : q[i] = r[k]
    BY <1>1
  <2>2. PICK a \in 1..m : a = g[i] /\ r[a] = r[k]
    BY <1>2, <2>1
  <2>3. ~(a < k) /\ ~(k < a)
    <3>1. (a < k => Before(r[a], r[k])) /\ (k < a => Before(r[k], r[a]))
      BY <1>6
    <3>2. ~Before(r[k], r[k])
      BY <1>5
    <3> QED
      BY <3>1, <3>2, <2>2
  <2>4. a = k
    BY <2>3
  <2> QED
    BY <2>2, <2>4
<1>9. n = m /\ \A i \in 1..n : g[i] = i
  <2>1. \A i, j \in 1..n : i < j => g[i] < g[j]
    BY <1>7
  <2>2. \A k \in 1..m : \E i \in 1..n : g[i] = k
    BY <1>8
  <2>3. n \in Nat /\ m \in Nat
    BY <1>1
  <2>4. Renumbers(g, n, m)
    BY <1>3, <2>1, <2>2 DEF Renumbers
  <2> QED
    BY <2>3, <2>4, InOrder
<1>10. \A i \in 1..n : q[i] = r[i]
  BY <1>2, <1>9
<1> QED
  BY <1>9, <1>10, SeqEqual DEF n, m

\* An order for std::sort to end in exists: equivalent objects go by their
\* former place.
Precedes(x, i, y, j) == Before(x, y) \/ (~Before(y, x) /\ i < j)

LEMMA PrecedesFacts ==
  ASSUME NEW x \in Object, NEW y \in Object, NEW z \in Object,
         NEW i \in Nat, NEW j \in Nat, NEW k \in Nat
  PROVE  /\ ~Precedes(x, i, x, i)
         /\ i # j => Precedes(x, i, y, j) \/ Precedes(y, j, x, i)
         /\ Precedes(x, i, y, j) /\ Precedes(y, j, z, k) => Precedes(x, i, z, k)
<1>1. \A u \in {x, y, z} :
        /\ u.form \in Nat /\ u.attach \in Nat /\ u.slot \in Slots \cup {None}
  BY DisplayStateAssumption DEF Object
<1>2. \A u \in {x, y, z} : SlotRank(u.slot) \in Int
  <2>1. \A u \in {x, y, z} : SlotRank(u.slot) \in Slots \cup {-1}
    BY <1>1, SlotFieldRead
  <2> QED
    BY <2>1, DisplayStateAssumption DEF Slots
<1>3. \A u, v \in {x, y, z} : SlotRank(u.slot) = SlotRank(v.slot) => u.slot = v.slot
  <2>1. \A t \in Slots : t \in Nat /\ t # None
    BY DisplayStateAssumption DEF Slots
  <2> QED
    BY <1>1, <2>1 DEF SlotRank
<1> HIDE DEF SlotRank
<1>4. \A u, v \in {x, y, z} :
        Before(u, v) <=> \/ u.form < v.form
                         \/ u.form = v.form /\ SlotRank(u.slot) < SlotRank(v.slot)
                         \/ /\ u.form = v.form /\ SlotRank(u.slot) = SlotRank(v.slot)
                            /\ u.attach < v.attach
  BY <1>3 DEF Before
<1>5. PICK a, b, c \in Nat : a = x.form /\ b = y.form /\ c = z.form
  BY <1>1
<1>6. PICK d, e, f \in Int : d = SlotRank(x.slot) /\ e = SlotRank(y.slot) /\ f = SlotRank(z.slot)
  BY <1>2
<1>7. PICK g, h, l \in Nat : g = x.attach /\ h = y.attach /\ l = z.attach
  BY <1>1
<1>8. /\ Before(x, x) <=> FALSE
      /\ Before(x, y) <=> a < b \/ (a = b /\ d < e) \/ (a = b /\ d = e /\ g < h)
      /\ Before(y, x) <=> b < a \/ (b = a /\ e < d) \/ (b = a /\ e = d /\ h < g)
      /\ Before(y, z) <=> b < c \/ (b = c /\ e < f) \/ (b = c /\ e = f /\ h < l)
      /\ Before(z, y) <=> c < b \/ (c = b /\ f < e) \/ (c = b /\ f = e /\ l < h)
      /\ Before(x, z) <=> a < c \/ (a = c /\ d < f) \/ (a = c /\ d = f /\ g < l)
      /\ Before(z, x) <=> c < a \/ (c = a /\ f < d) \/ (c = a /\ f = d /\ l < g)
  BY <1>4, <1>5, <1>6, <1>7
<1> QED
  BY <1>8 DEF Precedes

\* The capture always has an order to put its objects in.
LEMMA SortEnds ==
  ASSUME NEW q \in Seq(Object)
  PROVE  Sorted(q) # {}
<1> DEFINE n == Len(q)
           D == 1..n
           Lower(i) == {j \in D : Precedes(q[j], j, q[i], i)}
           rank == [i \in D |-> Cardinality(Lower(i)) + 1]
<1>1. n \in Nat /\ DOMAIN q = D /\ \A i \in D : q[i] \in Object /\ i \in Nat
  OBVIOUS
<1>2. IsFiniteSet(D) /\ Cardinality(D) = n
  BY <1>1, IntervalFacts
<1> HIDE DEF n
<1>3. ASSUME NEW i \in D
      PROVE  /\ IsFiniteSet(Lower(i)) /\ Cardinality(Lower(i)) \in Nat
             /\ Cardinality(Lower(i)) < n
  <2>1. Lower(i) \in SUBSET D
    OBVIOUS
  <2>2. i \notin Lower(i)
    BY <1>1, PrecedesFacts
  <2>3. Lower(i) # D
    BY <2>2
  <2> HIDE DEF Lower
  <2>4. /\ IsFiniteSet(Lower(i)) /\ Cardinality(Lower(i)) <= Cardinality(D)
        /\ Cardinality(D) # Cardinality(Lower(i))
    BY <1>2, <2>1, <2>3, FS_Subset
  <2>5. Cardinality(Lower(i)) \in Nat
    BY <2>4, FS_CardinalityType
  <2> QED
    BY <1>1, <1>2, <2>4, <2>5
<1>4. ASSUME NEW i \in D, NEW j \in D, Precedes(q[i], i, q[j], j) PROVE rank[i] < rank[j]
  <2>1. Lower(i) \in SUBSET Lower(j)
    <3> SUFFICES ASSUME NEW k \in D, Precedes(q[k], k, q[i], i) PROVE Precedes(q[k], k, q[j], j)
      OBVIOUS
    <3> QED
      BY <1>1, <1>4, PrecedesFacts
  <2>2. i \in Lower(j) /\ i \notin Lower(i)
    BY <1>1, <1>4, PrecedesFacts
  <2>3. rank[i] = Cardinality(Lower(i)) + 1 /\ rank[j] = Cardinality(Lower(j)) + 1
    OBVIOUS
  <2> HIDE DEF Lower, rank
  <2>4. Cardinality(Lower(i)) <= Cardinality(Lower(j)) /\ Cardinality(Lower(j)) # Cardinality(Lower(i))
    BY <1>3, <2>1, <2>2, FS_Subset
  <2> QED
    BY <1>3, <2>3, <2>4
<1>5. rank \in [D -> D]
  <2>1. ASSUME NEW i \in D PROVE Cardinality(Lower(i)) + 1 \in D
    <3> HIDE DEF Lower
    <3>1. PICK c \in Nat : c = Cardinality(Lower(i)) /\ c < n
      BY <1>3
    <3>2. c + 1 \in D
      BY <1>1, <3>1
    <3> QED
      BY <3>1, <3>2
  <2> QED
    BY <2>1
<1> HIDE DEF Lower, rank
<1>6. \A i, j \in D : rank[i] = rank[j] => i = j
  <2> SUFFICES ASSUME NEW i \in D, NEW j \in D, rank[i] = rank[j], i # j PROVE FALSE
    OBVIOUS
  <2>1. Precedes(q[i], i, q[j], j) \/ Precedes(q[j], j, q[i], i)
    BY <1>1, PrecedesFacts
  <2>2. rank[i] < rank[j] \/ rank[j] < rank[i]
    BY <1>4, <2>1
  <2>3. rank[i] \in D /\ rank[j] \in D
    BY <1>5
  <2>4. rank[i] \in Nat /\ rank[j] \in Nat
    BY <2>3
  <2> QED
    BY <2>2, <2>4
<1> HIDE DEF D
<1>7. rank \in Injection(D, D)
  BY <1>5, <1>6, Fun_IsInj
<1>8. rank \in Surjection(D, D)
  BY <1>2, <1>7, FS_Injection
<1>9. rank \in Bijection(D, D)
  BY <1>7, <1>8, Fun_IsBij
<1>10. PICK p \in Bijection(D, D) : \A i \in D : p[rank[i]] = i
  <2>1. /\ Inverse(rank, D, D) \in Bijection(D, D)
        /\ \A i \in D : Inverse(rank, D, D)[rank[i]] = i
    BY <1>9, Fun_BijInverse
  <2> QED
    BY <2>1, Zenon
<1>11. p \in [D -> D] /\ \A k \in D : rank[p[k]] = k
  <2>1. p \in [D -> D]
    BY <1>10, Fun_BijectionProperties
  <2>2. ASSUME NEW k \in D PROVE rank[p[k]] = k
    <3>1. PICK i \in D : rank[i] = k
      BY <1>9, Fun_BijectionProperties
    <3> QED
      BY <1>10, <3>1
  <2> QED
    BY <2>1, <2>2
<1> DEFINE r == [k \in D |-> q[p[k]]]
<1>12. r \in Reorderings(q)
  BY <1>1, <1>10 DEF Reorderings
<1>13. ASSUME NEW i \in D, NEW j \in D, i < j PROVE ~Before(r[j], r[i])
  <2>1. p[i] \in D /\ p[j] \in D /\ rank[p[i]] = i /\ rank[p[j]] = j
    BY <1>11
  <2>2. i \in Nat /\ j \in Nat
    BY <1>1
  <2>3. ~Precedes(q[p[j]], p[j], q[p[i]], p[i])
    <3> SUFFICES ASSUME Precedes(q[p[j]], p[j], q[p[i]], p[i]) PROVE FALSE
      OBVIOUS
    <3>1. rank[p[j]] < rank[p[i]]
      BY <1>4, <2>1
    <3>2. j < i
      BY <2>1, <3>1
    <3> QED
      BY <1>13, <2>2, <3>2
  <2>4. r[j] = q[p[j]] /\ r[i] = q[p[i]]
    OBVIOUS
  <2> QED
    BY <2>3, <2>4 DEF Precedes
<1>14. DOMAIN r = D
  OBVIOUS
<1> HIDE DEF r
<1>15. r \in Sorted(q)
  BY <1>12, <1>13, <1>14 DEF Sorted
<1> QED
  BY <1>15

-----------------------------------------------------------------------------
(* Capture.                                                                *)

\* A set of numbers has a smallest one.
LEMMA Smallest ==
  ASSUME NEW S \in SUBSET Nat, S # {}
  PROVE  \E s \in S : \A t \in S : s <= t
<1>1. PICK s \in S : \A t \in S : <<t, s>> \notin OpToRel(<, Nat)
  BY NatLessThanWellFounded, WFMin, Zenon
<1>2. \A t \in S : t < s => <<t, s>> \in OpToRel(<, Nat)
  BY DEF OpToRel
<1>3. \A t \in S : ~(t < s)
  BY <1>1, <1>2, Zenon
<1>4. \A t \in S : s <= t
  BY <1>3
<1> QED
  BY <1>4

\* FindSlot finds a slot that holds the form, if one does.
LEMMA FindSlotFacts ==
  ASSUME NEW f \in Forms, NEW sl \in SlotState
  PROVE  /\ FindSlot(f, sl) \in Slots \cup {None}
         /\ FindSlot(f, sl) # None => sl[FindSlot(f, sl)] = f
         /\ (\E s \in Slots : sl[s] = f) => FindSlot(f, sl) # None
<1>1. None \notin Slots /\ Slots \subseteq Nat
  BY DisplayStateAssumption DEF Slots
<1>2. CASE \E s \in Slots : sl[s] = f
  <2> DEFINE Holding == {s \in Slots : sl[s] = f}
  <2>1. PICK s \in Holding : \A t \in Holding : s <= t
    BY <1>1, <1>2, Smallest
  <2>2. \E u \in Slots : sl[u] = f /\ \A t \in Slots : sl[t] = f => u <= t
    BY <2>1
  <2>3. FindSlot(f, sl) = CHOOSE u \in Slots : sl[u] = f /\ \A t \in Slots : sl[t] = f => u <= t
    BY <1>2 DEF FindSlot
  <2>4. FindSlot(f, sl) \in Slots /\ sl[FindSlot(f, sl)] = f
    BY <2>2, <2>3
  <2> QED
    BY <2>4, <1>1
<1>3. CASE ~\E s \in Slots : sl[s] = f
  BY <1>3 DEF FindSlot
<1> QED
  BY <1>2, <1>3

\* What becomes of a display.
LEMMA CapturedFacts ==
  ASSUME NEW d \in Display, NEW sl \in SlotState, NEW o, o = MakeCapturedObject(d, sl)
  PROVE  /\ o \in Object
         /\ o.form = d.form /\ o.pose = d.pose /\ o.visible = d.visible /\ o.attach = d.attach
         /\ o.slot = FindSlot(d.form, sl)
         /\ o.kind = IF o.slot # None THEN "slot" ELSE "custom"
<1>1. /\ d.form \in Forms /\ d.visible \in BOOLEAN /\ d.attach \in Attachments
      /\ d.pose \in Poses
  BY DEF Display
<1>2. PICK s : s = FindSlot(d.form, sl)
  OBVIOUS
<1>3. s \in Slots \cup {None}
  BY <1>1, <1>2, FindSlotFacts
<1>4. o = [kind |-> IF s # None THEN "slot" ELSE "custom", form |-> d.form, slot |-> s,
           visible |-> d.visible, attach |-> d.attach, pose |-> d.pose]
  BY <1>2 DEF MakeCapturedObject
<1>5. (IF s # None THEN "slot" ELSE "custom") \in {"slot", "custom"}
  OBVIOUS
<1> QED
  BY <1>1, <1>2, <1>3, <1>4, <1>5 DEF Object

\* What std::sort and IED's reattaching do to a sequence.
LEMMA ReorderingFacts ==
  ASSUME NEW S, NEW q \in Seq(S), NEW r \in Reorderings(q)
  PROVE  /\ r \in Seq(S) /\ DOMAIN r = DOMAIN q
         /\ \E p \in [DOMAIN q -> DOMAIN q] :
              /\ \A i \in DOMAIN q : r[i] = q[p[i]]
              /\ \A i, j \in DOMAIN q : p[i] = p[j] => i = j
              /\ \A k \in DOMAIN q : \E i \in DOMAIN q : p[i] = k
<1>1. PICK p \in Bijection(DOMAIN q, DOMAIN q) : r = [i \in DOMAIN q |-> q[p[i]]]
  BY DEF Reorderings
<1> DEFINE D == DOMAIN q
<1>2. D = 1..Len(q) /\ Len(q) \in Nat
  OBVIOUS
<1> HIDE DEF D
<1>3. p \in Bijection(D, D)
  BY DEF D
<1>4. /\ p \in [D -> D]
      /\ \A a, b \in D : p[a] = p[b] => a = b
      /\ \A t \in D : \E s \in D : p[s] = t
  BY <1>3, Fun_BijectionProperties
<1>5. r \in [1..Len(q) -> S]
  <2>1. \A i \in D : q[p[i]] \in S
    BY <1>4 DEF D
  <2> QED
    BY <1>1, <1>2, <2>1 DEF D
<1>6. r \in Seq(S) /\ DOMAIN r = D
  BY <1>2, <1>5
<1>7. \A i \in D : r[i] = q[p[i]]
  BY <1>1 DEF D
<1> QED
  BY <1>4, <1>6, <1>7 DEF D

\* std::unique loses nothing and adds nothing; it leaves a sequence alone when
\* no two neighbours are equal.
LEMMA UniqueFacts ==
  ASSUME NEW S, NEW q \in Seq(S)
  PROVE  /\ Unique(q) \in Seq(S)
         /\ \A n \in DOMAIN Unique(q) : \E i \in DOMAIN q : Unique(q)[n] = q[i]
         /\ \A i \in DOMAIN q : \E n \in DOMAIN Unique(q) : Unique(q)[n] = q[i]
         /\ (\A i, j \in DOMAIN q : i < j => q[i] # q[j]) => Unique(q) = q
<1> DEFINE K == {i \in DOMAIN q : i = 1 \/ q[i] # q[i - 1]}
<1>1. Unique(q) = Pick(q, K)
  BY DEF Unique
<1>2. DOMAIN q = 1..Len(q) /\ Len(q) \in Nat /\ K \in SUBSET DOMAIN q /\ K \in SUBSET (1..Len(q))
  OBVIOUS
<1>3. ASSUME NEW i \in DOMAIN q PROVE \E k \in K : q[k] = q[i]
  <2> DEFINE E == {k \in DOMAIN q : q[k] = q[i]}
  <2>1. E \in SUBSET Nat /\ E # {}
    BY <1>2
  <2>2. PICK k \in E : \A t \in E : k <= t
    BY <2>1, Smallest
  <2>3. CASE k = 1
    BY <2>2, <2>3
  <2>4. CASE k # 1
    <3>1. k - 1 \in DOMAIN q /\ ~(k <= k - 1)
      BY <1>2, <2>4
    <3>2. q[k - 1] # q[i]
      BY <2>2, <3>1
    <3> QED
      BY <3>2
  <2> QED
    BY <2>3, <2>4
<1>4. ASSUME \A i, j \in DOMAIN q : i < j => q[i] # q[j] PROVE K = DOMAIN q
  <2> SUFFICES ASSUME NEW i \in DOMAIN q, i # 1 PROVE q[i] # q[i - 1]
    OBVIOUS
  <2>1. i - 1 \in DOMAIN q /\ i - 1 < i
    BY <1>2
  <2> QED
    BY <1>4, <2>1
<1> HIDE DEF K
<1>5. /\ Pick(q, K) \in Seq(S) /\ DOMAIN Pick(q, K) = 1..Cardinality(K)
      /\ \A n \in 1..Cardinality(K) : Nth(K, n) \in K /\ Pick(q, K)[n] = q[Nth(K, n)]
  BY <1>2, PickFacts
<1>6. \A i \in K : Rank(K, i) \in 1..Cardinality(K) /\ Nth(K, Rank(K, i)) = i
  BY <1>2, NthFacts
<1>7. ASSUME NEW i \in DOMAIN q PROVE \E n \in 1..Cardinality(K) : Pick(q, K)[n] = q[i]
  BY <1>3, <1>5, <1>6
<1>8. (\A i, j \in DOMAIN q : i < j => q[i] # q[j]) => Pick(q, K) = q
  BY <1>4, PickAll
<1> QED
  BY <1>1, <1>2, <1>5, <1>7, <1>8

-----------------------------------------------------------------------------
(* The inductive invariant.                                                *)

\* What becomes of the display at k.
Captured(k) == MakeCapturedObject(displays[k], slots)

\* A state that was captured from these displays: the slots as they are, an
\* object for every display and no other, in the one order the sort allows
\* when it can tell the objects apart.
Faithful(st) ==
  /\ st.slots = slots
  /\ \A i \in DOMAIN st.objects : \E k \in DOMAIN displays : st.objects[i] = Captured(k)
  /\ \A k \in DOMAIN displays : \E i \in DOMAIN st.objects : st.objects[i] = Captured(k)
  /\ Distinct => StrictlySorted(st.objects)

\* IED shows a form for a slot only while the slot holds it.
SlotsHold ==
  \A k \in DOMAIN displays :
    displays[k].slot # None => slots[displays[k].slot] = displays[k].form

FaithfulStates == {st \in State : Faithful(st)}

\* What was published, received and shown is what was captured.
Chain ==
  /\ {state, received} \subseteq FaithfulStates \cup {None}
  /\ payload # None => payload = Encode(state)
  /\ received # None => items = Apply(received)

DisplayInv == TypeOK /\ SlotsHold /\ Chain

\* The displays a capture starts from.
SceneOK == displays \in Seq(Display) /\ slots \in SlotState

\* Every display becomes an object of its form; the same form gives the same
\* slot.
LEMMA CapturedOK ==
  ASSUME SceneOK, NEW k \in DOMAIN displays
  PROVE  /\ displays[k] \in Display
         /\ Captured(k) \in Object
         /\ Captured(k).form = displays[k].form /\ Captured(k).pose = displays[k].pose
         /\ Captured(k).visible = displays[k].visible
         /\ Captured(k).attach = displays[k].attach
         /\ Captured(k).slot = FindSlot(displays[k].form, slots)
         /\ Captured(k).kind = IF Captured(k).slot # None THEN "slot" ELSE "custom"
<1>1. displays[k] \in Display /\ slots \in SlotState
  BY DEF SceneOK
<1>2. Captured(k) = MakeCapturedObject(displays[k], slots)
  BY DEF Captured
<1> QED
  BY <1>1, <1>2, CapturedFacts

\* Displays that the sort can tell apart become objects in one strict order.
LEMMA DistinctSorted ==
  ASSUME SceneOK, Distinct, NEW k \in DOMAIN displays, NEW m \in DOMAIN displays, k # m
  PROVE  Before(Captured(k), Captured(m)) \/ Before(Captured(m), Captured(k))
<1>1. displays[k].form # displays[m].form \/ displays[k].attach # displays[m].attach
  BY DEF Distinct
<1>2. Captured(k) \in Object /\ Captured(m) \in Object
  BY CapturedOK
<1>3. CASE displays[k].form # displays[m].form
  <2>1. Captured(k).form # Captured(m).form
    BY <1>3, CapturedOK
  <2> QED
    BY <1>2, <2>1, BeforeFacts
<1>4. CASE displays[k].form = displays[m].form
  <2>1. Captured(k).slot = Captured(m).slot /\ Captured(k).attach # Captured(m).attach
    BY <1>1, <1>4, CapturedOK
  <2> QED
    BY <1>2, <2>1, BeforeFacts
<1> QED
  BY <1>3, <1>4

\* What CompleteCapture collects is a state of the right type, captured from
\* these displays.
LEMMA CapturesFaithful ==
  ASSUME SceneOK, NEW st \in Captures
  PROVE  st \in State /\ Faithful(st)
<1> DEFINE visited == [k \in DOMAIN displays |-> MakeCapturedObject(displays[k], slots)]
<1>1. DOMAIN displays = 1..Len(displays) /\ Len(displays) \in Nat /\ slots \in SlotState
  BY DEF SceneOK
<1>2. \A k \in DOMAIN displays : visited[k] = Captured(k) /\ Captured(k) \in Object
  BY CapturedOK DEF Captured
<1>3. DOMAIN visited = DOMAIN displays
  OBVIOUS
<1>4. visited \in Seq(Object)
  <2>1. visited \in [1..Len(displays) -> Object]
    BY <1>1, <1>2
  <2> QED
    BY <1>1, <2>1
<1>5. PICK q \in Sorted(visited) : st = [slots |-> slots, objects |-> Unique(q)]
  BY DEF Captures
<1> HIDE DEF visited
<1>6. q \in Reorderings(visited) /\ \A i, j \in DOMAIN q : i < j => ~Before(q[j], q[i])
  BY <1>5 DEF Sorted
<1>7. q \in Seq(Object) /\ DOMAIN q = DOMAIN displays
  BY <1>3, <1>4, <1>6, ReorderingFacts
<1>8. PICK p \in [DOMAIN visited -> DOMAIN visited] :
        /\ \A i \in DOMAIN visited : q[i] = visited[p[i]]
        /\ \A i, j \in DOMAIN visited : p[i] = p[j] => i = j
        /\ \A k \in DOMAIN visited : \E i \in DOMAIN visited : p[i] = k
  BY <1>4, <1>6, ReorderingFacts
<1>9. /\ \A i \in DOMAIN q : p[i] \in DOMAIN displays /\ q[i] = Captured(p[i])
      /\ \A i, j \in DOMAIN q : p[i] = p[j] => i = j
      /\ \A k \in DOMAIN displays : \E i \in DOMAIN q : q[i] = Captured(k)
  BY <1>2, <1>3, <1>7, <1>8
<1>10. /\ Unique(q) \in Seq(Object)
       /\ \A n \in DOMAIN Unique(q) : \E i \in DOMAIN q : Unique(q)[n] = q[i]
       /\ \A i \in DOMAIN q : \E n \in DOMAIN Unique(q) : Unique(q)[n] = q[i]
       /\ (\A i, j \in DOMAIN q : i < j => q[i] # q[j]) => Unique(q) = q
  BY <1>7, UniqueFacts
<1>11. st \in State
  BY <1>1, <1>5, <1>10 DEF State
<1>12. ASSUME Distinct PROVE StrictlySorted(Unique(q))
  <2>1. ASSUME NEW i \in DOMAIN q, NEW j \in DOMAIN q, i < j PROVE Before(q[i], q[j])
    <3>1. p[i] # p[j]
      <4>1. i # j
        BY <1>1, <1>7, <2>1
      <4> QED
        BY <1>9, <4>1, Zenon
    <3>2. Before(q[i], q[j]) \/ Before(q[j], q[i])
      BY <1>9, <1>12, <3>1, DistinctSorted
    <3> QED
      BY <1>6, <2>1, <3>2
  <2>2. ASSUME NEW i \in DOMAIN q PROVE ~Before(q[i], q[i])
    BY <1>7, BeforeFacts
  <2>3. ASSUME NEW i \in DOMAIN q, NEW j \in DOMAIN q, i < j PROVE q[i] # q[j]
    BY <2>1, <2>2, <2>3
  <2>4. Unique(q) = q
    BY <1>10, <2>3
  <2> QED
    BY <2>1, <2>4 DEF StrictlySorted
<1>13. Faithful(st)
  <2>1. st.slots = slots /\ st.objects = Unique(q)
    BY <1>5
  <2>2. \A i \in DOMAIN Unique(q) : \E k \in DOMAIN displays : Unique(q)[i] = Captured(k)
    BY <1>9, <1>10
  <2>3. \A k \in DOMAIN displays : \E i \in DOMAIN Unique(q) : Unique(q)[i] = Captured(k)
    BY <1>9, <1>10
  <2> QED
    BY <1>12, <2>1, <2>2, <2>3 DEF Faithful
<1> QED
  BY <1>11, <1>13

\* There is a state to collect from any scene.
LEMMA CaptureCompletes ==
  ASSUME SceneOK
  PROVE  Captures # {}
<1> DEFINE visited == [k \in DOMAIN displays |-> MakeCapturedObject(displays[k], slots)]
<1>1. DOMAIN displays = 1..Len(displays) /\ Len(displays) \in Nat
  BY DEF SceneOK
<1>2. \A k \in DOMAIN displays : MakeCapturedObject(displays[k], slots) \in Object
  BY CapturedOK DEF Captured
<1>3. visited \in Seq(Object)
  <2>1. visited \in [1..Len(displays) -> Object]
    BY <1>1, <1>2
  <2> QED
    BY <1>1, <2>1
<1>4. Captures = {[slots |-> slots, objects |-> Unique(q)] : q \in Sorted(visited)}
  BY DEF Captures
<1> HIDE DEF visited
<1>5. Sorted(visited) # {}
  BY <1>3, SortEnds
<1> QED
  BY <1>4, <1>5

\* When the sort can tell the objects apart, one state only is captured.
LEMMA OneState ==
  ASSUME SceneOK, Distinct, NEW st \in State, NEW su \in State, Faithful(st), Faithful(su)
  PROVE  st = su
<1>1. /\ st = [slots |-> st.slots, objects |-> st.objects] /\ st.objects \in Seq(Object)
      /\ su = [slots |-> su.slots, objects |-> su.objects] /\ su.objects \in Seq(Object)
  BY DEF State
<1>2. StrictlySorted(st.objects) /\ StrictlySorted(su.objects) /\ st.slots = su.slots
  BY DEF Faithful
<1>3. /\ \A i \in DOMAIN st.objects : \E j \in DOMAIN su.objects : su.objects[j] = st.objects[i]
      /\ \A j \in DOMAIN su.objects : \E i \in DOMAIN st.objects : st.objects[i] = su.objects[j]
  BY DEF Faithful
<1>4. st.objects = su.objects
  BY <1>1, <1>2, <1>3, SortedOnce
<1> QED
  BY <1>1, <1>2, <1>4

-----------------------------------------------------------------------------
(* Rendering.                                                              *)

\* A node is chosen for every slot; a Custom Item may be without one.
LEMMA NodesOK ==
  ASSUME NEW o \in Object
  PROVE  /\ o.slot \in Slots => SlotNode(o).node \in Nodes \cup ({"gear"} \X Slots)
         /\ SlotNode(o).parent \in BOOLEAN
         /\ CustomNode(o).node \in Nodes \cup {None}
         /\ CustomNode(o).parent \in BOOLEAN
<1> DEFINE h == Holder[o.attach]
<1>1. h \in Holders
  BY DisplayStateAssumption DEF Object
<1>2. h.prefix \in {"R", "P", "other"} /\ h.node \in Nodes /\ h.anchor \in Nodes \cup {None}
  BY <1>1 DEF Holders
<1>3. h.anchor \in Movable => h.anchor \in Nodes
  BY <1>2, DisplayStateAssumption
<1> HIDE DEF h
<1>4. /\ SlotNode(o) = IF h.anchor \in Movable THEN [node |-> h.anchor, parent |-> TRUE]
                       ELSE IF h.prefix # "other" THEN [node |-> h.node, parent |-> h.prefix = "P"]
                       ELSE [node |-> <<"gear", o.slot>>, parent |-> FALSE]
      /\ CustomNode(o) = IF h.prefix # "other" THEN [node |-> h.node, parent |-> h.prefix = "P"]
                         ELSE IF h.anchor # None THEN [node |-> h.anchor, parent |-> TRUE]
                         ELSE [node |-> None, parent |-> FALSE]
  BY DEF SlotNode, CustomNode, h
<1>5. o.slot \in Slots => <<"gear", o.slot>> \in {"gear"} \X Slots
  OBVIOUS
<1>6. (h.prefix = "P") \in BOOLEAN
  OBVIOUS
<1>7. /\ o.slot \in Slots => SlotNode(o).node \in Nodes \cup ({"gear"} \X Slots)
      /\ SlotNode(o).parent \in BOOLEAN
  <2>1. CASE h.anchor \in Movable
    BY <1>3, <1>4, <2>1
  <2>2. CASE h.anchor \notin Movable /\ h.prefix # "other"
    <3>1. SlotNode(o) = [node |-> h.node, parent |-> h.prefix = "P"]
      BY <1>4, <2>2
    <3> QED
      BY <1>2, <1>6, <3>1
  <2>3. CASE h.anchor \notin Movable /\ h.prefix = "other"
    <3>1. SlotNode(o) = [node |-> <<"gear", o.slot>>, parent |-> FALSE]
      BY <1>4, <2>3
    <3> QED
      BY <1>5, <3>1
  <2> QED
    BY <2>1, <2>2, <2>3
<1>8. CustomNode(o).node \in Nodes \cup {None} /\ CustomNode(o).parent \in BOOLEAN
  <2>1. CASE h.prefix # "other"
    <3>1. CustomNode(o) = [node |-> h.node, parent |-> h.prefix = "P"]
      BY <1>4, <2>1
    <3> QED
      BY <1>2, <1>6, <3>1
  <2>2. CASE h.prefix = "other"
    BY <1>2, <1>4, <2>2
  <2> QED
    BY <2>1, <2>2
<1> QED
  BY <1>7, <1>8

\* The items a slot's object and a Custom Item become.
SlotItem(q, i) == MakeItem("remote-slot", q[i].slot, q[i], SlotNode(q[i]))
CustomItem(q, i, n) == MakeItem("remote-custom", n - 1, q[i], CustomNode(q[i]))

Rendered(q) == {i \in DOMAIN q : Renders(q[i])}

\* The items of a state, each with the object it shows.
LEMMA ApplyFacts ==
  ASSUME NEW st \in State, NEW q, q = st.objects
  PROVE  /\ q \in Seq(Object)
         /\ \A it \in Apply(st) :
              \/ \E i \in SlotObjects(q) : q[i].form \notin Unresolved /\ it = SlotItem(q, i)
              \/ \E i \in Rendered(q) : /\ Rank(Rendered(q), i) \in Nat \ {0}
                                        /\ it = CustomItem(q, i, Rank(Rendered(q), i))
         /\ \A i \in SlotObjects(q) : q[i].form \notin Unresolved => SlotItem(q, i) \in Apply(st)
         /\ \A i \in Rendered(q) : CustomItem(q, i, Rank(Rendered(q), i)) \in Apply(st)
<1> DEFINE K == Rendered(q)
           customs == CustomObjects(q)
<1>1. q \in Seq(Object)
  BY DEF State
<1>2. K \in SUBSET DOMAIN q /\ customs = Pick(q, K)
  BY DEF Rendered, CustomObjects
<1>3. Apply(st) = {SlotItem(q, i) : i \in {j \in SlotObjects(q) : q[j].form \notin Unresolved}}
                    \cup {MakeItem("remote-custom", n - 1, customs[n], CustomNode(customs[n])) :
                            n \in DOMAIN customs}
  BY DEF Apply, SlotItem
<1> HIDE DEF K, customs
<1>4. /\ DOMAIN customs = 1..Cardinality(K) /\ K \in SUBSET (1..Len(q)) /\ Len(q) \in Nat
      /\ Cardinality(K) \in Nat
      /\ \A n \in 1..Cardinality(K) : Nth(K, n) \in K /\ customs[n] = q[Nth(K, n)]
  BY <1>1, <1>2, PickFacts
<1>5. /\ \A n \in 1..Cardinality(K) : Rank(K, Nth(K, n)) = n
      /\ \A i \in K : Rank(K, i) \in 1..Cardinality(K) /\ Nth(K, Rank(K, i)) = i
  BY <1>4, NthFacts
<1>6. ASSUME NEW n \in 1..Cardinality(K)
      PROVE  \E i \in K : /\ Rank(K, i) \in Nat \ {0}
                          /\ MakeItem("remote-custom", n - 1, customs[n], CustomNode(customs[n]))
                               = CustomItem(q, i, Rank(K, i))
  <2>1. Nth(K, n) \in K /\ Rank(K, Nth(K, n)) = n /\ customs[n] = q[Nth(K, n)] /\ n \in Nat \ {0}
    BY <1>4, <1>5
  <2> QED
    BY <2>1 DEF CustomItem
<1>7. ASSUME NEW i \in K
      PROVE  \E n \in DOMAIN customs :
               CustomItem(q, i, Rank(K, i))
                 = MakeItem("remote-custom", n - 1, customs[n], CustomNode(customs[n]))
  <2>1. Rank(K, i) \in DOMAIN customs /\ customs[Rank(K, i)] = q[i]
    BY <1>4, <1>5
  <2> QED
    BY <2>1 DEF CustomItem
<1>8. ASSUME NEW it \in Apply(st)
      PROVE  \/ \E i \in SlotObjects(q) : q[i].form \notin Unresolved /\ it = SlotItem(q, i)
             \/ \E i \in K : Rank(K, i) \in Nat \ {0} /\ it = CustomItem(q, i, Rank(K, i))
  <2>1. CASE it \in {SlotItem(q, i) : i \in {j \in SlotObjects(q) : q[j].form \notin Unresolved}}
    BY <2>1
  <2>2. CASE \E n \in DOMAIN customs :
               it = MakeItem("remote-custom", n - 1, customs[n], CustomNode(customs[n]))
    BY <1>4, <1>6, <2>2
  <2> QED
    BY <1>3, <2>1, <2>2
<1>9. \A i \in SlotObjects(q) : q[i].form \notin Unresolved => SlotItem(q, i) \in Apply(st)
  BY <1>3
<1>10. \A i \in K : CustomItem(q, i, Rank(K, i)) \in Apply(st)
  BY <1>3, <1>7
<1> QED
  BY <1>1, <1>8, <1>9, <1>10 DEF K

\* What is shown of a captured state is a set of well-formed items.
LEMMA ItemsOK ==
  ASSUME SceneOK, NEW st \in State, Faithful(st)
  PROVE  Apply(st) \subseteq Item
<1>1. PICK q : q = st.objects
  OBVIOUS
<1>2. q \in Seq(Object)
  BY <1>1 DEF State
<1>3. Slots \subseteq Nat /\ None \notin Slots
  BY DisplayStateAssumption DEF Slots
<1>4. ASSUME NEW i \in DOMAIN q
      PROVE  /\ q[i] \in Object /\ q[i].form \in Forms /\ q[i].pose \in Poses
             /\ q[i].slot \in Slots \cup {None}
             /\ q[i].kind = "slot" => q[i].slot \in Slots
  <2>1. PICK k \in DOMAIN displays : q[i] = Captured(k)
    BY <1>1 DEF Faithful
  <2>2. q[i] \in Object /\ q[i].kind = IF q[i].slot # None THEN "slot" ELSE "custom"
    BY <2>1, CapturedOK
  <2> QED
    BY <2>2 DEF Object
<1>5. ASSUME NEW i \in SlotObjects(q) PROVE SlotItem(q, i) \in Item
  <2>1. i \in DOMAIN q /\ q[i].kind = "slot"
    BY DEF SlotObjects
  <2>2. PICK sel : sel = SlotNode(q[i])
    OBVIOUS
  <2>3. sel.node \in Nodes \cup ({"gear"} \X Slots) /\ sel.parent \in BOOLEAN
    BY <1>4, <2>1, <2>2, NodesOK
  <2>4. <<"remote-slot", q[i].slot>> \in {"remote-slot", "remote-custom"} \X Nat
    BY <1>3, <1>4, <2>1
  <2> QED
    BY <1>4, <2>1, <2>2, <2>3, <2>4 DEF SlotItem, MakeItem, Item
<1>6. ASSUME NEW i \in Rendered(q), NEW n \in Nat \ {0} PROVE CustomItem(q, i, n) \in Item
  <2>1. i \in DOMAIN q /\ CustomNode(q[i]).node # None
    BY DEF Rendered, Renders
  <2>2. PICK sel : sel = CustomNode(q[i])
    OBVIOUS
  <2>3. sel.node \in Nodes \cup ({"gear"} \X Slots) /\ sel.parent \in BOOLEAN
    BY <1>4, <2>1, <2>2, NodesOK
  <2>4. <<"remote-custom", n - 1>> \in {"remote-slot", "remote-custom"} \X Nat
    OBVIOUS
  <2> QED
    BY <1>4, <2>1, <2>2, <2>3, <2>4 DEF CustomItem, MakeItem, Item
<1> QED
  BY <1>1, <1>5, <1>6, ApplyFacts

\* A state captured before IED attached the displays in another order might
\* have been captured after it.
LEMMA FaithfulReattached ==
  ASSUME SceneOK, displays' \in Reorderings(displays), slots' = slots
  PROVE  /\ SceneOK'
         /\ SlotsHold => SlotsHold'
         /\ FaithfulStates \subseteq FaithfulStates'
<1>1. displays \in Seq(Display)
  BY DEF SceneOK
<1>2. displays' \in Seq(Display) /\ DOMAIN displays' = DOMAIN displays
  BY <1>1, ReorderingFacts
<1>3. PICK p \in [DOMAIN displays -> DOMAIN displays] :
        /\ \A i \in DOMAIN displays : displays'[i] = displays[p[i]]
        /\ \A i, j \in DOMAIN displays : p[i] = p[j] => i = j
        /\ \A k \in DOMAIN displays : \E i \in DOMAIN displays : p[i] = k
  BY <1>1, ReorderingFacts
<1>4. SceneOK'
  BY <1>2 DEF SceneOK
<1>5. SlotsHold => SlotsHold'
  BY <1>2, <1>3 DEF SlotsHold
<1>6. \A k \in DOMAIN displays : Captured(k)' = Captured(p[k])
  BY <1>3 DEF Captured
<1>7. Distinct' => Distinct
  <2> SUFFICES ASSUME Distinct', NEW k \in DOMAIN displays, NEW m \in DOMAIN displays, k # m
               PROVE  \/ displays[k].form # displays[m].form
                      \/ displays[k].attach # displays[m].attach
    BY DEF Distinct
  <2>1. PICK a \in DOMAIN displays : p[a] = k
    BY <1>3
  <2>2. PICK b \in DOMAIN displays : p[b] = m
    BY <1>3
  <2>3. a # b
    BY <2>1, <2>2
  <2>4. \/ displays'[a].form # displays'[b].form
        \/ displays'[a].attach # displays'[b].attach
    BY <1>2, <2>3 DEF Distinct
  <2> QED
    BY <1>3, <2>1, <2>2, <2>4
<1>8. ASSUME NEW st, Faithful(st) PROVE Faithful(st)'
  <2>1. \A i \in DOMAIN st.objects : \E k \in DOMAIN displays : st.objects[i] = Captured(k)'
    <3> SUFFICES ASSUME NEW i \in DOMAIN st.objects
                 PROVE  \E k \in DOMAIN displays : st.objects[i] = Captured(k)'
      OBVIOUS
    <3>1. PICK m \in DOMAIN displays : st.objects[i] = Captured(m)
      BY <1>8 DEF Faithful
    <3>2. PICK k \in DOMAIN displays : p[k] = m
      BY <1>3
    <3> QED
      BY <1>6, <3>1, <3>2
  <2>2. \A k \in DOMAIN displays : \E i \in DOMAIN st.objects : st.objects[i] = Captured(k)'
    <3> SUFFICES ASSUME NEW k \in DOMAIN displays
                 PROVE  \E i \in DOMAIN st.objects : st.objects[i] = Captured(k)'
      OBVIOUS
    <3>1. p[k] \in DOMAIN displays
      OBVIOUS
    <3>2. PICK i \in DOMAIN st.objects : st.objects[i] = Captured(p[k])
      BY <1>8, <3>1 DEF Faithful
    <3> QED
      BY <1>6, <3>2
  <2>3. st.slots = slots' /\ (Distinct' => StrictlySorted(st.objects))
    BY <1>7, <1>8 DEF Faithful
  <2> QED
    BY <1>2, <2>1, <2>2, <2>3 DEF Faithful
<1> QED
  BY <1>4, <1>5, <1>8 DEF FaithfulStates

-----------------------------------------------------------------------------
(* The theorems.                                                           *)

\* A state is not taken for "no state", nor a message for "no message".
LEMMA NoneApart ==
  ASSUME NEW st \in State
  PROVE  st # None /\ Encode(st) # None
BY Message, NoneAssumption

LEMMA DisplayInit == Init => DisplayInv
<1> SUFFICES ASSUME Init PROVE DisplayInv
  OBVIOUS
<1>1. displays \in Seq(Display)
  <2>1. PICK n \in 0..MaxDisplays : displays \in [1..n -> Display]
    BY DEF Init
  <2>2. n \in Nat
    BY DisplayStateAssumption
  <2> QED
    BY <2>1, <2>2
<1>2. slots \in SlotState /\ state = None /\ payload = None /\ received = None /\ items = {}
  BY DEF Init
<1>3. SlotsHold
  BY DEF Init, SlotsHold
<1>4. TypeOK
  BY <1>1, <1>2 DEF TypeOK
<1>5. Chain
  BY <1>2 DEF Chain
<1> QED
  BY <1>3, <1>4, <1>5 DEF DisplayInv

LEMMA InvScene == DisplayInv => SceneOK
BY DEF DisplayInv, TypeOK, SceneOK

\* IED attaching the displays in another order changes no step of the chain.
LEMMA ReattachStep ==
  ASSUME DisplayInv, Reattach
  PROVE  DisplayInv'
<1>1. /\ displays' \in Reorderings(displays) /\ slots' = slots /\ state' = state
      /\ payload' = payload /\ received' = received /\ items' = items
  BY DEF Reattach
<1>2. SceneOK' /\ SlotsHold' /\ FaithfulStates \subseteq FaithfulStates'
  BY <1>1, InvScene, FaithfulReattached DEF DisplayInv
<1>3. TypeOK'
  BY <1>1, <1>2 DEF DisplayInv, TypeOK, SceneOK
<1>4. Chain'
  BY <1>1, <1>2 DEF DisplayInv, Chain
<1> QED
  BY <1>2, <1>3, <1>4 DEF DisplayInv

\* The scene is the same after a step that leaves it alone.
LEMMA SceneUnchanged ==
  ASSUME displays' = displays, slots' = slots
  PROVE  /\ SlotsHold => SlotsHold'
         /\ FaithfulStates \subseteq FaithfulStates'
<1>1. \A k : Captured(k)' = Captured(k)
  BY DEF Captured
<1>2. Distinct' <=> Distinct
  BY DEF Distinct
<1>3. ASSUME NEW st, Faithful(st) PROVE Faithful(st)'
  BY <1>1, <1>2, <1>3 DEF Faithful
<1> QED
  BY <1>3 DEF SlotsHold, FaithfulStates

\* A capture that is kept and sent was captured from these displays.
LEMMA CaptureStepOK ==
  ASSUME DisplayInv, CompleteCapture
  PROVE  DisplayInv'
<1>1. PICK st \in Captures : IF Encode(st) = payload THEN UNCHANGED <<state, payload>>
                                                     ELSE state' = st /\ payload' = Encode(st)
  BY DEF CompleteCapture
<1>2. displays' = displays /\ slots' = slots /\ received' = received /\ items' = items
  BY DEF CompleteCapture
<1>3. st \in State /\ Faithful(st)
  BY InvScene, CapturesFaithful
<1>4. st # None /\ Encode(st) # None
  BY <1>3, NoneApart
<1>5. SlotsHold' /\ FaithfulStates \subseteq FaithfulStates'
  BY <1>2, SceneUnchanged DEF DisplayInv
<1>6. /\ state' \in FaithfulStates \cup {None}
      /\ (payload' = None) <=> (state' = None)
      /\ payload' # None => payload' = Encode(state')
  <2>1. CASE Encode(st) = payload
    BY <1>1, <2>1 DEF DisplayInv, TypeOK, Chain
  <2>2. CASE Encode(st) # payload
    BY <1>1, <1>3, <1>4, <2>2 DEF FaithfulStates
  <2> QED
    BY <2>1, <2>2
<1>7. TypeOK'
  BY <1>2, <1>6 DEF DisplayInv, TypeOK, FaithfulStates
<1>8. Chain'
  BY <1>2, <1>5, <1>6 DEF DisplayInv, Chain
<1> QED
  BY <1>5, <1>7, <1>8 DEF DisplayInv

\* What the peer reads and shows is what was published.
LEMMA ReceiveStep ==
  ASSUME DisplayInv, Receive
  PROVE  DisplayInv'
<1>1. /\ payload # None /\ received' = Decode(payload) /\ items' = Apply(Decode(payload))
      /\ displays' = displays /\ slots' = slots /\ state' = state /\ payload' = payload
  BY DEF Receive
<1>2. state \in FaithfulStates /\ payload = Encode(state)
  BY <1>1 DEF DisplayInv, TypeOK, Chain
<1>3. state \in State /\ Faithful(state)
  BY <1>2 DEF FaithfulStates
<1>4. received' = state /\ items' = Apply(state) /\ state # None
  BY <1>1, <1>2, <1>3, DecodeEncode, NoneApart
<1>5. SlotsHold' /\ FaithfulStates \subseteq FaithfulStates'
  BY <1>1, SceneUnchanged DEF DisplayInv
<1>6. Apply(state) \subseteq Item
  BY <1>3, InvScene, ItemsOK
<1>7. TypeOK'
  BY <1>1, <1>3, <1>4, <1>6 DEF DisplayInv, TypeOK
<1>8. Chain'
  BY <1>1, <1>2, <1>4, <1>5 DEF Chain
<1> QED
  BY <1>5, <1>7, <1>8 DEF DisplayInv

LEMMA DisplayStep == DisplayInv /\ [Next]_vars => DisplayInv'
<1> SUFFICES ASSUME DisplayInv, [Next]_vars PROVE DisplayInv'
  OBVIOUS
<1>1. CASE Reattach
  BY <1>1, ReattachStep
<1>2. CASE CompleteCapture
  BY <1>2, CaptureStepOK
<1>3. CASE Receive
  BY <1>3, ReceiveStep
<1>4. CASE UNCHANGED vars
  <2>1. /\ displays' = displays /\ slots' = slots /\ state' = state
        /\ payload' = payload /\ received' = received /\ items' = items
    BY <1>4 DEF vars
  <2>2. SlotsHold' /\ FaithfulStates \subseteq FaithfulStates'
    BY <2>1, SceneUnchanged DEF DisplayInv
  <2>3. TypeOK' /\ Chain'
    BY <2>1, <2>2 DEF DisplayInv, TypeOK, Chain
  <2> QED
    BY <2>2, <2>3 DEF DisplayInv
<1> QED
  BY <1>1, <1>2, <1>3, <1>4 DEF Next

LEMMA DisplayInvariant == Spec => []DisplayInv
BY DisplayInit, DisplayStep, PTL DEF Spec

\* Displays, states and items are well typed, whatever the displays: in
\* particular every item has a node.
THEOREM DisplayTypeCorrect == Spec => []TypeOK
<1>1. DisplayInv => TypeOK
  BY DEF DisplayInv
<1> QED
  BY <1>1, DisplayInvariant, PTL

\* A capture always comes to an end, whatever is displayed: the sort order is
\* one, so that std::sort has a result and what is proved of captures is not
\* proved of nothing.
THEOREM CapturesEnd == Spec => [](Captures # {})
<1>1. DisplayInv => Captures # {}
  BY InvScene, CaptureCompletes
<1> QED
  BY <1>1, DisplayInvariant, PTL

\* For any slots, forms, attachments, poses and number of displays, the peer
\* reads exactly the state that was captured.
THEOREM PeersReadTheState == Spec => []RoundTrip
<1>1. DisplayInv => RoundTrip
  <2> SUFFICES ASSUME DisplayInv, payload # None PROVE Decode(payload) = state
    BY DEF RoundTrip
  <2>1. state \in State /\ payload = Encode(state)
    BY DEF DisplayInv, TypeOK, Chain
  <2> QED
    BY <2>1, DecodeEncode
<1> QED
  BY <1>1, DisplayInvariant, PTL

\* No form is displayed twice.
SingleForms ==
  \A i, j \in DOMAIN displays : i # j => displays[i].form # displays[j].form

\* Each object is then the only one of its form.
LEMMA OneObjectOfAForm ==
  ASSUME SceneOK, SingleForms, NEW st \in State, Faithful(st),
         NEW i \in DOMAIN st.objects, NEW j \in DOMAIN st.objects,
         st.objects[i].form = st.objects[j].form
  PROVE  i = j
<1>1. st.objects \in Seq(Object)
  BY DEF State
<1>2. i \in Nat /\ j \in Nat /\ st.objects[i] \in Object
  BY <1>1
<1>3. PICK k \in DOMAIN displays : st.objects[i] = Captured(k)
  BY DEF Faithful
<1>4. PICK m \in DOMAIN displays : st.objects[j] = Captured(m)
  BY DEF Faithful
<1>5. displays[k].form = displays[m].form
  BY <1>3, <1>4, CapturedOK
<1>6. st.objects[i] = st.objects[j]
  BY <1>3, <1>4, <1>5 DEF SingleForms
<1>7. StrictlySorted(st.objects)
  BY DEF SingleForms, Distinct, Faithful
<1>8. ~(i < j) /\ ~(j < i)
  BY <1>2, <1>6, <1>7, BeforeFacts DEF StrictlySorted
<1> QED
  BY <1>2, <1>8

\* An item shows the form and the pose of an object that is visible and whose
\* form the peer has.
LEMMA ItemShows ==
  ASSUME NEW st \in State, NEW it \in Apply(st), NEW q, q = st.objects
  PROVE  \E i \in DOMAIN q :
           /\ it.form = q[i].form /\ it.pose = q[i].pose
           /\ q[i].visible /\ q[i].form \notin Unresolved
           /\ \/ i \in SlotObjects(q) /\ it = SlotItem(q, i)
              \/ i \in Rendered(q) /\ it = CustomItem(q, i, Rank(Rendered(q), i))
<1>1. CASE \E i \in SlotObjects(q) : q[i].form \notin Unresolved /\ it = SlotItem(q, i)
  <2>1. PICK i \in SlotObjects(q) : q[i].form \notin Unresolved /\ it = SlotItem(q, i)
    BY <1>1
  <2>2. i \in DOMAIN q /\ q[i].visible
    BY DEF SlotObjects
  <2>3. it.form = q[i].form /\ it.pose = q[i].pose
    BY <2>1 DEF SlotItem, MakeItem
  <2> QED
    BY <2>1, <2>2, <2>3
<1>2. CASE \E i \in Rendered(q) : it = CustomItem(q, i, Rank(Rendered(q), i))
  <2>1. PICK i \in Rendered(q) : it = CustomItem(q, i, Rank(Rendered(q), i))
    BY <1>2
  <2>2. i \in DOMAIN q /\ q[i].visible /\ q[i].form \notin Unresolved
    BY DEF Rendered, Renders
  <2>3. it.form = q[i].form /\ it.pose = q[i].pose
    BY <2>1 DEF CustomItem, MakeItem
  <2> QED
    BY <2>1, <2>2, <2>3
<1>3. \/ \E i \in SlotObjects(q) : q[i].form \notin Unresolved /\ it = SlotItem(q, i)
      \/ \E i \in Rendered(q) : it = CustomItem(q, i, Rank(Rendered(q), i))
  BY ApplyFacts
<1> QED
  BY <1>1, <1>2, <1>3, Zenon

\* A visible display whose form the peer has, and that has a slot or a node,
\* has its item.
LEMMA DisplayHasItem ==
  ASSUME SceneOK, SlotsHold, SingleForms, NEW st \in State, Faithful(st), NEW q, q = st.objects,
         NEW k \in DOMAIN displays, Showable(displays[k]),
         displays[k].slot # None \/ CustomNode(displays[k]).node # None,
         NEW i \in DOMAIN q, q[i] = Captured(k)
  PROVE  \/ i \in SlotObjects(q)
         \/ i \in Rendered(q) /\ i \notin SlotObjects(q)
<1>1. /\ displays[k] \in Display /\ q[i].form = displays[k].form
      /\ q[i].visible = displays[k].visible /\ q[i].attach = displays[k].attach
      /\ q[i].slot = FindSlot(displays[k].form, slots)
      /\ q[i].kind = IF q[i].slot # None THEN "slot" ELSE "custom"
  BY CapturedOK
<1>2. q[i].visible /\ q[i].form \notin Unresolved
  BY <1>1 DEF Showable
<1>3. slots \in SlotState /\ displays[k].form \in Forms /\ displays[k].slot \in Slots \cup {None}
  BY <1>1 DEF SceneOK, Display
<1>4. CASE q[i].slot # None
  <2>1. q[i].kind = "slot" /\ slots[q[i].slot] = q[i].form
    BY <1>1, <1>3, <1>4, FindSlotFacts
  <2>2. ASSUME NEW j \in 1..(i - 1), j \in DOMAIN q, q[j].slot = q[i].slot PROVE FALSE
    <3>1. PICK m \in DOMAIN displays : q[j] = Captured(m)
      BY <2>2 DEF Faithful
    <3>2. q[j].form = displays[m].form /\ q[j].slot = FindSlot(displays[m].form, slots)
          /\ displays[m] \in Display
      BY <3>1, CapturedOK
    <3>3. slots[q[j].slot] = q[j].form
      BY <1>3, <1>4, <2>2, <3>2, FindSlotFacts DEF Display
    <3>4. q[j].form = q[i].form
      BY <2>1, <2>2, <3>3
    <3>5. j = i
      BY <2>2, <3>4, OneObjectOfAForm
    <3>6. i \in Nat
      BY DEF State
    <3> QED
      BY <3>5, <3>6
  <2>3. DOMAIN q = 1..Len(q) /\ Len(q) \in Nat
    BY DEF State
  <2>4. \A j \in 1..(i - 1) : j \in DOMAIN q
    BY <2>3
  <2>5. \A j \in 1..(i - 1) : ~(q[j].slot = q[i].slot /\ q[j].visible)
    BY <2>2, <2>4
  <2>6. i \in SlotObjects(q)
    BY <1>2, <2>1, <2>5 DEF SlotObjects
  <2> QED
    BY <2>6
<1>5. CASE q[i].slot = None
  <2>1. q[i].kind = "custom"
    BY <1>1, <1>5
  <2>2. displays[k].slot = None
    <3>1. displays[k].slot # None =>
            displays[k].slot \in Slots /\ slots[displays[k].slot] = displays[k].form
      BY <1>3 DEF SlotsHold
    <3>2. ~\E s \in Slots : slots[s] = displays[k].form
      BY <1>1, <1>3, <1>5, FindSlotFacts
    <3> QED
      BY <3>1, <3>2, Zenon
  <2>3. CustomNode(q[i]).node # None
    BY <1>1, <2>2 DEF CustomNode
  <2>4. i \in Rendered(q)
    BY <1>2, <2>1, <2>3 DEF Rendered, Renders
  <2>5. i \notin SlotObjects(q)
    BY <2>1 DEF SlotObjects
  <2> QED
    BY <2>4, <2>5
<1> QED
  BY <1>4, <1>5

LEMMA ShownOnceFollows == DisplayInv => EachShownOnce
<1> SUFFICES ASSUME DisplayInv, received # None, SingleForms
             PROVE  /\ \A k \in DOMAIN displays :
                         Showable(displays[k])
                           /\ (displays[k].slot # None \/ CustomNode(displays[k]).node # None)
                         => Cardinality(Shown(displays[k])) = 1
                    /\ \A it \in items : \E k \in DOMAIN displays :
                         Showable(displays[k]) /\ it \in Shown(displays[k])
  BY DEF EachShownOnce, SingleForms
<1>1. SceneOK /\ SlotsHold
  BY InvScene DEF DisplayInv
<1>2. PICK st : st = received
  OBVIOUS
<1>3. st \in State /\ Faithful(st) /\ items = Apply(st)
  BY <1>2 DEF DisplayInv, Chain, FaithfulStates
<1>4. PICK q : q = st.objects
  OBVIOUS
<1>5. ASSUME NEW it \in items
      PROVE  \E k \in DOMAIN displays : Showable(displays[k]) /\ it \in Shown(displays[k])
  <2>1. PICK i \in DOMAIN q :
          it.form = q[i].form /\ it.pose = q[i].pose /\ q[i].visible /\ q[i].form \notin Unresolved
    BY <1>3, <1>4, ItemShows
  <2>2. PICK k \in DOMAIN displays : q[i] = Captured(k)
    BY <1>3, <1>4 DEF Faithful
  <2>3. q[i].form = displays[k].form /\ q[i].pose = displays[k].pose
        /\ q[i].visible = displays[k].visible
    BY <1>1, <2>2, CapturedOK
  <2> QED
    BY <2>1, <2>3 DEF Showable, Shown
<1>6. ASSUME NEW k \in DOMAIN displays, Showable(displays[k]),
             displays[k].slot # None \/ CustomNode(displays[k]).node # None
      PROVE  Cardinality(Shown(displays[k])) = 1
  <2>1. PICK i \in DOMAIN q : q[i] = Captured(k)
    BY <1>3, <1>4 DEF Faithful
  <2>2. q[i].form = displays[k].form /\ q[i].pose = displays[k].pose
        /\ q[i].visible = displays[k].visible
    BY <1>1, <2>1, CapturedOK
  <2>3. q[i].form \notin Unresolved
    BY <1>6, <2>2 DEF Showable
  <2>4. PICK own : own = IF i \in SlotObjects(q) THEN SlotItem(q, i)
                         ELSE CustomItem(q, i, Rank(Rendered(q), i))
    OBVIOUS
  <2>5. i \in SlotObjects(q) \/ (i \in Rendered(q) /\ i \notin SlotObjects(q))
    BY <1>1, <1>3, <1>4, <1>6, <2>1, DisplayHasItem
  <2>6. own \in Apply(st)
    BY <1>3, <1>4, <2>3, <2>4, <2>5, ApplyFacts
  <2>7. own.form = q[i].form /\ own.pose = q[i].pose
    BY <2>4 DEF SlotItem, CustomItem, MakeItem
  <2>8. own \in Shown(displays[k])
    BY <1>3, <2>2, <2>6, <2>7 DEF Shown
  <2>9. ASSUME NEW it \in Shown(displays[k]) PROVE it = own
    <3>1. it \in Apply(st) /\ it.form = q[i].form
      BY <1>3, <2>2 DEF Shown
    <3>2. PICK j \in DOMAIN q :
            /\ it.form = q[j].form
            /\ \/ j \in SlotObjects(q) /\ it = SlotItem(q, j)
               \/ j \in Rendered(q) /\ it = CustomItem(q, j, Rank(Rendered(q), j))
      BY <1>3, <1>4, <3>1, ItemShows
    <3>3. j = i
      BY <1>1, <1>3, <1>4, <3>1, <3>2, OneObjectOfAForm
    <3>4. ~(i \in SlotObjects(q) /\ i \in Rendered(q))
      BY DEF SlotObjects, Rendered, Renders
    <3> QED
      BY <2>4, <3>2, <3>3, <3>4
  <2>10. Shown(displays[k]) = {own}
    BY <2>8, <2>9
  <2> QED
    BY <2>10, FS_Singleton
<1> QED
  BY <1>5, <1>6

\* While no form is displayed twice the peer shows every display that it can
\* show exactly once, in the pose it was captured in, and nothing else.
THEOREM DisplaysAreShownOnce == Spec => []EachShownOnce
BY ShownOnceFollows, DisplayInvariant, PTL

\* Reattaching displays that the sort can tell apart publishes nothing new:
\* every order they may be visited in gives the state published last.
LEMMA NothingNew ==
  DisplayInv /\ [Next]_vars => (Distinct /\ payload # None => payload' = payload)
<1> SUFFICES ASSUME DisplayInv, [Next]_vars, Distinct, payload # None PROVE payload' = payload
  OBVIOUS
<1>1. CASE CompleteCapture
  <2>1. PICK st \in Captures : IF Encode(st) = payload THEN UNCHANGED <<state, payload>>
                                                       ELSE state' = st /\ payload' = Encode(st)
    BY <1>1 DEF CompleteCapture
  <2>2. SceneOK /\ st \in State /\ Faithful(st)
    BY InvScene, CapturesFaithful
  <2>3. state \in State /\ Faithful(state) /\ payload = Encode(state)
    BY DEF DisplayInv, TypeOK, Chain, FaithfulStates
  <2>4. st = state
    BY <2>2, <2>3, OneState
  <2> QED
    BY <2>1, <2>3, <2>4
<1>2. CASE Reattach \/ Receive \/ UNCHANGED vars
  BY <1>2 DEF Reattach, Receive, vars
<1> QED
  BY <1>1, <1>2 DEF Next

\* Displays that did not change are never published again.
THEOREM UnchangedIsNotSent == Spec => NoSpuriousChange
<1>1. DisplayInv /\ [Next]_vars => [Distinct /\ payload # None => payload' = payload]_vars
  BY NothingNew
<1> QED
  BY <1>1, DisplayInvariant, PTL DEF Spec, NoSpuriousChange
=============================================================================
