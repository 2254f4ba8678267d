------------------------- MODULE PartitionLogProofs --------------------------
(***************************************************************************)
(* Facts about the operators of PartitionLog that the proofs about one     *)
(* partition and about the broker's topics share.                          *)
(***************************************************************************)
EXTENDS PartitionLog, SequenceTheorems, WellFoundedInduction, TLAPS

(* Every nonempty set of naturals has a least element; this replaces       *)
(* induction on the rounds of the eviction loop.                           *)
LEMMA NatMinimum ==
  ASSUME NEW T, T \subseteq Nat, T # {}
  PROVE  \E x \in T : \A y \in T : x <= y
<1> DEFINE R == OpToRel(<, Nat)
<1>1. IsWellFoundedOn(R, Nat)
  BY NatLessThanWellFounded, Zenon
<1>2. \A x, y \in Nat : y < x => << y, x >> \in R
  BY DEF OpToRel
<1> HIDE DEF R
<1>3. PICK x \in T : \A y \in T : ~ (<< y, x >> \in R)
  BY <1>1, WFMin
<1>4. ASSUME NEW y \in T PROVE x <= y
  <2>1. << y, x >> \notin R
    BY <1>3
  <2>2. y < x => << y, x >> \in R
    BY <1>2
  <2> QED BY <2>1, <2>2
<1> QED BY <1>3, <1>4

(* The eviction loop of evict_buffer stops, after a definite number of     *)
(* rounds.                                                                 *)
LEMMA EvictionStops ==
  ASSUME NEW policies, NEW M, NEW log \in Seq(M), NEW now
  PROVE  \E k \in 0..Len(log) : EvictsExactly(policies, log, now, k)
<1> DEFINE Stops(k) == \/ k = Len(log)
                       \/ ~ AnyPolicyEvicts(policies, Len(log) - k, log[k + 1], now)
           T == {k \in 0..Len(log) : Stops(k)}
<1>1. Len(log) \in T
  BY LenProperties
<1>2. T \subseteq Nat
  OBVIOUS
<1>3. PICK k \in T : \A y \in T : k <= y
  <2> HIDE DEF T
  <2> QED BY <1>1, <1>2, NatMinimum
<1>4. k \in 0..Len(log) /\ Stops(k)
  BY <1>3
<1>5. ASSUME NEW j \in 0..(k - 1)
      PROVE  AnyPolicyEvicts(policies, Len(log) - j, log[j + 1], now)
  <2>1. j \in 0..Len(log) /\ j < k
    BY <1>4, LenProperties
  <2>2. j \notin T
    BY <1>3, <2>1
  <2> QED BY <2>1, <2>2
<1>6. EvictsExactly(policies, log, now, k)
  BY <1>4, <1>5 DEF EvictsExactly
<1> QED BY <1>4, <1>6

(* Buffer r is b with msg pushed at the back and the front popped to some  *)
(* length.                                                                 *)
EndKept(b, r, msg, M) ==
    LET full == Append(b.log, msg)
    IN  /\ DOMAIN r = DOMAIN b
        /\ r.next_offset = b.next_offset + 1
        /\ r.log \in Seq(M \cup {msg})
        /\ Len(r.log) <= Len(full)
        /\ \A i \in 1..Len(r.log) : r.log[i] = full[Len(full) - Len(r.log) + i]

(* That is what append does, whatever its policies evict.                  *)
LEMMA AppendedKeepsTheEnd ==
  ASSUME NEW b, NEW M, b.log \in Seq(M),
         "log" \in DOMAIN b, "next_offset" \in DOMAIN b,
         NEW kind, NEW value, NEW created_at, NEW now
  PROVE  EndKept(b, Appended(b, kind, value, created_at, now),
                 StoredMessage(kind, value, b.next_offset, created_at), M)
<1> DEFINE msg  == StoredMessage(kind, value, b.next_offset, created_at)
           full == Append(b.log, msg)
           popped == PopAtCapacity(b.max_capacity, full)
           l == evict_buffer(b.policies, popped, now)
           N == M \cup {msg}
<1> HIDE DEF msg
<1>1. full \in Seq(N) /\ Len(full) \in Nat /\ Len(full) > 0
  <2>1. b.log \in Seq(N) OBVIOUS
  <2> QED BY <2>1, AppendProperties, LenProperties
<1> HIDE DEF full, N
<1>2. /\ popped \in Seq(N) /\ Len(popped) \in Nat /\ Len(popped) <= Len(full)
      /\ \A i \in 1..Len(popped) :
            popped[i] = full[Len(full) - Len(popped) + i]
  <2>1. CASE popped = full BY <1>1, <2>1
  <2>2. CASE popped = Tail(full)
    <3>1. full # << >> BY <1>1
    <3>2. /\ Tail(full) \in Seq(N)
          /\ Len(Tail(full)) = Len(full) - 1
          /\ \A i \in 1..Len(Tail(full)) : Tail(full)[i] = full[i + 1]
      BY <1>1, <3>1, HeadTailProperties
    <3> QED BY <1>1, <2>2, <3>2
  <2> QED BY <2>1, <2>2 DEF PopAtCapacity
<1> HIDE DEF popped
<1>3. /\ l \in Seq(N) /\ Len(l) \in Nat /\ Len(l) <= Len(popped)
      /\ \A i \in 1..Len(l) : l[i] = popped[Len(popped) - Len(l) + i]
  <2> DEFINE k == CHOOSE k \in 0..Len(popped) :
                     EvictsExactly(b.policies, popped, now, k)
  <2>1. k \in 0..Len(popped) BY <1>2, EvictionStops
  <2>2. l = SubSeq(popped, k + 1, Len(popped)) BY DEF evict_buffer
  <2> HIDE DEF k, l
  <2>3. \A i \in (k + 1)..Len(popped) : popped[i] \in N
    BY <1>2, <2>1, ElementOfSeq
  <2>4. /\ l \in Seq(N)
        /\ Len(l) = Len(popped) - k
        /\ \A i \in 1..(Len(popped) - k) : l[i] = popped[k + i]
    BY <1>2, <2>1, <2>2, <2>3, SubSeqProperties
  <2> QED BY <1>2, <2>1, <2>4
<1>4. Appended(b, kind, value, created_at, now) =
         [b EXCEPT !.log = l, !.next_offset = @ + 1]
  BY DEF Appended, msg, full, popped
<1> HIDE DEF l
<1>5. PICK r : r = [b EXCEPT !.log = l, !.next_offset = @ + 1] OBVIOUS
<1>6. DOMAIN r = DOMAIN b BY <1>5
<1>7. r.next_offset = b.next_offset + 1 BY <1>5
<1>8. r.log = l BY <1>5
<1>9. \A i \in 1..Len(l) : l[i] = full[Len(full) - Len(l) + i]
  <2> SUFFICES ASSUME NEW i \in 1..Len(l)
               PROVE  l[i] = full[Len(full) - Len(l) + i]
    OBVIOUS
  <2>1. l[i] = popped[Len(popped) - Len(l) + i] BY <1>3
  <2>2. PICK j : j = Len(popped) - Len(l) + i OBVIOUS
  <2>3. j \in 1..Len(popped) /\ Len(full) - Len(popped) + j = Len(full) - Len(l) + i
    BY <1>1, <1>2, <1>3, <2>2
  <2>4. popped[j] = full[Len(full) - Len(popped) + j] BY <1>2, <2>3
  <2> QED BY <2>1, <2>2, <2>3, <2>4
<1>10. Len(l) <= Len(full) BY <1>1, <1>2, <1>3
<1> QED BY <1>3, <1>4, <1>5, <1>6, <1>7, <1>8, <1>9, <1>10
   DEF EndKept, msg, full, N
=============================================================================
