------------------------- MODULE ConsumerGroupProofs -------------------------
(***************************************************************************)
(* Proofs about ConsumerGroup for any members, topics and partition count: *)
(* type correctness, exclusive and balanced assignments, and that a join   *)
(* leaves no partition of the joiner's topics without an owner.            *)
(***************************************************************************)
EXTENDS ConsumerGroup, FiniteSetTheorems, TLAPS

(* The remainder of a division by a positive number.                       *)
LEMMA ModRange ==
  ASSUME NEW p \in Nat, NEW n \in Nat, n > 0
  PROVE  p % n \in 0..(n - 1)
OBVIOUS

(* An index is below the number of members.                                *)
LEMMA IndexRange ==
  ASSUME NEW S, IsFiniteSet(S), S \subseteq Int, NEW m \in S
  PROVE  Index(S, m) \in 0..(Cardinality(S) - 1)
<1> DEFINE T == {x \in S : x < m}
<1>1. T \in SUBSET S /\ m \notin T
  OBVIOUS
<1>2. /\ IsFiniteSet(T) /\ Cardinality(T) <= Cardinality(S)
      /\ Cardinality(S) = Cardinality(T) => S = T
  <2> HIDE DEF T
  <2> QED BY <1>1, FS_Subset
<1>3. Cardinality(T) # Cardinality(S)
  BY <1>1, <1>2
<1>4. Cardinality(T) \in Nat /\ Cardinality(S) \in Nat
  BY <1>2, FS_CardinalityType
<1> HIDE DEF T
<1>5. Cardinality(T) \in 0..(Cardinality(S) - 1)
  BY <1>2, <1>3, <1>4
<1> QED BY <1>5 DEF Index, T

LEMMA IndexOrdered ==
  ASSUME NEW S, IsFiniteSet(S), S \subseteq Int, NEW m \in S, NEW n \in S, m < n
  PROVE  Index(S, m) # Index(S, n)
<1> DEFINE T == {x \in S : x < m}
           U == {x \in S : x < n}
<1>1. T \in SUBSET U /\ m \in U /\ m \notin T /\ U \in SUBSET S
  <2>1. \A x \in S : x < m => x < n
    OBVIOUS
  <2>2. T \in SUBSET U
    BY <2>1, Zenon
  <2>3. m \in U /\ m \notin T
    OBVIOUS
  <2>4. U \in SUBSET S
    OBVIOUS
  <2> QED BY <2>2, <2>3, <2>4
<1> HIDE DEF T, U
<1>2. IsFiniteSet(U)
  BY <1>1, FS_Subset
<1>3. Cardinality(U) = Cardinality(T) => U = T
  BY <1>1, <1>2, FS_Subset
<1>4. Cardinality(U) # Cardinality(T)
  BY <1>1, <1>3
<1> QED BY <1>4 DEF Index, T, U

(* No two members have the same index.                                     *)
LEMMA IndexInjective ==
  ASSUME NEW S, IsFiniteSet(S), S \subseteq Int, NEW m \in S, NEW n \in S,
         m # n
  PROVE  Index(S, m) # Index(S, n)
<1>1. CASE m < n
  BY <1>1, IndexOrdered
<1>2. CASE n < m
  BY <1>2, IndexOrdered
<1> QED BY <1>1, <1>2

(* Every index below the number of members is someone's: an injection of   *)
(* the members into as many indices is onto.                               *)
LEMMA IndexOnto ==
  ASSUME NEW S, IsFiniteSet(S), S \subseteq Int,
         NEW i \in 0..(Cardinality(S) - 1)
  PROVE  \E m \in S : Index(S, m) = i
<1> DEFINE T == 0..(Cardinality(S) - 1)
           f == [m \in S |-> Index(S, m)]
<1>1. Cardinality(S) \in Nat
  BY FS_CardinalityType
<1>2. f \in Injection(S, T)
  <2>1. f \in [S -> T]
    BY IndexRange
  <2>2. \A a, b \in S : f[a] = f[b] => a = b
    BY IndexInjective
  <2> QED BY <2>1, <2>2 DEF Injection, IsInjective
<1>3. IsFiniteSet(T) /\ Cardinality(T) = Cardinality(S)
  BY <1>1, FS_Interval
<1>4. f \in Surjection(S, T)
  <2> HIDE DEF T, f
  <2> QED BY <1>2, <1>3, FS_Injection
<1>5. \E m \in S : f[m] = i
  BY <1>4 DEF Surjection
<1> QED BY <1>5

-----------------------------------------------------------------------------
(* Partitions by their remainders.                                         *)

LEMMA DivMod ==
  ASSUME NEW q \in Nat, NEW k \in Nat \ {0}
  PROVE  q \div k \in Int /\ q = k * (q \div k) + (q % k)
BY SMT

LEMMA ModUnique ==
  ASSUME NEW k \in Nat, k > 0, NEW d \in Int, NEW r \in 0..(k - 1)
  PROVE  (k * d + r) % k = r
BY SMT

(* From a number that leaves i, going back to one that leaves j.           *)
LEMMA ModShift ==
  ASSUME NEW k \in Nat, k > 0, NEW i \in 0..(k - 1), NEW j \in 0..(k - 1),
         NEW q \in Nat, q % k = i, q # i
  PROVE  q - i + j - k \in Nat /\ (q - i + j - k) % k = j
<1>1. PICK d \in Int : q = k * d + i BY DivMod
<1>2. d > 0
  <2>1. CASE d = 0 BY <1>1, <2>1
  <2>2. CASE d < 0
    <3>1. k * d <= -k BY <2>2
    <3> QED BY <1>1, <3>1
  <2> QED BY <2>1, <2>2
<1>3. PICK e \in Nat : d = e + 1
  <2>1. d - 1 \in Nat /\ d = (d - 1) + 1 BY <1>2
  <2> QED BY <2>1
<1>4. k * d = k * e + k /\ k * e \in Nat BY <1>3
<1>5. q - i + j - k = k * e + j BY <1>1, <1>4
<1>6. (k * e + j) % k = j BY ModUnique
<1> QED BY <1>4, <1>5, <1>6

Class(n, k, i) == {q \in 0..(n - 1) : q % k = i}

(* Residue classes differ by at most one number: all but the first of one  *)
(* have their own in the other.                                            *)
LEMMA ClassesBalanced ==
  ASSUME NEW n \in Nat, NEW k \in Nat, k > 0,
         NEW i \in 0..(k - 1), NEW j \in 0..(k - 1)
  PROVE  /\ IsFiniteSet(Class(n, k, i)) /\ IsFiniteSet(Class(n, k, j))
         /\ Cardinality(Class(n, k, i)) <= Cardinality(Class(n, k, j)) + 1
<1> DEFINE A == Class(n, k, i)
           B == Class(n, k, j)
           C == A \ {i}
           f == [q \in C |-> q - i + j - k]
<1>1. IsFiniteSet(0..(n - 1)) BY FS_Interval
<1>2. A \in SUBSET (0..(n - 1)) /\ B \in SUBSET (0..(n - 1)) BY DEF Class
<1>3. IsFiniteSet(A) /\ IsFiniteSet(B)
  <2> HIDE DEF A, B
  <2> QED BY <1>1, <1>2, FS_Subset
<1>4. ASSUME NEW q \in C PROVE f[q] \in B
  <2>1. q \in 0..(n - 1) /\ q \in Nat /\ q % k = i /\ q # i BY DEF Class
  <2>2. q - i + j - k \in Nat /\ (q - i + j - k) % k = j BY <2>1, ModShift
  <2>3. q - i + j - k \in 0..(n - 1) BY <2>1, <2>2
  <2> QED BY <2>2, <2>3 DEF Class
<1>5. f \in Injection(C, B)
  <2>1. f \in [C -> B] BY <1>4
  <2>2. \A a, b \in C : a \in Int /\ b \in Int
    <3>1. C \in SUBSET Int BY DEF Class
    <3> HIDE DEF C
    <3> QED BY <3>1
  <2>3. \A a, b \in C : f[a] = f[b] => a = b BY <2>2
  <2> QED BY <2>1, <2>3 DEF Injection, IsInjective
<1> HIDE DEF A, B, f
<1>6. IsFiniteSet(C) /\ Cardinality(C) <= Cardinality(B) BY <1>3, <1>5, FS_Injection
<1>7. Cardinality(C) = IF i \in A THEN Cardinality(A) - 1 ELSE Cardinality(A)
  BY <1>3, FS_RemoveElement
<1>8. Cardinality(A) \in Nat /\ Cardinality(B) \in Nat BY <1>3, FS_CardinalityType
<1>9. Cardinality(A) <= Cardinality(B) + 1 BY <1>6, <1>7, <1>8
<1> QED BY <1>3, <1>9 DEF A, B

PairsOf(t, C) == {<< t, q >> : q \in C}

(* As many pairs as second components.                                     *)
LEMMA PairsCount ==
  ASSUME NEW C, IsFiniteSet(C), NEW t
  PROVE  Cardinality(PairsOf(t, C)) = Cardinality(C)
<1> DEFINE f == [q \in C |-> << t, q >>]
<1>1. f \in Bijection(C, PairsOf(t, C))
  <2>1. f \in [C -> PairsOf(t, C)] BY DEF PairsOf
  <2>2. \A a, b \in C : f[a] = f[b] => a = b OBVIOUS
  <2>3. \A p \in PairsOf(t, C) : \E q \in C : f[q] = p BY DEF PairsOf
  <2> QED BY <2>1, <2>2, <2>3 DEF Bijection, Injection, IsInjective, Surjection
<1> HIDE DEF f
<1>2. ExistsBijection(C, PairsOf(t, C)) BY <1>1 DEF ExistsBijection
<1> QED BY <1>2, FS_Bijection

-----------------------------------------------------------------------------
(* What the assignor gives to a member.                                    *)
LEMMA AssignGives ==
  ASSUME NEW mt, NEW known, NEW m \in DOMAIN mt,
         NEW tp \in assign(mt, CountsOf(known))[m]
  PROVE  \E t \in mt[m] \cap known, p \in 0..(NumPartitions - 1) :
            tp = << t, p >> /\ GetsPartition(mt, m, t, p)
BY DEF assign, CountsOf

LEMMA AssignTakes ==
  ASSUME NEW mt, NEW known, NEW m \in DOMAIN mt,
         NEW t \in mt[m] \cap known, NEW p \in 0..(NumPartitions - 1),
         GetsPartition(mt, m, t, p)
  PROVE  << t, p >> \in assign(mt, CountsOf(known))[m]
<1>1. p \in {q \in 0..(CountsOf(known)[t] - 1) : GetsPartition(mt, m, t, q)}
  BY DEF CountsOf
<1>2. t \in mt[m] \cap DOMAIN CountsOf(known)
  BY DEF CountsOf
<1> QED BY <1>1, <1>2 DEF assign

(* The assignor gives a partition to one member only.                      *)
LEMMA AssignExclusive ==
  ASSUME NEW mt, IsFiniteSet(DOMAIN mt), DOMAIN mt \subseteq Int, NEW known,
         NEW m \in DOMAIN mt, NEW n \in DOMAIN mt, m # n,
         NEW tp \in assign(mt, CountsOf(known))[m]
  PROVE  tp \notin assign(mt, CountsOf(known))[n]
<1> SUFFICES ASSUME tp \in assign(mt, CountsOf(known))[n]
             PROVE  FALSE
  OBVIOUS
<1>1. PICK t \in mt[m] \cap known, p \in 0..(NumPartitions - 1) :
         tp = << t, p >> /\ GetsPartition(mt, m, t, p)
  BY AssignGives
<1>2. PICK u \in mt[n] \cap known, q \in 0..(NumPartitions - 1) :
         tp = << u, q >> /\ GetsPartition(mt, n, u, q)
  BY AssignGives
<1>3. t = u /\ p = q
  BY <1>1, <1>2
<1> DEFINE S == Subscribers(mt, t)
<1>4. m \in S /\ n \in S /\ S \in SUBSET DOMAIN mt
  BY <1>1, <1>2, <1>3 DEF Subscribers
<1>5. Index(S, m) = Index(S, n)
  BY <1>1, <1>2, <1>3 DEF GetsPartition
<1> HIDE DEF S
<1>6. IsFiniteSet(S) /\ S \subseteq Int
  BY <1>4, FS_Subset
<1> QED BY <1>4, <1>5, <1>6, IndexInjective

(* The assignor leaves no partition of a known topic without an owner, if  *)
(* the topic has a subscriber.                                             *)
LEMMA AssignCovers ==
  ASSUME NEW mt, IsFiniteSet(DOMAIN mt), DOMAIN mt \subseteq Int, NEW known,
         NEW m \in DOMAIN mt, NEW t \in mt[m] \cap known,
         NEW p \in 0..(NumPartitions - 1)
  PROVE  \E n \in DOMAIN mt : << t, p >> \in assign(mt, CountsOf(known))[n]
<1> DEFINE S == Subscribers(mt, t)
           i == p % Cardinality(S)
<1>1. m \in S /\ S \in SUBSET DOMAIN mt
  BY DEF Subscribers
<1>2. \A n \in S : t \in mt[n]
  BY DEF Subscribers
<1> HIDE DEF S
<1>3. IsFiniteSet(S) /\ S \subseteq Int
  BY <1>1, FS_Subset
<1>4. Cardinality(S) \in Nat /\ Cardinality(S) > 0
  <2>1. Cardinality(S) \in Nat
    BY <1>3, FS_CardinalityType
  <2>2. Cardinality(S) # 0
    BY <1>1, <1>3, FS_EmptySet
  <2> QED BY <2>1, <2>2
<1>5. p \in Nat
  BY PartitionsAssumption
<1>6. i \in 0..(Cardinality(S) - 1)
  BY <1>4, <1>5, ModRange
<1> HIDE DEF i
<1>7. PICK n \in S : Index(S, n) = i
  BY <1>3, <1>6, IndexOnto
<1>8. GetsPartition(mt, n, t, p)
  BY <1>7 DEF GetsPartition, S, i
<1>9. n \in DOMAIN mt /\ t \in mt[n] \cap known
  BY <1>1, <1>2
<1> QED BY <1>8, <1>9, AssignTakes

-----------------------------------------------------------------------------
(* The inductive invariant: the three maps of the group have the same,     *)
(* finite, set of keys, and the assignments are what the assignor answers  *)
(* for the current subscriptions and the topics some caller knew of.       *)
IndInv ==
    /\ group.members \subseteq Members
    /\ IsFiniteSet(group.members)
    /\ group.member_topics \in [group.members -> SUBSET Topics]
    /\ \E known \in SUBSET Topics :
          group.assignments = assign(group.member_topics, CountsOf(known))
    /\ group = [members       |-> group.members,
                member_topics |-> group.member_topics,
                assignments   |-> group.assignments]

(* With no members, both maps are empty.                                   *)
LEMMA NoMembers ==
  ASSUME NEW mt, NEW known, DOMAIN mt = {}
  PROVE  assign(mt, CountsOf(known)) = EmptyMap
BY DEF assign, EmptyMap

LEMMA InitInv == Init => IndInv
<1> SUFFICES ASSUME Init PROVE IndInv
  OBVIOUS
<1>1. /\ group.members = {} /\ group.member_topics = EmptyMap
      /\ group.assignments = EmptyMap
      /\ group = [members |-> group.members,
                  member_topics |-> group.member_topics,
                  assignments |-> group.assignments]
  BY DEF Init, NewGroup
<1>2. DOMAIN EmptyMap = {} /\ EmptyMap \in [{} -> SUBSET Topics]
  BY DEF EmptyMap
<1>3. assign(group.member_topics, CountsOf({})) = EmptyMap
  BY <1>1, <1>2, NoMembers
<1> QED BY <1>1, <1>2, <1>3, FS_EmptySet DEF IndInv

LEMMA JoinPreserves ==
  ASSUME IndInv, NEW m \in Members, NEW topics \in SUBSET Topics,
         join(m, topics)
  PROVE  /\ IndInv'
         /\ group'.members = group.members \cup {m}
         /\ group'.member_topics = Insert(group.member_topics, m, topics)
         /\ group'.assignments =
               assign(group'.member_topics, CountsOf(topics))
<1> DEFINE mt == Insert(group.member_topics, m, topics)
<1>1. /\ group'.members = group.members \cup {m}
      /\ group'.member_topics = mt
      /\ group'.assignments = assign(mt, CountsOf(topics))
      /\ group' = [members |-> group'.members,
                   member_topics |-> group'.member_topics,
                   assignments |-> group'.assignments]
  BY DEF IndInv, join, Joined, rebalance
<1>2. mt \in [group.members \cup {m} -> SUBSET Topics]
  BY DEF IndInv, Insert
<1>3. IsFiniteSet(group.members \cup {m})
  BY FS_AddElement DEF IndInv
<1> QED BY <1>1, <1>2, <1>3 DEF IndInv

LEMMA LeavePreserves ==
  ASSUME IndInv, NEW m \in Members, NEW known \in SUBSET Topics,
         leave(m, known)
  PROVE  IndInv'
<1> DEFINE rest == [group EXCEPT !.members = @ \ {m},
                                 !.member_topics = Remove(@, m),
                                 !.assignments = Remove(@, m)]
           mt   == Remove(group.member_topics, m)
<1>1. /\ rest.members = group.members \ {m}
      /\ rest.member_topics = mt
      /\ rest.assignments = Remove(group.assignments, m)
      /\ rest = [members |-> rest.members,
                 member_topics |-> rest.member_topics,
                 assignments |-> rest.assignments]
  <2>1. group = [members |-> group.members,
                 member_topics |-> group.member_topics,
                 assignments |-> group.assignments]
    BY DEF IndInv
  <2> HIDE DEF mt
  <2>2. rest = [members |-> group.members \ {m},
                member_topics |-> Remove(group.member_topics, m),
                assignments |-> Remove(group.assignments, m)]
    <3>1. PICK a, b, c : group = [members |-> a, member_topics |-> b,
                                  assignments |-> c]
      BY <2>1
    <3>  DEFINE x == a \ {m}
                 y == Remove(b, m)
                 z == Remove(c, m)
    <3>3. rest = [[members |-> a, member_topics |-> b, assignments |-> c]
                    EXCEPT !.members = x, !.member_topics = y,
                           !.assignments = z]
      BY <3>1
    <3> HIDE DEF x, y, z, rest
    <3>4. rest = [members |-> x, member_topics |-> y, assignments |-> z]
      BY <3>3
    <3> QED BY <3>1, <3>4 DEF x, y, z
  <2> HIDE DEF rest
  <2> QED BY <2>2 DEF mt
<1>2. group' = IF rest.members = {} THEN rest
               ELSE rebalance(rest, CountsOf(known))
  BY DEF leave, Left
<1>3. mt \in [group.members \ {m} -> SUBSET Topics]
  BY DEF IndInv, Remove
<1>4. IsFiniteSet(group.members \ {m})
  BY FS_RemoveElement DEF IndInv
<1> HIDE DEF rest
<1>5. CASE rest.members = {}
  <2>1. DOMAIN group.assignments = group.members
    BY DEF IndInv, assign
  <2>2. Remove(group.assignments, m) = EmptyMap
    BY <1>1, <1>5, <2>1 DEF Remove, EmptyMap
  <2>3. assign(mt, CountsOf({})) = EmptyMap
    BY <1>1, <1>3, <1>5, NoMembers
  <2> QED BY <1>1, <1>2, <1>3, <1>4, <1>5, <2>2, <2>3 DEF IndInv
<1>6. CASE rest.members # {}
  <2>1. /\ group'.members = group.members \ {m}
        /\ group'.member_topics = mt
        /\ group'.assignments = assign(mt, CountsOf(known))
        /\ group' = [members |-> group'.members,
                     member_topics |-> group'.member_topics,
                     assignments |-> group'.assignments]
    BY <1>1, <1>2, <1>6 DEF rebalance
  <2> QED BY <1>3, <1>4, <2>1 DEF IndInv
<1> QED BY <1>5, <1>6

LEMMA Invariance == Spec => []IndInv
<1>1. IndInv /\ [Next]_group => IndInv'
  <2> SUFFICES ASSUME IndInv, [Next]_group PROVE IndInv'
    OBVIOUS
  <2>1. ASSUME NEW m \in Members, NEW topics \in SUBSET Topics, join(m, topics)
        PROVE  IndInv'
    BY <2>1, JoinPreserves
  <2>2. ASSUME NEW m \in Members, NEW known \in SUBSET Topics, leave(m, known)
        PROVE  IndInv'
    BY <2>2, LeavePreserves
  <2>3. CASE UNCHANGED group
    BY <2>3 DEF IndInv
  <2> QED BY <2>1, <2>2, <2>3 DEF Next
<1> QED BY <1>1, InitInv, PTL DEF Spec

(* Type correctness of the group's state.                                  *)
THEOREM GroupTypeOK == Spec => []TypeOK
<1>1. IndInv => TypeOK
  <2> SUFFICES ASSUME IndInv PROVE TypeOK
    OBVIOUS
  <2>1. PICK known \in SUBSET Topics :
           group.assignments = assign(group.member_topics, CountsOf(known))
    BY DEF IndInv
  <2>2. DOMAIN group.member_topics = group.members
    BY DEF IndInv
  <2>3. ASSUME NEW m \in group.members
        PROVE  group.assignments[m] \in SUBSET TopicPartitions(Topics)
    BY <2>1, <2>2, AssignGives DEF TopicPartitions
  <2>4. group.assignments = [m \in group.members |-> group.assignments[m]]
    BY <2>1, <2>2 DEF assign
  <2> QED BY <2>3, <2>4 DEF TypeOK, IndInv
<1> QED BY <1>1, Invariance, PTL

(* No partition is ever with two members, nor with one that did not        *)
(* subscribe to its topic, and every member has an entry.                  *)
THEOREM GroupExclusive == Spec => []AssignmentsExclusive
<1>1. IndInv => AssignmentsExclusive
  <2> SUFFICES ASSUME IndInv PROVE AssignmentsExclusive
    OBVIOUS
  <2>1. PICK known \in SUBSET Topics :
           group.assignments = assign(group.member_topics, CountsOf(known))
    BY DEF IndInv
  <2>2. /\ DOMAIN group.member_topics = group.members
        /\ IsFiniteSet(group.members) /\ group.members \subseteq Int
    BY MembersAssumption DEF IndInv
  <2>3. DOMAIN group.assignments = group.members
    BY <2>1, <2>2 DEF assign
  <2>4. ASSUME NEW m \in group.members, NEW tp \in group.assignments[m]
        PROVE  /\ tp[1] \in group.member_topics[m]
               /\ \A n \in group.members \ {m} : tp \notin group.assignments[n]
    <3>1. tp[1] \in group.member_topics[m]
      BY <2>1, <2>2, AssignGives
    <3>2. ASSUME NEW n \in group.members \ {m}
          PROVE  tp \notin group.assignments[n]
      BY <2>1, <2>2, AssignExclusive
    <3> QED BY <3>1, <3>2
  <2> QED BY <2>3, <2>4 DEF AssignmentsExclusive
<1> QED BY <1>1, Invariance, PTL

(* A join leaves no partition of the joiner's topics without an owner.     *)
THEOREM GroupJoinCovers == Spec => JoinAlwaysCovers
<1>1. IndInv /\ [Next]_group => JoinCovers
  <2> SUFFICES ASSUME IndInv, NEW m \in Members, NEW topics \in SUBSET Topics,
                      join(m, topics), NEW tp \in TopicPartitions(topics)
               PROVE  \E n \in group'.members : tp \in group'.assignments[n]
    BY DEF JoinCovers
  <2> DEFINE mt == Insert(group.member_topics, m, topics)
  <2>1. /\ group'.members = group.members \cup {m}
        /\ group'.assignments = assign(mt, CountsOf(topics))
    BY JoinPreserves
  <2>2. DOMAIN mt = group.members \cup {m} /\ mt[m] = topics
    BY DEF IndInv, Insert
  <2>3. IsFiniteSet(DOMAIN mt) /\ DOMAIN mt \subseteq Int
    BY <2>2, FS_AddElement, MembersAssumption DEF IndInv
  <2>4. PICK t \in topics, p \in 0..(NumPartitions - 1) : tp = << t, p >>
    BY DEF TopicPartitions
  <2> HIDE DEF mt
  <2>5. \E n \in DOMAIN mt : << t, p >> \in assign(mt, CountsOf(topics))[n]
    BY <2>2, <2>3, AssignCovers
  <2> QED BY <2>1, <2>2, <2>4, <2>5
<1> QED BY <1>1, Invariance, PTL DEF Spec, JoinAlwaysCovers

(* However the counts of earlier calls differed: what                      *)
(* RoundRobinAssignor::assign has given two subscribers of a topic differs *)
(* by at most one partition of it.                                         *)
THEOREM GroupSharesBalanced == Spec => []SharesBalanced
<1>1. IndInv => SharesBalanced
  <2> SUFFICES ASSUME IndInv, NEW topic \in Topics,
                      NEW m \in Subscribers(group.member_topics, topic),
                      NEW n \in Subscribers(group.member_topics, topic)
               PROVE  Cardinality(OfTopic(m, topic)) <= Cardinality(OfTopic(n, topic)) + 1
    BY DEF SharesBalanced
  <2>1. PICK known \in SUBSET Topics :
           group.assignments = assign(group.member_topics, CountsOf(known))
    BY DEF IndInv
  <2>2. PICK mt : mt = group.member_topics OBVIOUS
  <2>3. PICK S : S = Subscribers(mt, topic) OBVIOUS
  <2>4. /\ DOMAIN mt = group.members /\ S \in SUBSET group.members
        /\ \A x \in S : topic \in mt[x]
    BY <2>2, <2>3 DEF IndInv, Subscribers
  <2>5. IsFiniteSet(S) /\ S \subseteq Int
    BY <2>4, FS_Subset, MembersAssumption DEF IndInv
  <2>6. m \in S /\ n \in S BY <2>2, <2>3
  <2>7. PICK k : k = Cardinality(S) OBVIOUS
  <2>8. k \in Nat /\ k > 0
    <3>1. k \in Nat BY <2>5, <2>7, FS_CardinalityType
    <3>2. k # 0 BY <2>5, <2>6, <2>7, FS_EmptySet
    <3> QED BY <3>1, <3>2
  <2>9. ASSUME topic \in known, NEW x \in S
        PROVE  OfTopic(x, topic) =
                 PairsOf(topic, Class(NumPartitions, k, Index(S, x)))
    <3> DEFINE C == Class(NumPartitions, k, Index(S, x))
    <3>1. x \in DOMAIN mt /\ topic \in mt[x] \cap known BY <2>4, <2>9
    <3>2. \A q \in 0..(NumPartitions - 1) :
             GetsPartition(mt, x, topic, q) <=> q \in C
      BY <2>3, <2>7 DEF GetsPartition, Class
    <3>3. ASSUME NEW tp \in OfTopic(x, topic)
          PROVE  tp \in PairsOf(topic, C)
      <4>1. tp \in assign(mt, CountsOf(known))[x] /\ tp[1] = topic
        BY <2>1, <2>2, <3>3 DEF OfTopic
      <4>2. PICK t \in mt[x] \cap known, p \in 0..(NumPartitions - 1) :
               tp = << t, p >> /\ GetsPartition(mt, x, t, p)
        BY <3>1, <4>1, AssignGives
      <4>3. t = topic BY <4>1, <4>2
      <4> HIDE DEF C
      <4> QED BY <3>2, <4>2, <4>3 DEF PairsOf
    <3>4. ASSUME NEW q \in C PROVE << topic, q >> \in OfTopic(x, topic)
      <4>1. q \in 0..(NumPartitions - 1) BY <3>4 DEF Class
      <4>2. << topic, q >> \in assign(mt, CountsOf(known))[x]
        BY <3>1, <3>2, <4>1, AssignTakes
      <4> QED BY <2>1, <2>2, <4>2 DEF OfTopic
    <3> QED BY <3>3, <3>4 DEF PairsOf
  <2>10. CASE topic \in known
    <3>1. Index(S, m) \in 0..(k - 1) /\ Index(S, n) \in 0..(k - 1)
      BY <2>5, <2>6, <2>7, IndexRange
    <3>2. PICK A, B : A = Class(NumPartitions, k, Index(S, m))
                   /\ B = Class(NumPartitions, k, Index(S, n))
      OBVIOUS
    <3>3. IsFiniteSet(A) /\ IsFiniteSet(B) /\ Cardinality(A) <= Cardinality(B) + 1
      BY <2>8, <3>1, <3>2, PartitionsAssumption, ClassesBalanced
    <3>4. /\ OfTopic(m, topic) = PairsOf(topic, A)
          /\ OfTopic(n, topic) = PairsOf(topic, B)
      BY <2>6, <2>9, <2>10, <3>2
    <3>5. /\ Cardinality(PairsOf(topic, A)) = Cardinality(A)
          /\ Cardinality(PairsOf(topic, B)) = Cardinality(B)
      BY <3>3, PairsCount
    <3> QED BY <3>3, <3>4, <3>5
  <2>11. CASE topic \notin known
    <3>1. ASSUME NEW x \in S, NEW tp \in OfTopic(x, topic) PROVE FALSE
      <4>1. x \in DOMAIN mt /\ tp \in assign(mt, CountsOf(known))[x] /\ tp[1] = topic
        BY <2>1, <2>2, <2>4, <3>1 DEF OfTopic
      <4>2. PICK t \in mt[x] \cap known, p \in 0..(NumPartitions - 1) :
               tp = << t, p >>
        BY <4>1, AssignGives
      <4> QED BY <2>11, <4>1, <4>2
    <3>2. OfTopic(m, topic) = {} /\ OfTopic(n, topic) = {} BY <2>6, <3>1
    <3> QED BY <3>2, FS_EmptySet
  <2> QED BY <2>10, <2>11
<1> QED BY <1>1, Invariance, PTL
=============================================================================
