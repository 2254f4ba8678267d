---------------------------- MODULE BrokerProofs -----------------------------
(***************************************************************************)
(* The produce path, for any senders, records, partitions and eviction, in *)
(* three parts.                                                            *)
(*                                                                         *)
(* The partitioners: each chooses a partition the topic has, for every     *)
(* number of partitions up to a quarter of the integers (2^30 for an i32), *)
(* and wherever its counter or generator stands.                           *)
(*                                                                         *)
(* The choice of a partition: the broker's own choice always exists, round *)
(* robin goes in turn, and the path implements TopicStore.  The inductive  *)
(* invariant says what a sender knows at each step: that its topic is in   *)
(* the map once ensure_topic is past, that the topic object it holds is    *)
(* the one in the map, and that a partition it was not given is one the    *)
(* topic has.  Topics of different names are different objects, which is   *)
(* what makes an append change the end of one partition only.              *)
(*                                                                         *)
(* The records: they are where their senders were told, senders were told  *)
(* what happened, and a shutdown lets only records through that were past  *)
(* the last test.  Two facts carry these proofs: an append leaves the end  *)
(* of the log with the message at the back (AppendedKeepsTheEnd), so       *)
(* offsets keep their messages while they are retained; and a record in    *)
(* flight belongs to one sender and to no result or report yet.            *)
(***************************************************************************)
EXTENDS Broker, PartitionLogProofs, FiniteSetTheorems

-----------------------------------------------------------------------------
(* The partitioners.                                                       *)

LEMMA ModRange ==
    ASSUME NEW a \in Int, NEW n \in Nat \ {0}
    PROVE  a % n \in 0..(n - 1)
BY SMT

(* Wrap yields an integer of the width, and leaves such an integer alone.  *)
LEMMA WrapRange ==
    ASSUME NEW x \in Int
    PROVE  Wrap(x) \in SignedInt
<1>1. (x + Half) % (2 * Half) \in 0..(2 * Half - 1)
  BY HalfAssumption, ModRange
<1> QED BY <1>1, HalfAssumption DEF Wrap, SignedInt

LEMMA ModSmall ==
    ASSUME NEW n \in Nat \ {0}, NEW a \in 0..(n - 1)
    PROVE  a % n = a
BY SMT

LEMMA WrapIdentity ==
    ASSUME NEW x \in SignedInt
    PROVE  Wrap(x) = x
<1>1. x + Half \in 0..(2 * Half - 1) /\ 2 * Half \in Nat \ {0}
  BY HalfAssumption DEF SignedInt
<1>2. (x + Half) % (2 * Half) = x + Half
  BY <1>1, ModSmall
<1> QED BY <1>2, HalfAssumption DEF Wrap, SignedInt

(* The remainder of Rust is between -(n - 1) and n - 1.                    *)
LEMMA RemRange ==
    ASSUME NEW a \in Int, NEW n \in Nat \ {0}
    PROVE  Rem(a, n) \in -(n - 1)..(n - 1)
<1>1. a % n \in 0..(n - 1) BY ModRange
<1>2. (-a) % n \in 0..(n - 1) BY ModRange
<1> QED BY <1>1, <1>2 DEF Rem

(* Adding n and reducing once more gives a partition, and does not         *)
(* overflow on the way.                                                    *)
LEMMA ReducedRange ==
    ASSUME NEW a \in Int, NEW n \in Nat \ {0}, 2 * n <= Half
    PROVE  /\ Rem(a, n) + n \in SignedInt
           /\ Rem(Wrap(Rem(a, n) + n), n) \in 0..(n - 1)
<1>1. Rem(a, n) \in -(n - 1)..(n - 1)
  BY RemRange
<1> DEFINE r == Rem(a, n) + n
<1>2. r \in 1..(2 * n - 1)
  BY <1>1
<1> HIDE DEF r
<1>3. r \in SignedInt
  BY <1>2, HalfAssumption DEF SignedInt
<1>4. Wrap(r) = r
  BY <1>3, WrapIdentity
<1>5. Rem(r, n) = r % n
  BY <1>2 DEF Rem
<1>6. r % n \in 0..(n - 1)
  BY <1>2, ModRange
<1>7. Rem(Wrap(r), n) \in 0..(n - 1)
  BY <1>4, <1>5, <1>6
<1> QED BY <1>3, <1>7 DEF r

(* RoundRobinPartitioner::partition, on any counter, negative ones         *)
(* included.                                                               *)
THEOREM RoundRobinInRange ==
    ASSUME NEW counter \in SignedInt, NEW n \in Nat \ {0}, 2 * n <= Half
    PROVE  RoundRobinPartition(counter, n) \in 0..(n - 1)
<1>1. counter \in Int BY HalfAssumption DEF SignedInt
<1> QED BY <1>1, ReducedRange DEF RoundRobinPartition

(* RandomPartitioner::partition, also on the integer without an absolute   *)
(* value.                                                                  *)
THEOREM RandomInRange ==
    ASSUME NEW state \in SignedInt, NEW n \in Nat \ {0}, 2 * n <= Half
    PROVE  RandomPartition(state, n) \in 0..(n - 1)
<1>1. state \in Int BY HalfAssumption DEF SignedInt
<1>2. Wrap(-state) \in Int
  BY <1>1, WrapRange, HalfAssumption DEF SignedInt
<1>3. Abs(state) \in Int BY <1>1, <1>2 DEF Abs
<1> QED BY <1>3, ReducedRange DEF RandomPartition

(* ConsistentPartitioner::partition, of a key.                             *)
THEOREM ConsistentInRange ==
    ASSUME NEW key \in Keys, NEW n \in Nat \ {0}
    PROVE  ConsistentPartition(key, n) \in 0..(n - 1)
<1>1. fnv1a(key) \in Int BY HashAssumption, HalfAssumption DEF fnv1a
<1> QED BY <1>1, ModRange DEF ConsistentPartition

(* fetch_add and the generator stay within the integers.                   *)
LEMMA NextInRange ==
    ASSUME NEW state \in SignedInt, NEW n \in Int
    PROVE  NextCounter(state, n) \in SignedInt /\ NextRandom(state, n) \in SignedInt
<1>1. state \in Int BY HalfAssumption DEF SignedInt
<1>2. Wrap(state + 1) \in SignedInt BY <1>1, WrapRange
<1> DEFINE a == 1103515245 % (2 * Half)
           b == 12345 % (2 * Half)
<1>3. a \in Int /\ b \in Int
  BY HalfAssumption, ModRange
<1> HIDE DEF a, b
<1>4. state * a + b \in Int BY <1>1, <1>3
<1>5. Wrap(state * a + b) \in SignedInt BY <1>4, WrapRange
<1> QED BY <1>2, <1>5 DEF NextCounter, NextRandom, a, b

(* The remainder is the only number below n that differs from a by a       *)
(* multiple of n.                                                          *)
LEMMA DivMod ==
    ASSUME NEW a \in Int, NEW n \in Nat \ {0}
    PROVE  a \div n \in Int /\ a = n * (a \div n) + (a % n)
BY SMT

LEMMA AtLeastOnce ==
    ASSUME NEW n \in Nat \ {0}, NEW k \in Nat \ {0}
    PROVE  n * k >= n
<1>1. n * k = n * (k - 1) + n BY SMT
<1>2. n * (k - 1) >= 0 BY SMT
<1> QED BY <1>1, <1>2

LEMMA ModUnique ==
    ASSUME NEW n \in Nat \ {0}, NEW q \in Int, NEW r \in 0..(n - 1)
    PROVE  (n * q + r) % n = r
<1> DEFINE a == n * q + r
<1>0. a \in Int OBVIOUS
<1>1. PICK d \in Int : a = n * d + (a % n)
  BY <1>0, DivMod
<1>2. a % n \in 0..(n - 1)
  BY <1>0, ModRange
<1>3. PICK m \in 0..(n - 1) : m = a % n
  BY <1>2
<1>4. n * q + r = n * d + m
  BY <1>1, <1>3
<1> HIDE DEF a
<1>5. CASE q = d
  <2>1. r = m BY <1>4, <1>5
  <2> QED BY <2>1, <1>3 DEF a
<1>6. CASE q > d
  <2>1. n * (q - d) >= n BY <1>6, AtLeastOnce
  <2>2. n * (q - d) = n * q - n * d BY SMT
  <2> QED BY <2>1, <2>2, <1>4
<1>7. CASE d > q
  <2>1. n * (d - q) >= n BY <1>7, AtLeastOnce
  <2>2. n * (d - q) = n * d - n * q BY SMT
  <2> QED BY <2>1, <2>2, <1>4
<1> QED BY <1>5, <1>6, <1>7

LEMMA ModPlus ==
    ASSUME NEW a \in Int, NEW n \in Nat \ {0}, NEW k \in Int
    PROVE  (n * k + a) % n = a % n
<1>1. PICK d \in Int, m \in 0..(n - 1) : a = n * d + m /\ m = a % n
  BY DivMod, ModRange
<1>2. n * k + a = n * (k + d) + m
  BY <1>1
<1>3. (n * (k + d) + m) % n = m
  BY ModUnique
<1> QED BY <1>1, <1>2, <1>3

LEMMA ModNegative ==
    ASSUME NEW a \in Int, NEW b \in Int, b = -a, NEW n \in Nat \ {0}
    PROVE  (n - (b % n)) % n = a % n
<1>1. PICK d \in Int, m \in 0..(n - 1) : b = n * d + m /\ m = b % n
  BY DivMod, ModRange
<1>2. n * (1 + d) = n + n * d
  BY SMT
<1>3. PICK e \in Int : e = n * d
  BY SMT
<1>4. n * (1 + d) + a = n - m
  BY <1>1, <1>2, <1>3
<1>5. PICK k \in Int : k = 1 + d
  BY SMT
<1>6. (n * k + a) % n = a % n
  BY ModPlus
<1> QED BY <1>1, <1>4, <1>5, <1>6

(* In effect the counter is reduced to a remainder that is never negative. *)
LEMMA RoundRobinIsMod ==
    ASSUME NEW counter \in SignedInt, NEW n \in Nat \ {0}, 2 * n <= Half
    PROVE  RoundRobinPartition(counter, n) = counter % n
<1>0. counter \in Int BY HalfAssumption DEF SignedInt
<1>1. PICK r \in 1..(2 * n - 1) : r = Rem(counter, n) + n
  <2>1. Rem(counter, n) \in -(n - 1)..(n - 1) BY <1>0, RemRange
  <2> QED BY <2>1
<1>2. r \in SignedInt
  BY HalfAssumption DEF SignedInt
<1>3. RoundRobinPartition(counter, n) = r % n
  BY <1>1, <1>2, WrapIdentity DEF RoundRobinPartition, Rem
<1>4. CASE counter >= 0
  <2>1. PICK d \in Int, m \in 0..(n - 1) : counter = n * d + m /\ m = counter % n
    BY <1>0, DivMod, ModRange
  <2>2. r = n * 1 + m BY <1>1, <1>4, <2>1 DEF Rem
  <2>3. (n * 1 + m) % n = m BY ModUnique
  <2> QED BY <1>3, <2>1, <2>2, <2>3
<1>5. CASE counter < 0
  <2>1. PICK b \in Int : b = -counter
    BY <1>0
  <2>2. r = n - (b % n)
    BY <1>0, <1>1, <1>5, <2>1, ModRange DEF Rem
  <2>3. (n - (b % n)) % n = counter % n
    BY <1>0, <2>1, ModNegative
  <2> QED BY <1>3, <2>2, <2>3
<1> QED BY <1>0, <1>4, <1>5

(* One call after the other, round robin goes from each partition to the   *)
(* next, on negative counters as on positive ones; only where the counter  *)
(* wraps around is the turn broken.                                        *)
THEOREM RoundRobinInTurn ==
    ASSUME NEW counter \in SignedInt, counter < Half - 1,
           NEW n \in Nat \ {0}, 2 * n <= Half
    PROVE  RoundRobinPartition(NextCounter(counter, n), n)
              = (RoundRobinPartition(counter, n) + 1) % n
<1>0. counter \in Int /\ counter + 1 \in SignedInt
  BY HalfAssumption DEF SignedInt
<1>1. NextCounter(counter, n) = counter + 1
  BY <1>0, WrapIdentity DEF NextCounter
<1>2. PICK d \in Int, m \in 0..(n - 1) : counter = n * d + m /\ m = counter % n
  BY <1>0, DivMod, ModRange
<1>3. counter + 1 = n * d + (m + 1)
  BY <1>2
<1>4. (n * d + (m + 1)) % n = (m + 1) % n
  BY ModPlus
<1>5. RoundRobinPartition(counter + 1, n) = (counter + 1) % n
  BY <1>0, RoundRobinIsMod
<1>6. RoundRobinPartition(counter, n) = m
  BY <1>2, RoundRobinIsMod
<1> QED BY <1>1, <1>3, <1>4, <1>5, <1>6

-----------------------------------------------------------------------------
(* The choice of a partition.                                              *)

Partitions == 0..(NumPartitions - 1)

IsBuffer(b) == "next_offset" \in DOMAIN b /\ b.next_offset \in Nat

IsTopic(o) == DOMAIN o = Partitions /\ \A p \in Partitions : IsBuffer(o[p])

HeapInv ==
    /\ \E S : heap \in Seq(S)
    /\ \A i \in DOMAIN heap : IsTopic(heap[i])

TopicsInv ==
    /\ DOMAIN topics \subseteq Topics
    /\ \A t \in DOMAIN topics : topics[t] \in DOMAIN heap
    /\ \A t, u \in DOMAIN topics : topics[t] = topics[u] => t = u

PartitionerInv ==
    partitioner \in [strategy : Strategies, build : Builds, state : SignedInt]

PicksInv ==
    /\ NumPartitions > 0 => \A a \in picks : \E c \in SignedInt :
          a = << c, RoundRobinPartition(c, NumPartitions) >>
    /\ NumPartitions <= 0 => \A a \in picks : a[1] = partitioner.state

(* The broker chooses the partition of record id, and there are some.      *)
BrokersChoice(id) == NumPartitions > 0 /\ sent[id].partition = {}

Chosen(id, p) == BrokersChoice(id) => p \in Partitions

Told(id, error) == BrokersChoice(id) => error # "PartitionOutOfRange"

HasTopic(id) == sent[id].topic \in DOMAIN topics

Entering(at, id) ==
    at \in {[pc |-> x, id |-> id] : x \in {"check", "ensure", "create"}}

Measuring(at, id) == at = [pc |-> "metadata", id |-> id] /\ HasTopic(id)

Choosing(at, id) ==
    at = [pc |-> "partition", id |-> id, n |-> Cardinality(Partitions)] /\ HasTopic(id)

Producing(at, id) ==
    \E p : at = [pc |-> "produce", id |-> id, p |-> p] /\ HasTopic(id) /\ Chosen(id, p)

Appending(at, id) ==
    \E p : /\ at = [pc |-> "append", id |-> id, p |-> p,
                    topic |-> topics[sent[id].topic]]
           /\ HasTopic(id)
           /\ Chosen(id, p)

Returning(at, id) ==
    \E meta, error : /\ at = [pc |-> "return", id |-> id, meta |-> meta, error |-> error]
                     /\ Told(id, error)

SenderOK(at) ==
    \/ at = Idle
    \/ \E id \in DOMAIN sent :
          \/ Entering(at, id)
          \/ Measuring(at, id)
          \/ Choosing(at, id)
          \/ Producing(at, id)
          \/ Appending(at, id)
          \/ Returning(at, id)

SendersInv ==
    /\ sender \in [Senders -> {sender[s] : s \in Senders}]
    /\ \A s \in Senders : SenderOK(sender[s])

ResultsInv ==
    /\ DOMAIN results \subseteq DOMAIN sent
    /\ \A id \in DOMAIN results : Told(id, results[id].error)

Inv ==
    /\ sent \in Seq(Records)
    /\ HeapInv
    /\ TopicsInv
    /\ PartitionerInv
    /\ PicksInv
    /\ SendersInv
    /\ ResultsInv

-----------------------------------------------------------------------------

LEMMA CountPartitions ==
    Cardinality(Partitions) = IF NumPartitions > 0 THEN NumPartitions ELSE 0
<1>1. Cardinality(Partitions) = IF 0 > NumPartitions - 1 THEN 0
                                ELSE (NumPartitions - 1) - 0 + 1
  BY PartitionsAssumption, FS_Interval DEF Partitions
<1> QED BY <1>1, PartitionsAssumption

LEMMA NewTopicIsTopic == IsTopic(NewTopic)
<1>1. IsBuffer(NewBuffer(Config))
  BY DEF IsBuffer, NewBuffer
<1> QED BY <1>1 DEF IsTopic, NewTopic, Partitions

LEMMA AppendedIsBuffer ==
    ASSUME NEW b, IsBuffer(b), NEW kind, NEW value
    PROVE  /\ IsBuffer(Appended(b, kind, value, 0, 0))
           /\ Appended(b, kind, value, 0, 0).next_offset = b.next_offset + 1
<1> DEFINE l == evict_buffer(b.policies,
                    PopAtCapacity(b.max_capacity, Append(b.log,
                        StoredMessage(kind, value, b.next_offset, 0))), 0)
<1>1. Appended(b, kind, value, 0, 0) =
         [b EXCEPT !.log = l, !.next_offset = @ + 1]
  BY DEF Appended
<1> HIDE DEF l
<1>2. "next_offset" \in DOMAIN [b EXCEPT !.log = l, !.next_offset = @ + 1]
  BY DEF IsBuffer
<1>3. [b EXCEPT !.log = l, !.next_offset = @ + 1].next_offset = b.next_offset + 1
  BY DEF IsBuffer
<1>4. PICK r : r = [b EXCEPT !.log = l, !.next_offset = @ + 1]
  OBVIOUS
<1>5. "next_offset" \in DOMAIN r /\ r.next_offset = b.next_offset + 1
  BY <1>2, <1>3, <1>4
<1>6. IsBuffer(r)
  BY <1>5 DEF IsBuffer
<1> QED BY <1>1, <1>4, <1>5, <1>6

(* What others know stays true as records are sent and topics created.     *)
Grows ==
    /\ DOMAIN sent \subseteq DOMAIN sent'
    /\ \A id \in DOMAIN sent : sent'[id] = sent[id]
    /\ DOMAIN topics \subseteq DOMAIN topics'
    /\ \A t \in DOMAIN topics : topics'[t] = topics[t]

LEMMA SenderFrame ==
    ASSUME NEW at, SenderOK(at), Grows
    PROVE  SenderOK(at)'
<1>1. CASE at = Idle BY <1>1 DEF SenderOK, Idle
<1>2. ASSUME NEW id \in DOMAIN sent,
             \/ Entering(at, id) \/ Measuring(at, id) \/ Choosing(at, id)
             \/ Producing(at, id) \/ Appending(at, id) \/ Returning(at, id)
      PROVE  SenderOK(at)'
  <2>1. id \in DOMAIN sent' /\ sent'[id] = sent[id]
    BY DEF Grows
  <2>2. BrokersChoice(id)' <=> BrokersChoice(id)
    BY <2>1 DEF BrokersChoice
  <2>3. \A p : Chosen(id, p) => Chosen(id, p)'
    BY <2>2 DEF Chosen
  <2>4. \A e : Told(id, e) => Told(id, e)'
    BY <2>2 DEF Told
  <2>5. HasTopic(id) => HasTopic(id)' /\ topics'[sent'[id].topic] = topics[sent[id].topic]
    BY <2>1 DEF HasTopic, Grows
  <2>6. CASE Entering(at, id) BY <2>1, <2>6 DEF SenderOK, Entering
  <2>7. CASE Measuring(at, id) BY <2>1, <2>5, <2>7 DEF SenderOK, Measuring
  <2>8. CASE Choosing(at, id) BY <2>1, <2>5, <2>8 DEF SenderOK, Choosing
  <2>9. CASE Producing(at, id) BY <2>1, <2>3, <2>5, <2>9 DEF SenderOK, Producing
  <2>10. CASE Appending(at, id) BY <2>1, <2>3, <2>5, <2>10 DEF SenderOK, Appending
  <2>11. CASE Returning(at, id) BY <2>1, <2>4, <2>11 DEF SenderOK, Returning
  <2> QED BY <1>2, <2>6, <2>7, <2>8, <2>9, <2>10, <2>11
<1> QED BY <1>1, <1>2 DEF SenderOK

(* A step of sender s to a state that is right for it.                     *)
LEMMA SenderStep ==
    ASSUME SendersInv, Grows, NEW s \in Senders, NEW at,
           sender' = [sender EXCEPT ![s] = at], SenderOK(at)'
    PROVE  SendersInv'
<1>1. sender' \in [Senders -> {sender'[x] : x \in Senders}]
  BY DEF SendersInv
<1>2. ASSUME NEW x \in Senders PROVE SenderOK(sender[x])'
  <2>1. CASE x = s
    <3>1. sender'[s] = at BY DEF SendersInv
    <3> QED BY <2>1, <3>1 DEF SenderOK, Entering, Measuring, Choosing, Producing,
                              Appending, Returning
  <2>2. CASE x # s
    <3>1. sender'[x] = sender[x] BY <2>2 DEF SendersInv
    <3>2. PICK y : y = sender[x] OBVIOUS
    <3>3. SenderOK(y)' BY <3>2, SenderFrame DEF SendersInv
    <3> QED BY <3>1, <3>2, <3>3
  <2> QED BY <2>1, <2>2
<1> QED BY <1>1, <1>2 DEF SendersInv

-----------------------------------------------------------------------------
(* What a sender holds, by where it is.                                    *)

LEMMA Forms ==
    ASSUME NEW at, SenderOK(at), at.pc # "idle"
    PROVE  /\ at.id \in DOMAIN sent
           /\ at.pc \in {"check", "ensure", "create"} =>
                 at = [pc |-> at.pc, id |-> at.id]
           /\ at.pc = "metadata" => Measuring(at, at.id)
           /\ at.pc = "partition" => Choosing(at, at.id)
           /\ at.pc = "produce" => Producing(at, at.id)
           /\ at.pc = "append" => Appending(at, at.id)
           /\ at.pc = "return" => Returning(at, at.id)
<1>1. PICK id \in DOMAIN sent :
          \/ Entering(at, id) \/ Measuring(at, id) \/ Choosing(at, id)
          \/ Producing(at, id) \/ Appending(at, id) \/ Returning(at, id)
  BY DEF SenderOK, Idle
<1>2. CASE Entering(at, id) BY <1>2 DEF Entering
<1>3. CASE Measuring(at, id) BY <1>3 DEF Measuring
<1>4. CASE Choosing(at, id) BY <1>4 DEF Choosing
<1>5. CASE Producing(at, id)
  <2>1. at.pc = "produce" /\ at.id = id BY <1>5 DEF Producing
  <2> QED BY <1>5, <2>1
<1>6. CASE Appending(at, id)
  <2>1. at.pc = "append" /\ at.id = id BY <1>6 DEF Appending
  <2> QED BY <1>6, <2>1
<1>7. CASE Returning(at, id)
  <2>1. at.pc = "return" /\ at.id = id BY <1>7 DEF Returning
  <2> QED BY <1>7, <2>1
<1> QED BY <1>1, <1>2, <1>3, <1>4, <1>5, <1>6, <1>7

LEMMA AtForms ==
    ASSUME SendersInv, NEW s \in Senders, sender[s].pc # "idle"
    PROVE  /\ sender[s].id \in DOMAIN sent
           /\ sender[s].pc \in {"check", "ensure", "create"} =>
                 sender[s] = [pc |-> sender[s].pc, id |-> sender[s].id]
           /\ sender[s].pc = "metadata" => Measuring(sender[s], sender[s].id)
           /\ sender[s].pc = "partition" => Choosing(sender[s], sender[s].id)
           /\ sender[s].pc = "produce" => Producing(sender[s], sender[s].id)
           /\ sender[s].pc = "append" => Appending(sender[s], sender[s].id)
           /\ sender[s].pc = "return" => Returning(sender[s], sender[s].id)
<1>1. SenderOK(sender[s]) BY DEF SendersInv
<1> QED BY <1>1, Forms

(* A call that returns, in any step after which what others know holds.    *)
LEMMA OutcomeStep ==
    ASSUME SendersInv, Grows, NEW s \in Senders, sender[s].id \in DOMAIN sent,
           NEW meta, NEW error, Told(sender[s].id, error),
           Outcome(s, meta, error)
    PROVE  SendersInv'
<1>1. PICK id \in DOMAIN sent : id = sender[s].id OBVIOUS
<1> DEFINE at == [pc |-> "return", id |-> id, meta |-> meta, error |-> error]
<1>2. sender' = [sender EXCEPT ![s] = at]
  BY <1>1 DEF Outcome, SendersInv
<1>3. id \in DOMAIN sent' /\ sent'[id] = sent[id]
  BY DEF Grows
<1>4. Told(id, error)'
  BY <1>1, <1>3 DEF Told, BrokersChoice
<1>5. Returning(at, id)'
  BY <1>4 DEF Returning
<1>6. SenderOK(at)'
  BY <1>3, <1>5 DEF SenderOK
<1> HIDE DEF at
<1> QED BY <1>2, <1>6, SenderStep

LEMMA FailStep ==
    ASSUME SendersInv, Grows, NEW s \in Senders, sender[s].id \in DOMAIN sent,
           Fail(s, "BrokerShutdown")
    PROVE  SendersInv'
<1>1. Told(sender[s].id, "BrokerShutdown") BY DEF Told
<1> QED BY <1>1, OutcomeStep DEF Fail

(* A call that goes on to look at, create or ask for its topic.            *)
LEMMA GotoStep ==
    ASSUME SendersInv, Grows, NEW s \in Senders,
           sender[s].pc \in {"check", "ensure", "create"},
           NEW pc \in {"ensure", "create", "metadata"}, Goto(s, pc),
           pc = "metadata" => sent'[sender[s].id].topic \in DOMAIN topics'
    PROVE  SendersInv'
<1>1. sender[s].id \in DOMAIN sent
      /\ sender[s] = [pc |-> sender[s].pc, id |-> sender[s].id]
  BY AtForms
<1>2. PICK id \in DOMAIN sent : id = sender[s].id BY <1>1
<1>20. PICK was : sender[s] = [pc |-> was, id |-> id]
  BY <1>1, <1>2
<1> DEFINE at == [pc |-> pc, id |-> id]
<1>10. [sender[s] EXCEPT !.pc = pc] = at
  BY <1>20
<1>3. sender' = [sender EXCEPT ![s] = at]
  BY <1>10 DEF Goto, SendersInv
<1>4. id \in DOMAIN sent'
  BY DEF Grows
<1>5. CASE pc = "metadata"
  <2>1. HasTopic(id)' BY <1>2, <1>5 DEF HasTopic
  <2>2. Measuring(at, id)' BY <1>5, <2>1 DEF Measuring
  <2>3. SenderOK(at)' BY <1>4, <2>2 DEF SenderOK
  <2> HIDE DEF at
  <2> QED BY <1>3, <2>3, SenderStep
<1>6. CASE pc # "metadata"
  <2>2. Entering(at, id)' BY <1>6 DEF Entering
  <2>3. SenderOK(at)' BY <1>4, <2>2 DEF SenderOK
  <2> HIDE DEF at
  <2> QED BY <1>3, <2>3, SenderStep
<1> QED BY <1>5, <1>6

(* Most steps change the sender only.                                      *)
LEMMA SenderOnly ==
    ASSUME Inv, SendersInv',
           UNCHANGED << topics, heap, partitioner, sent, results, picks >>
    PROVE  Inv'
BY DEF Inv, HeapInv, TopicsInv, PartitionerInv, PicksInv, ResultsInv, Told,
       BrokersChoice

LEMMA NothingGrows ==
    ASSUME UNCHANGED << topics, sent >>
    PROVE  Grows
BY DEF Grows

-----------------------------------------------------------------------------
(* Each action preserves the invariant.                                    *)

LEMMA InitInv == Init => Inv
<1> SUFFICES ASSUME Init PROVE Inv OBVIOUS
<1>1. sent \in Seq(Records) /\ DOMAIN sent = {} BY DEF Init
<1>2. heap \in Seq({}) /\ DOMAIN heap = {} BY DEF Init
<1>3. HeapInv BY <1>2 DEF HeapInv
<1>4. DOMAIN topics = {} BY DEF Init
<1>5. TopicsInv BY <1>4 DEF TopicsInv
<1>6. PartitionerInv
  <2>1. PICK strategy \in Strategies, build \in Builds, start \in Starts :
            partitioner = [strategy |-> strategy, build |-> build, state |->
                              IF strategy = "random" THEN Seed(start) ELSE start]
    BY DEF Init
  <2>2. start \in SignedInt /\ Seed(start) \in SignedInt
    BY StartsAssumption, HalfAssumption DEF Seed, SignedInt
  <2> QED BY <2>1, <2>2 DEF PartitionerInv
<1>7. PicksInv BY DEF Init, PicksInv
<1>8. SendersInv
  <2>1. \A s \in Senders : sender[s] = Idle BY DEF Init
  <2>2. sender \in [Senders -> {sender[s] : s \in Senders}] BY DEF Init
  <2> QED BY <2>1, <2>2 DEF SendersInv, SenderOK
<1>9. ResultsInv
  <2>1. DOMAIN results = {} BY DEF Init
  <2> QED BY <2>1 DEF ResultsInv
<1> QED BY <1>1, <1>3, <1>5, <1>6, <1>7, <1>8, <1>9 DEF Inv

LEMMA SendInv ==
    ASSUME Inv, NEW s \in Senders, NEW r \in Records, send(s, r)
    PROVE  Inv'
<1>1. sent \in Seq(Records) /\ sent' = Append(sent, r)
  BY DEF Inv, send
<1>2. sent' \in Seq(Records) /\ Len(sent) + 1 \in DOMAIN sent'
  BY <1>1
<1>3. DOMAIN sent \subseteq DOMAIN sent' /\ \A id \in DOMAIN sent : sent'[id] = sent[id]
  BY <1>1
<1>4. Grows
  BY <1>3 DEF Grows, send
<1>5. PICK id : id = Len(sent) + 1
  OBVIOUS
<1> DEFINE at == [pc |-> "check", id |-> id]
<1>6. sender' = [sender EXCEPT ![s] = at]
  BY <1>5 DEF send
<1>7. Entering(at, id)' BY DEF Entering
<1>8. SenderOK(at)' BY <1>2, <1>5, <1>7 DEF SenderOK
<1> HIDE DEF at
<1>9. SendersInv' BY <1>4, <1>6, <1>8, SenderStep DEF Inv
<1>10. ResultsInv' BY <1>3 DEF Inv, ResultsInv, Told, BrokersChoice, send
<1>11. HeapInv' /\ TopicsInv' /\ PartitionerInv' /\ PicksInv'
  BY DEF Inv, HeapInv, TopicsInv, PartitionerInv, PicksInv, send
<1> QED BY <1>2, <1>9, <1>10, <1>11 DEF Inv

LEMMA CheckShutdownInv ==
    ASSUME Inv, NEW s \in Senders, check_shutdown(s)
    PROVE  Inv'
<1>1. sender[s].pc = "check" /\ SendersInv BY DEF check_shutdown, Inv
<1>2. sender[s].id \in DOMAIN sent BY <1>1, AtForms
<1>3. Grows BY NothingGrows DEF check_shutdown
<1>4. Fail(s, "BrokerShutdown") \/ Goto(s, "ensure") BY DEF check_shutdown
<1>5. SendersInv' BY <1>1, <1>2, <1>3, <1>4, FailStep, GotoStep
<1> QED BY <1>5, SenderOnly DEF check_shutdown

LEMMA EnsureTopicInv ==
    ASSUME Inv, NEW s \in Senders, ensure_topic(s)
    PROVE  Inv'
<1>1. sender[s].pc = "ensure" /\ SendersInv BY DEF ensure_topic, Inv
<1>2. sender[s].id \in DOMAIN sent BY <1>1, AtForms
<1>3. Grows BY NothingGrows DEF ensure_topic
<1>4. \/ Fail(s, "BrokerShutdown")
      \/ Goto(s, "create")
      \/ Goto(s, "metadata") /\ sent'[sender[s].id].topic \in DOMAIN topics'
  BY DEF ensure_topic, Rec
<1>5. SendersInv' BY <1>1, <1>2, <1>3, <1>4, FailStep, GotoStep
<1> QED BY <1>5, SenderOnly DEF ensure_topic

(* The topic created is a new object, which no name referred to.           *)
LEMMA CreateInv ==
    ASSUME Inv, NEW s \in Senders, create(s)
    PROVE  Inv'
<1>1. sender[s].pc = "create" /\ SendersInv BY DEF create, Inv
<1>2. sender[s].id \in DOMAIN sent BY <1>1, AtForms
<1>3. PICK topic : topic = sent[sender[s].id].topic OBVIOUS
<1>4. topic \in Topics
  BY <1>2, <1>3, RecordsAssumption DEF Inv, BaseRecord
<1>5. CreateTopic(topic) /\ UNCHANGED << partitioner, sent, results, picks >>
  BY <1>3 DEF create, Rec
<1>6. ASSUME topic \in DOMAIN topics
      PROVE  Inv'
  <2>1. UNCHANGED << topics, heap >> BY <1>5, <1>6 DEF CreateTopic
  <2>2. Grows BY <1>5, <2>1, NothingGrows
  <2>3. Goto(s, "metadata") /\ sent'[sender[s].id].topic \in DOMAIN topics'
    BY <1>3, <1>5, <1>6, <2>1 DEF create
  <2>4. SendersInv' BY <1>1, <2>2, <2>3, GotoStep
  <2> QED BY <1>5, <2>1, <2>4, SenderOnly
<1>7. ASSUME topic \notin DOMAIN topics
      PROVE  Inv'
  <2>1. /\ heap' = Append(heap, NewTopic)
        /\ topics' = [t \in DOMAIN topics \cup {topic} |->
                         IF t = topic THEN Len(heap) + 1 ELSE topics[t]]
    BY <1>5, <1>7 DEF CreateTopic
  <2>2. Grows BY <1>5, <1>7, <2>1 DEF Grows
  <2>3. Goto(s, "metadata") /\ sent'[sender[s].id].topic \in DOMAIN topics'
    BY <1>3, <1>5, <2>1 DEF create
  <2>4. SendersInv' BY <1>1, <2>2, <2>3, GotoStep
  <2>5. PICK S : heap \in Seq(S) BY DEF Inv, HeapInv
  <2>6. PICK new : new = NewTopic OBVIOUS
  <2>7. /\ heap' \in Seq(S \cup {new})
        /\ DOMAIN heap' = DOMAIN heap \cup {Len(heap) + 1}
        /\ Len(heap) + 1 \notin DOMAIN heap
        /\ heap'[Len(heap) + 1] = new
        /\ \A i \in DOMAIN heap : heap'[i] = heap[i]
    BY <2>1, <2>5, <2>6
  <2>8. HeapInv' BY <2>6, <2>7, NewTopicIsTopic DEF Inv, HeapInv
  <2>9. TopicsInv' BY <1>4, <1>7, <2>1, <2>7 DEF Inv, TopicsInv
  <2>10. PartitionerInv' /\ PicksInv' /\ ResultsInv' /\ (sent \in Seq(Records))'
    BY <1>5 DEF Inv, PartitionerInv, PicksInv, ResultsInv, Told, BrokersChoice
  <2> QED BY <2>4, <2>8, <2>9, <2>10 DEF Inv
<1> QED BY <1>6, <1>7

LEMMA MetadataInv ==
    ASSUME Inv, NEW s \in Senders, metadata(s)
    PROVE  Inv'
<1>1. sender[s].pc = "metadata" /\ SendersInv BY DEF metadata, Inv
<1>2. sender[s].id \in DOMAIN sent /\ Measuring(sender[s], sender[s].id)
  BY <1>1, AtForms
<1>3. PICK id \in DOMAIN sent : id = sender[s].id BY <1>2
<1>4. HasTopic(id) BY <1>2, <1>3 DEF Measuring
<1>5. Grows BY NothingGrows DEF metadata
<1>6. CASE Fail(s, "BrokerShutdown")
  <2>1. SendersInv' BY <1>1, <1>2, <1>5, <1>6, FailStep
  <2> QED BY <2>1, SenderOnly DEF metadata
<1>7. CASE ~ Fail(s, "BrokerShutdown")
  <2> DEFINE at == [pc |-> "partition", id |-> id, n |-> Cardinality(Partitions)]
  <2>1. DOMAIN heap[topics[sent[id].topic]] = Partitions
    BY <1>4 DEF HasTopic, Inv, TopicsInv, HeapInv, IsTopic
  <2>2. sender' = [sender EXCEPT ![s] =
            [pc |-> "partition", id |-> sender[s].id,
             n  |-> Cardinality(DOMAIN heap[topics[sent[sender[s].id].topic]])]]
    BY <1>1, <1>7 DEF metadata, SendersInv, Rec
  <2>3. sender' = [sender EXCEPT ![s] = at] BY <1>3, <2>1, <2>2
  <2>4. Choosing(at, id)'
    <3>1. HasTopic(id)' BY <1>4 DEF HasTopic, metadata
    <3> QED BY <3>1 DEF Choosing, Partitions
  <2>5. (id \in DOMAIN sent)' BY DEF metadata
  <2>6. SenderOK(at)' BY <2>4, <2>5 DEF SenderOK
  <2> HIDE DEF at
  <2>7. SendersInv' BY <1>1, <1>5, <2>3, <2>6, SenderStep
  <2> QED BY <2>7, SenderOnly DEF metadata
<1> QED BY <1>6, <1>7

(* The partition a partitioner answers is one of those there are.          *)
LEMMA PartitionersInRange ==
    ASSUME NumPartitions > 0, NEW c \in SignedInt, NEW n,
           n = Cardinality(Partitions)
    PROVE  /\ n = NumPartitions
           /\ RoundRobinPartition(c, n) \in Partitions
           /\ RandomPartition(c, n) \in Partitions
           /\ \A k \in Keys : ConsistentPartition(k, n) \in Partitions
<1>1. n = NumPartitions /\ n \in Nat \ {0} /\ 2 * n <= Half
  BY PartitionsAssumption, CountPartitions
<1>2. Partitions = 0..(n - 1) BY <1>1 DEF Partitions
<1> QED BY <1>1, <1>2, RoundRobinInRange, RandomInRange, ConsistentInRange

(* The sender that chose, with what it now holds.                          *)
LEMMA ChoiceStep ==
    ASSUME SendersInv, UNCHANGED << topics, sent >>, NEW s \in Senders,
           NEW id \in DOMAIN sent, id = sender[s].id, HasTopic(id),
           NEW p, Chosen(id, p),
           sender' = [sender EXCEPT ![s] = [pc |-> "produce", id |-> @.id, p |-> p]]
    PROVE  SendersInv'
<1> DEFINE at == [pc |-> "produce", id |-> id, p |-> p]
<1>1. sender' = [sender EXCEPT ![s] = at] BY DEF SendersInv
<1>2. Grows BY NothingGrows
<1>3. Chosen(id, p)' /\ HasTopic(id)'
  BY DEF Chosen, BrokersChoice, HasTopic
<1>4. Producing(at, id)' BY <1>3 DEF Producing
<1>5. SenderOK(at)' BY <1>4 DEF SenderOK
<1> HIDE DEF at
<1> QED BY <1>1, <1>2, <1>5, SenderStep

(* A step of the partitioner.                                              *)
LEMMA PartitionerStep ==
    ASSUME PartitionerInv, NEW state \in SignedInt,
           partitioner' = [partitioner EXCEPT !.state = state]
    PROVE  PartitionerInv' /\ partitioner'.state = state
BY DEF PartitionerInv

LEMMA PartitionInv ==
    ASSUME Inv, NEW s \in Senders, partition(s)
    PROVE  Inv'
<1>1. sender[s].pc = "partition" /\ SendersInv /\ PartitionerInv /\ PicksInv
  BY DEF partition, Inv
<1>2. sender[s].id \in DOMAIN sent /\ Choosing(sender[s], sender[s].id)
  BY <1>1, AtForms
<1>3. PICK id \in DOMAIN sent : id = sender[s].id BY <1>2
<1>30. PICK n : n = sender[s].n OBVIOUS
<1>4. HasTopic(id) /\ n = Cardinality(Partitions)
  BY <1>2, <1>3, <1>30 DEF Choosing
<1>5. UNCHANGED << topics, heap, sent, results >> BY DEF partition
<1>6. Grows BY <1>5, NothingGrows
<1>7. PICK c : c = partitioner.state OBVIOUS
<1>8. c \in SignedInt BY <1>1, <1>7 DEF PartitionerInv
<1>9. n \in Int /\ (NumPartitions <= 0 => n = 0)
  BY <1>4, CountPartitions, PartitionsAssumption
<1>10. NextCounter(c, n) \in SignedInt /\ NextRandom(c, n) \in SignedInt
  BY <1>8, <1>9, NextInRange
<1>11. NumPartitions <= 0 => NextCounter(c, n) = c /\ NextRandom(c, n) = c
  BY <1>9 DEF NextCounter, NextRandom
<1> DEFINE On(p) == sender' = [sender EXCEPT ![s] =
                                  [pc |-> "produce", id |-> @.id, p |-> p]]
<1>12. ASSUME NEW p, Chosen(id, p), On(p) PROVE SendersInv'
  BY <1>1, <1>3, <1>30, <1>4, <1>5, <1>12, ChoiceStep
<1> HIDE DEF On
<1>13. SendersInv' /\ PartitionerInv' /\ PicksInv' => Inv'
  BY <1>5 DEF Inv, HeapInv, TopicsInv, ResultsInv, Told, BrokersChoice
<1>14. UNCHANGED << partitioner, picks >> => PartitionerInv' /\ PicksInv'
  BY <1>1 DEF PartitionerInv, PicksInv
<1> DEFINE own == sent[id].partition
           key == KeyOf(s)
<1>15. \/ /\ own # {}
          /\ On(CHOOSE p \in own : TRUE)
          /\ UNCHANGED << partitioner, picks >>
       \/ /\ key # {}
          /\ On(ConsistentPartition(CHOOSE k \in key : TRUE, n))
          /\ UNCHANGED << partitioner, picks >>
       \/ /\ On(RoundRobinPartition(c, n))
          /\ RoundRobinPick(n)
       \/ /\ \/ Outcome(s, {}, "panic")
             \/ On(RandomPartition(c, n))
          /\ partitioner' = [partitioner EXCEPT !.state = NextRandom(c, n)]
          /\ UNCHANGED picks
  <2> USE DEF On
  <2> QED BY <1>1, <1>3, <1>30, <1>7 DEF partition, Rec, PartitionerInv
<1>16. ASSUME own # {}, On(CHOOSE p \in own : TRUE) PROVE SendersInv'
  <2>1. Chosen(id, CHOOSE p \in own : TRUE) BY <1>16 DEF Chosen, BrokersChoice
  <2> QED BY <1>12, <1>16, <2>1
<1>17. ASSUME key # {}, On(ConsistentPartition(CHOOSE k \in key : TRUE, n))
       PROVE  SendersInv'
  <2>1. key \subseteq Keys
    BY <1>3, <1>30, RecordsAssumption DEF KeyOf, Rec, Inv, BaseRecord, Option
  <2>2. PICK k \in Keys : k = CHOOSE x \in key : TRUE BY <1>17, <2>1
  <2>3. Chosen(id, ConsistentPartition(k, n))
    BY <1>4, <1>8, PartitionersInRange DEF Chosen, BrokersChoice
  <2> QED BY <1>12, <1>17, <2>2, <2>3
<1>18. ASSUME On(RoundRobinPartition(c, n)), RoundRobinPick(n)
       PROVE  SendersInv' /\ PartitionerInv' /\ PicksInv'
  <2>1. Chosen(id, RoundRobinPartition(c, n))
    BY <1>4, <1>8, PartitionersInRange DEF Chosen, BrokersChoice
  <2>2. /\ partitioner' = [partitioner EXCEPT !.state = NextCounter(c, n)]
        /\ picks' = picks \cup {<< c, RoundRobinPartition(c, n) >>}
    BY <1>1, <1>7, <1>18 DEF RoundRobinPick, PartitionerInv
  <2>3. PartitionerInv' /\ partitioner'.state = NextCounter(c, n)
    BY <1>1, <1>10, <2>2, PartitionerStep
  <2>4. CASE NumPartitions > 0
    <3>1. n = NumPartitions BY <1>4, <1>8, <2>4, PartitionersInRange
    <3>2. \A a \in picks' : \E d \in SignedInt :
             a = << d, RoundRobinPartition(d, NumPartitions) >>
      BY <1>1, <1>8, <2>2, <2>4, <3>1 DEF PicksInv
    <3> QED BY <1>12, <1>18, <2>1, <2>3, <2>4, <3>2, PartitionsAssumption DEF PicksInv
  <2>5. CASE NumPartitions <= 0
    <3>1. partitioner'.state = c BY <1>11, <2>3, <2>5
    <3>2. PICK pick : pick = << c, RoundRobinPartition(c, n) >> OBVIOUS
    <3>3. pick[1] = c BY <3>2
    <3>4. \A a \in picks' : a[1] = c BY <1>1, <1>7, <2>2, <2>5, <3>2, <3>3 DEF PicksInv
    <3> QED BY <1>12, <1>18, <2>1, <2>3, <2>5, <3>1, <3>4, PartitionsAssumption DEF PicksInv
  <2> QED BY <2>4, <2>5, PartitionsAssumption
<1>19. ASSUME Outcome(s, {}, "panic") \/ On(RandomPartition(c, n)),
              partitioner' = [partitioner EXCEPT !.state = NextRandom(c, n)],
              UNCHANGED picks
       PROVE  SendersInv' /\ PartitionerInv' /\ PicksInv'
  <2>1. Chosen(id, RandomPartition(c, n))
    BY <1>4, <1>8, PartitionersInRange DEF Chosen, BrokersChoice
  <2>2. Told(id, "panic") BY DEF Told
  <2>3. SendersInv'
    BY <1>1, <1>2, <1>3, <1>30, <1>6, <1>12, <1>19, <2>1, <2>2, OutcomeStep
  <2>4. PartitionerInv' /\ partitioner'.state = NextRandom(c, n)
    BY <1>1, <1>10, <1>19, PartitionerStep
  <2>5. PicksInv'
    BY <1>1, <1>7, <1>11, <1>19, <2>4 DEF PicksInv
  <2> QED BY <2>3, <2>4, <2>5
<1> HIDE DEF own, key
<1> QED BY <1>13, <1>14, <1>15, <1>16, <1>17, <1>18, <1>19

LEMMA ProduceInv ==
    ASSUME Inv, NEW s \in Senders, produce(s)
    PROVE  Inv'
<1>1. sender[s].pc = "produce" /\ SendersInv BY DEF produce, Inv
<1>2. sender[s].id \in DOMAIN sent /\ Producing(sender[s], sender[s].id)
  BY <1>1, AtForms
<1>3. PICK id \in DOMAIN sent : id = sender[s].id BY <1>2
<1>30. PICK p : p = sender[s].p OBVIOUS
<1>4. HasTopic(id) /\ Chosen(id, p) BY <1>2, <1>3, <1>30 DEF Producing
<1>5. Grows BY NothingGrows DEF produce
<1>6. CASE Fail(s, "BrokerShutdown")
  <2>1. SendersInv' BY <1>1, <1>2, <1>5, <1>6, FailStep
  <2> QED BY <2>1, SenderOnly DEF produce
<1>7. CASE ~ Fail(s, "BrokerShutdown")
  <2>0. PICK o : o = topics[sent[id].topic] OBVIOUS
  <2> DEFINE at == [pc |-> "append", id |-> id, p |-> p, topic |-> o]
  <2>1. sender' = [sender EXCEPT ![s] =
            [pc |-> "append", id |-> sender[s].id, p |-> sender[s].p,
             topic |-> topics[sent[sender[s].id].topic]]]
    BY <1>1, <1>7 DEF produce, SendersInv, Rec
  <2>2. sender' = [sender EXCEPT ![s] = at] BY <1>3, <1>30, <2>0, <2>1
  <2>3. Appending(at, id)'
    <3>1. HasTopic(id)' /\ Chosen(id, p)'
      BY <1>4 DEF HasTopic, Chosen, BrokersChoice, produce
    <3>2. o = topics'[sent'[id].topic] BY <2>0 DEF produce
    <3> QED BY <3>1, <3>2 DEF Appending
  <2>4. (id \in DOMAIN sent)' BY DEF produce
  <2>5. SenderOK(at)' BY <2>3, <2>4 DEF SenderOK
  <2> HIDE DEF at
  <2>6. SendersInv' BY <1>1, <1>5, <2>2, <2>5, SenderStep
  <2> QED BY <2>6, SenderOnly DEF produce
<1> QED BY <1>6, <1>7

(* What an append does to the topics: partition p of object o changes.     *)
AppendDoes(s, id, p, o) ==
    /\ id \in DOMAIN sent /\ id = sender[s].id
    /\ HasTopic(id) /\ Chosen(id, p) /\ o = topics[sent[id].topic]
    /\ o \in DOMAIN heap /\ IsTopic(heap[o])
    /\ p \notin Partitions => Fail(s, "PartitionOutOfRange") /\ UNCHANGED heap
    /\ p \in Partitions =>
          /\ \E meta : Outcome(s, meta, "")
          /\ \E b : /\ IsBuffer(b)
                    /\ b.next_offset = heap[o][p].next_offset + 1
                    /\ heap' = [heap EXCEPT ![o] = [heap[o] EXCEPT ![p] = b]]

LEMMA AppendEffect ==
    ASSUME Inv, NEW s \in Senders, append(s)
    PROVE  \E id, p, o : AppendDoes(s, id, p, o)
<1>1. sender[s].pc = "append" /\ SendersInv BY DEF append, Inv
<1>2. sender[s].id \in DOMAIN sent /\ Appending(sender[s], sender[s].id)
  BY <1>1, AtForms
<1>3. PICK id \in DOMAIN sent : id = sender[s].id BY <1>2
<1>30. PICK p, o : p = sender[s].p /\ o = sender[s].topic OBVIOUS
<1>4. HasTopic(id) /\ Chosen(id, p) /\ o = topics[sent[id].topic]
  BY <1>2, <1>3, <1>30 DEF Appending
<1>5. o \in DOMAIN heap /\ IsTopic(heap[o])
  BY <1>4 DEF HasTopic, Inv, TopicsInv, HeapInv
<1>6. DOMAIN heap[o] = Partitions BY <1>5 DEF IsTopic
<1>7. p \notin Partitions => Fail(s, "PartitionOutOfRange") /\ UNCHANGED heap
  BY <1>3, <1>30, <1>6 DEF append
<1>8. ASSUME p \in Partitions PROVE \E meta : Outcome(s, meta, "")
  BY <1>3, <1>30, <1>6, <1>8 DEF append
<1>9. ASSUME p \in Partitions
      PROVE  \E b : /\ IsBuffer(b)
                    /\ b.next_offset = heap[o][p].next_offset + 1
                    /\ heap' = [heap EXCEPT ![o] = [heap[o] EXCEPT ![p] = b]]
  <2>1. IsBuffer(heap[o][p]) BY <1>5, <1>9 DEF IsTopic
  <2>2. PICK kind, value : heap' = [heap EXCEPT ![o][p] =
                                       Appended(@, kind, value, 0, 0)]
    BY <1>3, <1>30, <1>6, <1>9 DEF append
  <2>3. PICK b : b = Appended(heap[o][p], kind, value, 0, 0) OBVIOUS
  <2>4. IsBuffer(b) /\ b.next_offset = heap[o][p].next_offset + 1
    BY <2>1, <2>3, AppendedIsBuffer
  <2>5. heap' = [heap EXCEPT ![o] = [heap[o] EXCEPT ![p] = b]]
    BY <1>5, <1>6, <1>9, <2>2, <2>3
  <2> QED BY <2>4, <2>5
<1>10. AppendDoes(s, id, p, o)
  BY <1>3, <1>30, <1>4, <1>5, <1>7, <1>8, <1>9 DEF AppendDoes
<1> QED BY <1>10

LEMMA AppendInv ==
    ASSUME Inv, NEW s \in Senders, append(s)
    PROVE  Inv'
<1>0. PICK id, p, o : AppendDoes(s, id, p, o)
  BY AppendEffect
<1>1. /\ id \in DOMAIN sent /\ id = sender[s].id
      /\ Chosen(id, p)
      /\ o \in DOMAIN heap /\ IsTopic(heap[o])
  BY <1>0 DEF AppendDoes
<1>2. Grows BY NothingGrows DEF append
<1>3. UNCHANGED << topics, partitioner, sent, results, picks >> BY DEF append
<1>4. SendersInv BY DEF Inv
<1>5. CASE p \notin Partitions
  <2>1. Told(id, "PartitionOutOfRange") BY <1>1, <1>5 DEF Chosen, Told
  <2>2. Fail(s, "PartitionOutOfRange") /\ UNCHANGED heap
    BY <1>0, <1>5 DEF AppendDoes
  <2>3. SendersInv' BY <1>1, <1>2, <1>4, <2>1, <2>2, OutcomeStep DEF Fail
  <2> QED BY <1>3, <2>2, <2>3, SenderOnly
<1>6. CASE p \in Partitions
  <2>1. PICK b : /\ IsBuffer(b)
                 /\ heap' = [heap EXCEPT ![o] = [heap[o] EXCEPT ![p] = b]]
    BY <1>0, <1>6 DEF AppendDoes
  <2>2. Told(id, "") /\ \E meta : Outcome(s, meta, "")
    BY <1>0, <1>6 DEF Told, AppendDoes
  <2>3. SendersInv' BY <1>1, <1>2, <1>4, <2>2, OutcomeStep
  <2>4. PICK x : x = [heap[o] EXCEPT ![p] = b] OBVIOUS
  <2>5. IsTopic(x) BY <1>1, <1>6, <2>1, <2>4 DEF IsTopic
  <2>6. PICK S : heap \in Seq(S) BY DEF Inv, HeapInv
  <2>7. /\ heap' \in Seq(S \cup {x})
        /\ DOMAIN heap' = DOMAIN heap
        /\ \A i \in DOMAIN heap : heap'[i] = IF i = o THEN x ELSE heap[i]
    <3>1. heap' = [heap EXCEPT ![o] = x] BY <2>1, <2>4
    <3>2. heap \in Seq(S \cup {x}) BY <2>6
    <3> QED BY <1>1, <3>1, <3>2
  <2>8. HeapInv' BY <2>5, <2>7 DEF Inv, HeapInv
  <2>9. TopicsInv' BY <1>3, <2>7 DEF Inv, TopicsInv
  <2>10. PartitionerInv' /\ PicksInv' /\ ResultsInv' /\ (sent \in Seq(Records))'
    BY <1>3 DEF Inv, PartitionerInv, PicksInv, ResultsInv, Told, BrokersChoice
  <2> QED BY <2>3, <2>8, <2>9, <2>10 DEF Inv
<1> QED BY <1>5, <1>6

LEMMA ReturnInv ==
    ASSUME Inv, NEW s \in Senders, return(s)
    PROVE  Inv'
<1>1. sender[s].pc = "return" /\ SendersInv BY DEF return, Inv
<1>2. sender[s].id \in DOMAIN sent /\ Returning(sender[s], sender[s].id)
  BY <1>1, AtForms
<1>3. PICK id \in DOMAIN sent : id = sender[s].id BY <1>2
<1>30. PICK error : error = sender[s].error OBVIOUS
<1>4. Told(id, error) BY <1>2, <1>3, <1>30 DEF Returning
<1>5. Grows BY NothingGrows DEF return
<1>6. SenderOK(Idle)' BY DEF SenderOK, Idle
<1>7. sender' = [sender EXCEPT ![s] = Idle] BY DEF return
<1>8. PICK idle : idle = Idle OBVIOUS
<1>9. SenderOK(idle)' BY <1>6, <1>8 DEF SenderOK, Idle
<1>10. SendersInv' BY <1>1, <1>5, <1>7, <1>8, <1>9, SenderStep
<1>11. PICK y : results' = Insert(results, id, y) /\ y.error = error
  BY <1>3, <1>30 DEF return
<1>12. DOMAIN results' = DOMAIN results \cup {id}
       /\ \A x \in DOMAIN results' :
             results'[x] = IF x = id THEN y ELSE results[x]
  BY <1>11 DEF Insert
<1>13. \A x \in DOMAIN results' : Told(x, results'[x].error)
  BY <1>4, <1>11, <1>12 DEF Inv, ResultsInv
<1>14. ResultsInv'
  BY <1>12, <1>13 DEF Inv, ResultsInv, Told, BrokersChoice, return
<1>15. HeapInv' /\ TopicsInv' /\ PartitionerInv' /\ PicksInv'
  BY DEF Inv, HeapInv, TopicsInv, PartitionerInv, PicksInv, return
<1> QED BY <1>10, <1>14, <1>15 DEF Inv, return

LEMMA StepInv == Inv /\ [Next]_vars => Inv'
<1> SUFFICES ASSUME Inv, [Next]_vars PROVE Inv' OBVIOUS
<1>1. ASSUME UNCHANGED << topics, heap, partitioner, sender, sent, results, picks >>
      PROVE  Inv'
  <2>1. SendersInv'
    <3>1. Grows BY <1>1, NothingGrows
    <3>2. ASSUME NEW x \in Senders PROVE SenderOK(sender[x])'
      <4>1. PICK y : y = sender[x] OBVIOUS
      <4>2. SenderOK(y)' BY <3>1, <4>1, SenderFrame DEF Inv, SendersInv
      <4> QED BY <1>1, <4>1, <4>2
    <3> QED BY <1>1, <3>2 DEF Inv, SendersInv
  <2> QED BY <1>1, <2>1, SenderOnly
<1>2. CASE UNCHANGED vars BY <1>1, <1>2 DEF vars
<1>3. CASE shutdown BY <1>1, <1>3 DEF shutdown
<1>4. CASE backend_shutdown BY <1>1, <1>4 DEF backend_shutdown
<1>5. ASSUME NEW s \in Senders, Step(s) PROVE Inv'
  BY <1>5, CheckShutdownInv, EnsureTopicInv, CreateInv, MetadataInv,
     PartitionInv, ProduceInv, AppendInv, ReturnInv DEF Step
<1>6. ASSUME NEW s \in Senders, NEW r \in Records, send(s, r) PROVE Inv'
  BY <1>6, SendInv
<1> QED BY <1>2, <1>3, <1>4, <1>5, <1>6 DEF Next

LEMMA BrokerInv == Spec => []Inv
BY InitInv, StepInv, PTL DEF Spec

-----------------------------------------------------------------------------

(* The topic map of InMemoryBackend refers to topics there are, of the     *)
(* partitions configured, and the partitioner's counter stays an integer   *)
(* of its width.                                                           *)
THEOREM BrokerTypeOK == Spec => []TypeOK
<1>1. Inv => TypeOK
  BY DEF Inv, TypeOK, TopicsInv, HeapInv, IsTopic, Partitions, PartitionerInv,
         ResultsInv
<1> QED BY <1>1, BrokerInv, PTL

(* Broker::produce never fails with PartitionOutOfRange when it chose the  *)
(* partition itself, whatever the counters and the interleaving.           *)
THEOREM BrokerChoosesPartitions == Spec => []ChosenPartitionExists
<1>1. Inv => ChosenPartitionExists
  BY DEF Inv, ResultsInv, Told, BrokersChoice, ChosenPartitionExists
<1> QED BY <1>1, BrokerInv, PTL

(* The round-robin partitioner shared by all senders chooses the           *)
(* partitions in turn, on negative counters as on positive ones.           *)
THEOREM BrokerPartitionsInTurn == Spec => []PartitionsInTurn
<1>1. ASSUME Inv, NEW a \in picks, NEW b \in picks, b[1] = a[1] + 1
      PROVE  b[2] = (a[2] + 1) % NumPartitions
  <2>1. CASE NumPartitions > 0
    <3>1. PICK c \in SignedInt, d \in SignedInt :
             /\ a = << c, RoundRobinPartition(c, NumPartitions) >>
             /\ b = << d, RoundRobinPartition(d, NumPartitions) >>
      BY <1>1, <2>1 DEF Inv, PicksInv
    <3>2. a[1] = c /\ a[2] = RoundRobinPartition(c, NumPartitions)
      BY <3>1
    <3>3. b[1] = d /\ b[2] = RoundRobinPartition(d, NumPartitions)
      BY <3>1
    <3>4. d = c + 1 /\ c < Half - 1
      BY <1>1, <3>2, <3>3, HalfAssumption DEF SignedInt
    <3>5. NextCounter(c, NumPartitions) = d
      BY <2>1, <3>4, WrapIdentity, PartitionsAssumption DEF NextCounter
    <3>6. NumPartitions \in Nat \ {0} /\ 2 * NumPartitions <= Half
      BY <2>1, PartitionsAssumption
    <3> QED BY <3>2, <3>3, <3>4, <3>5, <3>6, RoundRobinInTurn
  <2>2. CASE NumPartitions <= 0
    <3>1. a[1] = partitioner.state /\ b[1] = partitioner.state
      BY <1>1, <2>2 DEF Inv, PicksInv
    <3>2. partitioner.state \in Int
      BY <1>1, HalfAssumption DEF Inv, PartitionerInv, SignedInt
    <3> QED BY <1>1, <3>1, <3>2
  <2> QED BY <2>1, <2>2, PartitionsAssumption
<1>2. Inv => PartitionsInTurn BY <1>1 DEF PartitionsInTurn
<1> QED BY <1>2, BrokerInv, PTL

(* The produce path implements TopicStore: ensure_topic creates a topic    *)
(* once, and an append moves the end of one partition by one.              *)
THEOREM BrokerRefinesTopicStore == Spec => ImplementsTopicStore
<1> DEFINE ends == [t \in DOMAIN topics |-> [p \in 0..(NumPartitions - 1) |->
                       heap[topics[t]][p].next_offset]]
<1>1. Init => Store!Init
  <2> SUFFICES ASSUME Init PROVE ends = [t \in {} |-> 0]
    BY DEF Store!Init
  <2>1. DOMAIN topics = {} BY DEF Init
  <2> QED BY <2>1
<1>2. ASSUME Inv, [Next]_vars PROVE [Store!Next]_ends
  <2>1. ASSUME UNCHANGED << topics, heap >> PROVE [Store!Next]_ends
    BY <2>1
  <2>2. ASSUME NEW s \in Senders, create(s) PROVE [Store!Next]_ends
    <3>1. sender[s].pc = "create" /\ SendersInv BY <1>2, <2>2 DEF create, Inv
    <3>2. sender[s].id \in DOMAIN sent BY <3>1, AtForms
    <3>3. PICK topic : topic = sent[sender[s].id].topic OBVIOUS
    <3>4. topic \in Topics
      BY <1>2, <3>2, <3>3, RecordsAssumption DEF Inv, BaseRecord
    <3>5. CreateTopic(topic) BY <2>2, <3>3 DEF create, Rec
    <3>6. CASE topic \in DOMAIN topics
      BY <2>1, <3>5, <3>6 DEF CreateTopic
    <3>7. CASE topic \notin DOMAIN topics
      <4>1. /\ heap' = Append(heap, NewTopic)
            /\ topics' = [t \in DOMAIN topics \cup {topic} |->
                             IF t = topic THEN Len(heap) + 1 ELSE topics[t]]
        BY <3>5, <3>7 DEF CreateTopic
      <4>2. PICK S : heap \in Seq(S) BY <1>2 DEF Inv, HeapInv
      <4>3. PICK new : new = NewTopic OBVIOUS
      <4>4. heap'[Len(heap) + 1] = new /\ \A i \in DOMAIN heap : heap'[i] = heap[i]
        BY <4>1, <4>2, <4>3
      <4>5. \A p \in 0..(NumPartitions - 1) : new[p].next_offset = 0
        BY <4>3 DEF NewTopic, NewBuffer
      <4>6. \A t \in DOMAIN topics : topics'[t] = topics[t] /\ topics[t] \in DOMAIN heap
        BY <1>2, <3>7, <4>1 DEF Inv, TopicsInv
      <4>7. topics'[topic] = Len(heap) + 1 /\ DOMAIN topics' = DOMAIN topics \cup {topic}
        BY <4>1
      <4>8. ends' = [u \in DOMAIN ends \cup {topic} |->
                        IF u = topic THEN [p \in 0..(NumPartitions - 1) |-> 0]
                        ELSE ends[u]]
        <5>1. \A t \in DOMAIN topics : \A p \in 0..(NumPartitions - 1) :
                 heap'[topics'[t]][p].next_offset = heap[topics[t]][p].next_offset
          BY <4>4, <4>6
        <5>2. \A p \in 0..(NumPartitions - 1) :
                 heap'[topics'[topic]][p].next_offset = 0
          BY <4>4, <4>5, <4>7
        <5>3. DOMAIN ends = DOMAIN topics OBVIOUS
        <5>4. \A t \in DOMAIN topics : ends'[t] = ends[t]
          BY <4>7, <5>1
        <5>5. ends'[topic] = [p \in 0..(NumPartitions - 1) |-> 0]
          BY <4>7, <5>2
        <5>6. ends' = [u \in DOMAIN topics \cup {topic} |-> ends'[u]]
          BY <4>7
        <5> HIDE DEF ends
        <5> QED BY <3>7, <5>3, <5>4, <5>5, <5>6
      <4>9. topic \notin DOMAIN ends BY <3>7
      <4>10. Store!Create(topic)
        BY <4>8, <4>9 DEF Store!Create
      <4> QED BY <3>4, <4>10 DEF Store!Next
    <3> QED BY <3>6, <3>7
  <2>3. ASSUME NEW s \in Senders, append(s) PROVE [Store!Next]_ends
    <3>1. PICK id, p, o : AppendDoes(s, id, p, o)
      BY <1>2, <2>3, AppendEffect
    <3>2. UNCHANGED topics BY <2>3 DEF append
    <3>3. CASE p \notin Partitions
      BY <2>1, <3>1, <3>2, <3>3 DEF AppendDoes
    <3>4. CASE p \in Partitions
      <4>1. PICK topic : topic = sent[id].topic OBVIOUS
      <4>2. topic \in DOMAIN topics /\ topic \in Topics /\ o = topics[topic]
        BY <1>2, <3>1, <4>1 DEF AppendDoes, HasTopic, Inv, TopicsInv
      <4>3. PICK b : /\ b.next_offset = heap[o][p].next_offset + 1
                     /\ heap' = [heap EXCEPT ![o] = [heap[o] EXCEPT ![p] = b]]
        BY <3>1, <3>4 DEF AppendDoes
      <4>4. o \in DOMAIN heap /\ DOMAIN heap[o] = 0..(NumPartitions - 1)
            /\ p \in 0..(NumPartitions - 1)
        BY <3>1, <3>4 DEF AppendDoes, IsTopic, Partitions
      <4>5. \A i \in DOMAIN heap, q \in 0..(NumPartitions - 1) :
               heap'[i][q] = IF i = o /\ q = p THEN b ELSE heap[i][q]
        BY <4>3, <4>4
      <4>6. \A t \in DOMAIN topics : topics[t] \in DOMAIN heap
                                    /\ (topics[t] = o <=> t = topic)
        BY <1>2, <4>2 DEF Inv, TopicsInv
      <4>7. \A t \in DOMAIN topics, q \in 0..(NumPartitions - 1) :
               heap'[topics'[t]][q].next_offset =
                  IF t = topic /\ q = p THEN heap[topics[t]][q].next_offset + 1
                  ELSE heap[topics[t]][q].next_offset
        BY <3>2, <4>2, <4>3, <4>5, <4>6
      <4>8. ends' = [ends EXCEPT ![topic][p] = @ + 1]
        <5> DEFINE one == [q \in 0..(NumPartitions - 1) |->
                              IF q = p THEN heap[o][q].next_offset + 1
                              ELSE heap[o][q].next_offset]
        <5>1. ends'[topic] = one BY <3>2, <4>2, <4>7
        <5>2. [ends[topic] EXCEPT ![p] = @ + 1] = one BY <4>2, <4>4
        <5>3. \A t \in DOMAIN topics : t # topic => ends'[t] = ends[t]
          BY <3>2, <4>7
        <5>4. DOMAIN ends' = DOMAIN topics /\ DOMAIN ends = DOMAIN topics
          BY <3>2
        <5>5. ends' = [t \in DOMAIN topics |-> ends'[t]] BY <3>2
        <5>6. ends = [t \in DOMAIN topics |-> ends[t]] OBVIOUS
        <5> HIDE DEF ends, one
        <5> QED BY <4>2, <5>1, <5>2, <5>3, <5>4, <5>5, <5>6
      <4>9. topic \in DOMAIN ends BY <4>2
      <4>10. Store!Append(topic, p)
        BY <4>4, <4>8, <4>9 DEF Store!Append
      <4> QED BY <4>2, <4>4, <4>10 DEF Store!Next
    <3> QED BY <3>3, <3>4
  <2>4. \/ UNCHANGED << topics, heap >>
        \/ \E s \in Senders : create(s) \/ append(s)
    BY <1>2 DEF Next, Step, vars, send, check_shutdown, ensure_topic, metadata,
                partition, produce, return, shutdown, backend_shutdown
  <2> HIDE DEF ends
  <2> QED BY <2>1, <2>2, <2>3, <2>4
<1> QED BY <1>1, <1>2, BrokerInv, PTL DEF Spec, ImplementsTopicStore, Store!Spec

-----------------------------------------------------------------------------
(* The records.                                                            *)

LogOK(b) ==
    /\ "log" \in DOMAIN b
    /\ \E M : b.log \in Seq(M)
    /\ Len(b.log) <= b.next_offset

(* Record id has this offset in b, and is found there while it is retained.*)
BufHolds(b, offset, id) ==
    /\ offset \in 0..(b.next_offset - 1)
    /\ offset >= OldestRetained(b) =>
          b.log[offset - OldestRetained(b) + 1].value = id

InBuf(b, v) == \E i \in DOMAIN b.log : b.log[i].value = v

Placed(m, id) ==
    /\ m.topic \in DOMAIN topics
    /\ m.partition \in Partitions
    /\ BufHolds(heap[topics[m.topic]][m.partition], m.offset, id)

LogsInv == \A o \in DOMAIN heap : \A p \in Partitions : LogOK(heap[o][p])

PlacedInv ==
    /\ \A i \in DOMAIN reports : \A m \in reports[i].meta : Placed(m, reports[i].id)
    /\ \A id \in DOMAIN results : \A m \in results[id].answer.meta : Placed(m, id)
    /\ \A s \in Senders : sender[s].pc = "return" =>
          \A m \in sender[s].meta : Placed(m, sender[s].id)

(* After shutdown took effect.                                             *)
LimitInv ==
    /\ "backend" \in DOMAIN shut
    /\ shut.backend =>
          /\ StoredIds \subseteq mayStore.records
          /\ DOMAIN topics \subseteq mayStore.topics
          /\ \A s \in Senders :
                /\ sender[s].pc = "append" => sender[s].id \in mayStore.records
                /\ sender[s].pc = "create" => Rec(s).topic \in mayStore.topics

(* A record in flight has one sender, and nothing has been said of it.     *)
InFlightInv ==
    \A s \in Senders : sender[s].pc # "idle" =>
       /\ sender[s].id \notin DOMAIN results
       /\ \A t \in Senders : t # s /\ sender[t].pc # "idle" =>
             sender[t].id # sender[s].id

StoredInv ==
    \A id \in StoredIds :
       \/ id \in DOMAIN results /\ results[id].answer.ok
       \/ \E s \in Senders : /\ sender[s].pc = "return"
                             /\ sender[s].id = id
                             /\ sender[s].meta # {}

ReportsOf(id) == {i \in DOMAIN reports : reports[i].id = id}

ReportsInv ==
    /\ \E R : reports \in Seq(R)
    /\ \A i \in DOMAIN reports : reports[i].id \in DOMAIN results
    /\ \A id \in DOMAIN results :
          /\ IF results[id].error = "panic" \/ Typed(results[id].by)
             THEN ReportsOf(id) = {} ELSE Cardinality(ReportsOf(id)) = 1
          /\ \A i \in ReportsOf(id) :
                results[id].answer.ok <=> reports[i].meta # {}

-----------------------------------------------------------------------------
(* A buffer and an append to it.                                           *)

LEMMA BufferStep ==
    ASSUME NEW b, IsBuffer(b), LogOK(b), NEW kind, NEW id, NEW r,
           r = Appended(b, kind, id, 0, 0)
    PROVE  /\ LogOK(r)
           /\ r.next_offset = b.next_offset + 1
           /\ \A offset, x : BufHolds(b, offset, x) => BufHolds(r, offset, x)
           /\ BufHolds(r, b.next_offset, id)
           /\ \A v : InBuf(r, v) => InBuf(b, v) \/ v = id
<1>1. PICK M : b.log \in Seq(M) BY DEF LogOK
<1>2. PICK msg : msg = StoredMessage(kind, id, b.next_offset, 0) OBVIOUS
<1>3. msg.value = id BY <1>2 DEF StoredMessage
<1>4. PICK full : full = Append(b.log, msg) OBVIOUS
<1>5. /\ DOMAIN r = DOMAIN b
      /\ r.next_offset = b.next_offset + 1
      /\ r.log \in Seq(M \cup {msg})
      /\ Len(r.log) <= Len(full)
      /\ \A i \in 1..Len(r.log) :
            r.log[i] = full[Len(full) - Len(r.log) + i]
  <2>1. "log" \in DOMAIN b /\ "next_offset" \in DOMAIN b BY DEF IsBuffer, LogOK
  <2>2. EndKept(b, r, msg, M) BY <1>1, <1>2, <2>1, AppendedKeepsTheEnd
  <2> QED BY <1>4, <2>2 DEF EndKept
<1>6. PICK n, k, l : n = b.next_offset /\ k = Len(b.log) /\ l = Len(r.log) OBVIOUS
<1>7. n \in Nat /\ k \in Nat /\ l \in Nat /\ k <= n /\ Len(full) = k + 1 /\ l <= k + 1
  <2>1. Len(full) = Len(b.log) + 1 BY <1>1, <1>4
  <2>2. Len(b.log) \in Nat /\ Len(r.log) \in Nat BY <1>1, <1>5
  <2> QED BY <1>5, <1>6, <2>1, <2>2 DEF IsBuffer, LogOK
<1>8. full[k + 1] = msg /\ \A i \in 1..k : full[i] = b.log[i]
  BY <1>1, <1>4, <1>6
<1>9. \A i \in 1..l : r.log[i] = full[(k + 1) - l + i]
  BY <1>5, <1>6, <1>7
<1>10. OldestRetained(b) = n - k /\ OldestRetained(r) = (n + 1) - l
  BY <1>5, <1>6 DEF OldestRetained
<1>11. LogOK(r)
  BY <1>5, <1>6, <1>7 DEF LogOK
<1>12. ASSUME NEW offset, NEW x, BufHolds(b, offset, x) PROVE BufHolds(r, offset, x)
  <2>1. offset \in 0..(n - 1) BY <1>6, <1>12 DEF BufHolds
  <2>2. offset \in 0..((n + 1) - 1) BY <1>7, <2>1
  <2>3. ASSUME offset >= (n + 1) - l
        PROVE  r.log[offset - ((n + 1) - l) + 1].value = x
    <3>1. PICK i : i = offset - ((n + 1) - l) + 1 OBVIOUS
    <3>2. PICK j : j = offset - (n - k) + 1 OBVIOUS
    <3>3. i \in 1..l /\ (k + 1) - l + i = j /\ j \in 1..k /\ offset >= n - k
      BY <1>7, <2>1, <2>3, <3>1, <3>2
    <3>4. r.log[i] = b.log[j] BY <1>8, <1>9, <3>3
    <3>5. b.log[j].value = x BY <1>10, <1>12, <3>2, <3>3 DEF BufHolds
    <3> QED BY <3>1, <3>4, <3>5
  <2> QED BY <1>5, <1>6, <1>10, <2>2, <2>3 DEF BufHolds
<1>13. BufHolds(r, n, id)
  <2>1. n \in 0..((n + 1) - 1) BY <1>7
  <2>2. ASSUME n >= (n + 1) - l PROVE r.log[n - ((n + 1) - l) + 1].value = id
    <3>1. l \in 1..l /\ n - ((n + 1) - l) + 1 = l /\ (k + 1) - l + l = k + 1
      BY <1>7, <2>2
    <3>2. r.log[l] = msg BY <1>8, <1>9, <3>1
    <3> QED BY <1>3, <3>1, <3>2
  <2> QED BY <1>5, <1>6, <1>10, <2>1, <2>2 DEF BufHolds
<1>14. ASSUME NEW v, InBuf(r, v) PROVE InBuf(b, v) \/ v = id
  <2>1. PICK i \in 1..l : r.log[i].value = v
    BY <1>5, <1>6, <1>14 DEF InBuf
  <2>2. PICK j : j = (k + 1) - l + i OBVIOUS
  <2>3. j \in 1..(k + 1) /\ r.log[i] = full[j] BY <1>7, <1>9, <2>2
  <2>4. CASE j = k + 1 BY <1>3, <1>8, <2>1, <2>3, <2>4
  <2>5. CASE j # k + 1
    <3>1. j \in 1..k BY <1>7, <2>3, <2>5
    <3>2. j \in DOMAIN b.log /\ b.log[j].value = v
      BY <1>1, <1>6, <1>8, <2>1, <2>3, <3>1
    <3> QED BY <3>2 DEF InBuf
  <2> QED BY <2>4, <2>5
<1> QED BY <1>5, <1>6, <1>11, <1>12, <1>13, <1>14

LEMMA NewBufferOK ==
    LogOK(NewBuffer(Config)) /\ \A v : ~ InBuf(NewBuffer(Config), v)
<1>1. PICK b : b = NewBuffer(Config) OBVIOUS
<1>2. DOMAIN b = {"log", "next_offset", "max_capacity", "policies"}
      /\ b.log = << >> /\ b.next_offset = 0
  BY <1>1 DEF NewBuffer
<1>3. b.log \in Seq({}) /\ Len(b.log) = 0 /\ DOMAIN b.log = {} BY <1>2
<1> QED BY <1>1, <1>2, <1>3 DEF LogOK, InBuf

LEMMA StoredMeans ==
    ASSUME Inv, NEW v
    PROVE  v \in StoredIds <=>
              \E o \in DOMAIN heap : \E p \in Partitions : InBuf(heap[o][p], v)
<1>1. \A o \in DOMAIN heap : DOMAIN heap[o] = Partitions
  BY DEF Inv, HeapInv, IsTopic
<1> QED BY <1>1 DEF StoredIds, InBuf

-----------------------------------------------------------------------------
(* The steps there are, by what they do to senders and topics.             *)

(* The send goes on, or fails.                                             *)
Moved(s, at) ==
    /\ sender[s].pc \notin {"idle", "return"}
    /\ at.id = sender[s].id
    /\ at.pc # "idle"
    /\ at.pc = "return" => at.meta = {}
    /\ at.pc \in {"append", "create"} => ~ shut.backend
    /\ sender' = [sender EXCEPT ![s] = at]
    /\ UNCHANGED << sent, results, reports, shut, mayStore >>

Creates(topic) ==
    /\ topic \notin DOMAIN topics
    /\ heap' = Append(heap, NewTopic)
    /\ topics' = [t \in DOMAIN topics \cup {topic} |->
                     IF t = topic THEN Len(heap) + 1 ELSE topics[t]]

(* Record id is appended to partition p of object o.                       *)
Stores(s, id, p, o, kind) ==
    /\ sender[s].pc = "append"
    /\ id \in DOMAIN sent /\ id = sender[s].id
    /\ HasTopic(id) /\ o = topics[sent[id].topic] /\ o \in DOMAIN heap
    /\ p \in Partitions /\ IsTopic(heap[o])
    /\ heap' = [heap EXCEPT ![o] = [heap[o] EXCEPT ![p] =
                   Appended(heap[o][p], kind, id, 0, 0)]]
    /\ sender' = [sender EXCEPT ![s] =
          [pc |-> "return", id |-> id, error |-> "",
           meta |-> {RecordMetadata(sent[id].topic, p, heap[o][p].next_offset)}]]
    /\ UNCHANGED << topics, shut, sent, results, reports, mayStore >>

LEMMA FailMoves ==
    ASSUME SendersInv, NEW s \in Senders, NEW error, Fail(s, error),
           sender[s].pc \notin {"idle", "return"},
           UNCHANGED << sent, results, reports, shut, mayStore >>
    PROVE  \E at : Moved(s, at)
<1>1. PICK id : id = sender[s].id OBVIOUS
<1> DEFINE at == [pc |-> "return", id |-> id, meta |-> {}, error |-> error]
<1>2. sender' = [sender EXCEPT ![s] = at]
  BY <1>1 DEF Fail, Outcome, SendersInv
<1>3. Moved(s, at) BY <1>1, <1>2 DEF Moved
<1> QED BY <1>3

LEMMA GotoMoves ==
    ASSUME SendersInv, NEW s \in Senders,
           sender[s].pc \in {"check", "ensure", "create"},
           NEW pc \in {"ensure", "create", "metadata"}, Goto(s, pc),
           pc = "create" => ~ shut.backend,
           UNCHANGED << sent, results, reports, shut, mayStore >>
    PROVE  \E at : Moved(s, at)
<1>1. sender[s] = [pc |-> sender[s].pc, id |-> sender[s].id]
  BY AtForms
<1>2. PICK id, was : id = sender[s].id /\ sender[s] = [pc |-> was, id |-> id]
  BY <1>1
<1> DEFINE at == [pc |-> pc, id |-> id]
<1>3. [sender[s] EXCEPT !.pc = pc] = at BY <1>2
<1>4. sender' = [sender EXCEPT ![s] = at] BY <1>3 DEF Goto, SendersInv
<1>5. Moved(s, at) BY <1>2, <1>4 DEF Moved
<1> QED BY <1>5

(* metadata, partition and produce go on with more than they had.          *)
LEMMA TopicMoves ==
    ASSUME SendersInv, NEW s \in Senders,
           metadata(s) \/ partition(s) \/ produce(s)
    PROVE  \E at : Moved(s, at) /\ UNCHANGED << topics, heap >>
<1>1. UNCHANGED << topics, heap, sent, results, reports, shut, mayStore >>
  BY DEF metadata, partition, produce
<1>2. sender[s].pc \in {"metadata", "partition", "produce"}
  BY DEF metadata, partition, produce
<1>3. \/ \E error : Fail(s, error)
      \/ \E n : sender' = [sender EXCEPT ![s] =
                   [pc |-> "partition", id |-> sender[s].id, n |-> n]]
      \/ \E p : sender' = [sender EXCEPT ![s] =
                   [pc |-> "produce", id |-> sender[s].id, p |-> p]]
      \/ \E p, o : /\ ~ shut.backend
                   /\ sender' = [sender EXCEPT ![s] =
                        [pc |-> "append", id |-> sender[s].id, p |-> p, topic |-> o]]
  <2>1. CASE metadata(s) BY <2>1 DEF metadata, SendersInv
  <2>2. CASE partition(s) BY <2>2 DEF partition, SendersInv, Fail
  <2>3. CASE produce(s) BY <2>3 DEF produce, SendersInv, BackendOpen
  <2> QED BY <2>1, <2>2, <2>3
<1>4. CASE \E error : Fail(s, error) BY <1>1, <1>2, <1>4, FailMoves
<1>5. PICK id : id = sender[s].id OBVIOUS
<1>6. ASSUME NEW n, sender' = [sender EXCEPT ![s] =
                       [pc |-> "partition", id |-> sender[s].id, n |-> n]]
      PROVE  \E at : Moved(s, at)
  <2> DEFINE at == [pc |-> "partition", id |-> id, n |-> n]
  <2>1. Moved(s, at) BY <1>1, <1>2, <1>5, <1>6 DEF Moved
  <2> QED BY <2>1
<1>7. ASSUME NEW p, sender' = [sender EXCEPT ![s] =
                       [pc |-> "produce", id |-> sender[s].id, p |-> p]]
      PROVE  \E at : Moved(s, at)
  <2> DEFINE at == [pc |-> "produce", id |-> id, p |-> p]
  <2>1. Moved(s, at) BY <1>1, <1>2, <1>5, <1>7 DEF Moved
  <2> QED BY <2>1
<1>8. ASSUME NEW p, NEW o, ~ shut.backend, sender' = [sender EXCEPT ![s] =
                [pc |-> "append", id |-> sender[s].id, p |-> p, topic |-> o]]
      PROVE  \E at : Moved(s, at)
  <2> DEFINE at == [pc |-> "append", id |-> id, p |-> p, topic |-> o]
  <2>1. Moved(s, at) BY <1>1, <1>2, <1>5, <1>8 DEF Moved
  <2> QED BY <2>1
<1> QED BY <1>1, <1>3, <1>4, <1>6, <1>7, <1>8

LEMMA AppendMovesOrStores ==
    ASSUME Inv, NEW s \in Senders, append(s)
    PROVE  \/ \E at : Moved(s, at) /\ UNCHANGED << topics, heap >>
           \/ \E id, p, o, kind : Stores(s, id, p, o, kind)
<1>1. sender[s].pc = "append" /\ SendersInv BY DEF append, Inv
<1>2. sender[s].id \in DOMAIN sent /\ Appending(sender[s], sender[s].id)
  BY <1>1, AtForms
<1>3. PICK id \in DOMAIN sent : id = sender[s].id BY <1>2
<1>4. PICK p, o : p = sender[s].p /\ o = sender[s].topic OBVIOUS
<1>5. HasTopic(id) /\ o = topics[sent[id].topic]
  BY <1>2, <1>3, <1>4 DEF Appending
<1>6. o \in DOMAIN heap /\ IsTopic(heap[o])
  BY <1>5 DEF HasTopic, Inv, TopicsInv, HeapInv
<1>7. DOMAIN heap[o] = Partitions BY <1>6 DEF IsTopic
<1>8. UNCHANGED << topics, shut, sent, results, reports, mayStore >> BY DEF append
<1>9. CASE p \notin Partitions
  <2>1. Fail(s, "PartitionOutOfRange") /\ UNCHANGED heap
    BY <1>4, <1>7, <1>9 DEF append
  <2> QED BY <1>1, <1>8, <2>1, FailMoves
<1>10. CASE p \in Partitions
  <2>1. PICK kind : kind = IF Typed(s) THEN "typed" ELSE "raw" OBVIOUS
  <2>2. /\ heap' = [heap EXCEPT ![o][p] = Appended(@, kind, id, 0, 0)]
        /\ Outcome(s, {RecordMetadata(sent[id].topic, p,
                                      OffsetOf(heap[o][p]))}, "")
    BY <1>3, <1>4, <1>7, <1>10, <2>1 DEF append, Rec
  <2>3. heap' = [heap EXCEPT ![o] = [heap[o] EXCEPT ![p] =
                   Appended(heap[o][p], kind, id, 0, 0)]]
    BY <1>6, <1>7, <1>10, <2>2
  <2>4. PICK meta : meta = {RecordMetadata(sent[id].topic, p, heap[o][p].next_offset)}
    OBVIOUS
  <2>5. Outcome(s, meta, "") BY <2>2, <2>4 DEF OffsetOf
  <2>6. sender' = [sender EXCEPT ![s] =
            [pc |-> "return", id |-> id, error |-> "", meta |-> meta]]
    BY <1>1, <1>3, <2>5 DEF Outcome, SendersInv
  <2>7. Stores(s, id, p, o, kind)
    BY <1>1, <1>3, <1>5, <1>6, <1>8, <1>10, <2>3, <2>4, <2>6 DEF Stores
  <2> QED BY <2>7
<1> QED BY <1>9, <1>10

LEMMA Kinds ==
    ASSUME Inv, Next
    PROVE  \/ \E s \in Senders, r \in Records : send(s, r)
           \/ shutdown
           \/ backend_shutdown
           \/ \E s \in Senders : return(s)
           \/ \E s \in Senders : \E at : Moved(s, at) /\ UNCHANGED << topics, heap >>
           \/ \E s \in Senders : \E at : /\ Moved(s, at)
                                         /\ sender[s].pc = "create"
                                         /\ Creates(Rec(s).topic)
           \/ \E s \in Senders : \E id, p, o, kind : Stores(s, id, p, o, kind)
<1>1. SendersInv BY DEF Inv
<1>2. ASSUME NEW s \in Senders, check_shutdown(s)
      PROVE  \E at : Moved(s, at) /\ UNCHANGED << topics, heap >>
  <2>1. \E at : Moved(s, at)
    BY <1>1, <1>2, FailMoves, GotoMoves DEF check_shutdown
  <2> QED BY <1>2, <2>1 DEF check_shutdown
<1>3. ASSUME NEW s \in Senders, ensure_topic(s)
      PROVE  \E at : Moved(s, at) /\ UNCHANGED << topics, heap >>
  <2>1. \/ Fail(s, "BrokerShutdown")
        \/ Goto(s, "metadata")
        \/ Goto(s, "create") /\ ~ shut.backend
    BY <1>3 DEF ensure_topic, BackendOpen
  <2>2. \E at : Moved(s, at)
    BY <1>1, <1>3, <2>1, FailMoves, GotoMoves DEF ensure_topic
  <2> QED BY <1>3, <2>2 DEF ensure_topic
<1>4. ASSUME NEW s \in Senders, create(s)
      PROVE  \E at : /\ Moved(s, at)
                     /\ \/ UNCHANGED << topics, heap >>
                        \/ sender[s].pc = "create" /\ Creates(Rec(s).topic)
  <2>1. \E at : Moved(s, at)
    BY <1>1, <1>4, GotoMoves DEF create
  <2>2. PICK topic : topic = Rec(s).topic OBVIOUS
  <2>3. CreateTopic(topic) BY <1>4, <2>2 DEF create
  <2>4. UNCHANGED << topics, heap >> \/ Creates(topic)
    BY <2>3 DEF CreateTopic, Creates
  <2> QED BY <1>4, <2>1, <2>2, <2>4 DEF create
<1>5. ASSUME NEW s \in Senders, Step(s)
      PROVE  \/ check_shutdown(s) \/ ensure_topic(s) \/ create(s)
             \/ metadata(s) \/ partition(s) \/ produce(s)
             \/ append(s) \/ return(s)
  BY <1>5 DEF Step
<1>6. \/ \E s \in Senders : Step(s) \/ \E r \in Records : send(s, r)
      \/ shutdown
      \/ backend_shutdown
  BY DEF Next
<1> QED BY <1>1, <1>2, <1>3, <1>4, <1>5, <1>6, TopicMoves, AppendMovesOrStores

-----------------------------------------------------------------------------
(* What the steps do to the topics.                                        *)

LEMMA CreatesEffect ==
    ASSUME Inv, NEW topic, Creates(topic)
    PROVE  /\ DOMAIN heap' = DOMAIN heap \cup {Len(heap) + 1}
           /\ \A o \in DOMAIN heap : heap'[o] = heap[o]
           /\ heap'[Len(heap) + 1] = NewTopic
           /\ DOMAIN topics' = DOMAIN topics \cup {topic}
           /\ \A t \in DOMAIN topics : topics'[t] = topics[t]
<1>1. PICK S : heap \in Seq(S) BY DEF Inv, HeapInv
<1>2. PICK new : new = NewTopic OBVIOUS
<1>3. /\ DOMAIN heap' = DOMAIN heap \cup {Len(heap) + 1}
      /\ \A o \in DOMAIN heap : heap'[o] = heap[o]
      /\ heap'[Len(heap) + 1] = new
  BY <1>1, <1>2 DEF Creates
<1>4. DOMAIN topics' = DOMAIN topics \cup {topic} BY DEF Creates
<1>5. \A t \in DOMAIN topics : topics'[t] = topics[t] BY DEF Creates
<1> QED BY <1>2, <1>3, <1>4, <1>5

LEMMA StoresEffect ==
    ASSUME Inv, LogsInv, NEW s \in Senders, NEW id, NEW p, NEW o, NEW kind,
           Stores(s, id, p, o, kind)
    PROVE  /\ DOMAIN heap' = DOMAIN heap
           /\ \A i \in DOMAIN heap, q \in Partitions :
                 /\ LogOK(heap'[i][q])
                 /\ \A offset, x : BufHolds(heap[i][q], offset, x) =>
                                      BufHolds(heap'[i][q], offset, x)
                 /\ \A v : InBuf(heap'[i][q], v) => InBuf(heap[i][q], v) \/ v = id
           /\ BufHolds(heap'[o][p], heap[o][p].next_offset, id)
<1>1. PICK b, r : b = heap[o][p] /\ r = Appended(b, kind, id, 0, 0) OBVIOUS
<1>2. /\ o \in DOMAIN heap /\ p \in Partitions /\ DOMAIN heap[o] = Partitions
      /\ IsBuffer(b) /\ LogOK(b)
  BY <1>1 DEF Stores, IsTopic, LogsInv
<1>3. /\ LogOK(r)
      /\ \A offset, x : BufHolds(b, offset, x) => BufHolds(r, offset, x)
      /\ BufHolds(r, b.next_offset, id)
      /\ \A v : InBuf(r, v) => InBuf(b, v) \/ v = id
  BY <1>1, <1>2, BufferStep
<1>4. heap' = [heap EXCEPT ![o] = [heap[o] EXCEPT ![p] = r]]
  BY <1>1 DEF Stores
<1>5. DOMAIN heap' = DOMAIN heap BY <1>4
<1>6. ASSUME NEW i \in DOMAIN heap, NEW q \in Partitions
      PROVE  heap'[i][q] = IF i = o /\ q = p THEN r ELSE heap[i][q]
  BY <1>2, <1>4
<1>7. heap'[o][p] = r BY <1>2, <1>6
<1>8. ASSUME NEW i \in DOMAIN heap, NEW q \in Partitions
      PROVE  /\ LogOK(heap'[i][q])
             /\ \A offset, x : BufHolds(heap[i][q], offset, x) =>
                                  BufHolds(heap'[i][q], offset, x)
             /\ \A v : InBuf(heap'[i][q], v) => InBuf(heap[i][q], v) \/ v = id
  <2>1. CASE i = o /\ q = p BY <1>1, <1>3, <1>7, <2>1
  <2>2. CASE ~ (i = o /\ q = p)
    <3>1. heap'[i][q] = heap[i][q] BY <1>6, <2>2
    <3>2. LogOK(heap[i][q]) BY DEF LogsInv
    <3> QED BY <3>1, <3>2
  <2> QED BY <2>1, <2>2
<1> QED BY <1>1, <1>3, <1>5, <1>7, <1>8

(* The three things that can happen to the topics.                         *)
LEMMA TopicsChange ==
    ASSUME Inv, [Next]_vars
    PROVE  \/ UNCHANGED << topics, heap >>
           \/ \E topic : Creates(topic)
           \/ \E s \in Senders : \E id, p, o, kind : Stores(s, id, p, o, kind)
<1>1. CASE UNCHANGED vars BY <1>1 DEF vars
<1>2. CASE Next
  BY <1>2, Kinds DEF send, shutdown, backend_shutdown, return
<1> QED BY <1>1, <1>2

LEMMA LogsStep ==
    ASSUME Inv, LogsInv, [Next]_vars
    PROVE  LogsInv'
<1>1. CASE UNCHANGED << topics, heap >> BY <1>1 DEF LogsInv
<1>2. ASSUME NEW topic, Creates(topic) PROVE LogsInv'
  <2>1. \A q \in Partitions : LogOK(NewTopic[q])
    BY NewBufferOK DEF NewTopic, Partitions
  <2> QED BY <1>2, <2>1, CreatesEffect DEF LogsInv
<1>3. ASSUME NEW s \in Senders, NEW id, NEW p, NEW o, NEW kind,
             Stores(s, id, p, o, kind)
      PROVE  LogsInv'
  BY <1>3, StoresEffect DEF LogsInv
<1> QED BY <1>1, <1>2, <1>3, TopicsChange

(* A record stays where it was put.                                        *)
LEMMA PlacedStays ==
    ASSUME Inv, LogsInv, [Next]_vars, NEW m, NEW x, Placed(m, x)
    PROVE  Placed(m, x)'
<1>0. m.topic \in DOMAIN topics /\ m.partition \in Partitions
      /\ topics[m.topic] \in DOMAIN heap
  BY DEF Placed, Inv, TopicsInv
<1>1. CASE UNCHANGED << topics, heap >> BY <1>1 DEF Placed
<1>2. ASSUME NEW topic, Creates(topic) PROVE Placed(m, x)'
  <2>1. topics'[m.topic] = topics[m.topic] /\ m.topic \in DOMAIN topics'
    BY <1>0, <1>2, CreatesEffect
  <2>2. PICK o \in DOMAIN heap : o = topics[m.topic] BY <1>0
  <2>3. heap'[o] = heap[o] BY <1>2, CreatesEffect
  <2>4. heap'[topics'[m.topic]] = heap[topics[m.topic]] BY <2>1, <2>2, <2>3
  <2> QED BY <1>0, <2>1, <2>4 DEF Placed
<1>3. ASSUME NEW s \in Senders, NEW id, NEW p, NEW o, NEW kind,
             Stores(s, id, p, o, kind)
      PROVE  Placed(m, x)'
  <2>1. topics' = topics BY <1>3 DEF Stores
  <2>2. PICK i, q : i = topics[m.topic] /\ q = m.partition OBVIOUS
  <2>3. BufHolds(heap[i][q], m.offset, x) BY <2>2 DEF Placed
  <2>4. BufHolds(heap'[i][q], m.offset, x)
    BY <1>0, <1>3, <2>2, <2>3, StoresEffect
  <2> QED BY <1>0, <2>1, <2>2, <2>4 DEF Placed
<1> QED BY <1>1, <1>2, <1>3, TopicsChange

(* Only an append adds to what is stored.                                  *)
LEMMA StoredGrows ==
    ASSUME Inv, Inv', LogsInv, NEW v \in StoredIds'
    PROVE  /\ UNCHANGED << topics, heap >> => v \in StoredIds
           /\ \A topic : Creates(topic) => v \in StoredIds
           /\ \A s \in Senders : \A id, p, o, kind :
                 Stores(s, id, p, o, kind) => v \in StoredIds \cup {id}
<1>1. PICK o \in DOMAIN heap', p \in Partitions : InBuf(heap'[o][p], v)
  <2>1. \A x : (x \in StoredIds <=>
                  \E i \in DOMAIN heap : \E q \in Partitions : InBuf(heap[i][q], x))'
    <3>1. (\A i \in DOMAIN heap : DOMAIN heap[i] = Partitions)'
      BY DEF Inv, HeapInv, IsTopic
    <3> QED BY <3>1 DEF StoredIds, InBuf
  <2> QED BY <2>1 DEF Partitions
<1>2. o \in DOMAIN heap /\ InBuf(heap[o][p], v) => v \in StoredIds
  BY StoredMeans
<1>3. UNCHANGED << topics, heap >> => v \in StoredIds
  BY <1>1, <1>2
<1>4. ASSUME NEW topic, Creates(topic) PROVE v \in StoredIds
  <2>1. \A q \in Partitions : ~ InBuf(NewTopic[q], v)
    BY NewBufferOK DEF NewTopic, Partitions
  <2> QED BY <1>1, <1>2, <1>4, <2>1, CreatesEffect
<1>5. ASSUME NEW s \in Senders, NEW id, NEW q, NEW i, NEW kind,
             Stores(s, id, q, i, kind)
      PROVE  v \in StoredIds \cup {id}
  BY <1>1, <1>2, <1>5, StoresEffect
<1> QED BY <1>3, <1>4, <1>5

-----------------------------------------------------------------------------
(* Records are where their senders are told.                               *)

(* A sender's answer names no other place than it was given.               *)
LEMMA AnswerMeta ==
    ASSUME NEW s \in Senders
    PROVE  /\ Answer(s).meta \subseteq sender[s].meta
           /\ Answer(s).ok <=> sender[s].meta # {}
<1>1. PICK r, meta : r = Rec(s) /\ meta = sender[s].meta OBVIOUS
<1>2. BaseAnswer(r, meta).meta = meta /\ (BaseAnswer(r, meta).ok <=> meta # {})
  BY DEF BaseAnswer
<1>3. FutureAnswer(r, meta).meta = meta /\ (FutureAnswer(r, meta).ok <=> meta # {})
  BY DEF FutureAnswer, BaseAnswer
<1>4. SinkAnswer(r, meta).meta = {} /\ (SinkAnswer(r, meta).ok <=> meta # {})
  BY DEF SinkAnswer, StreamAnswer, BaseAnswer
<1>5. TypedAnswer(r, meta).meta = meta /\ (TypedAnswer(r, meta).ok <=> meta # {})
  BY DEF TypedAnswer, BaseAnswer
<1>6. \/ Answer(s) = BaseAnswer(r, meta) \/ Answer(s) = FutureAnswer(r, meta)
      \/ Answer(s) = SinkAnswer(r, meta) \/ Answer(s) = TypedAnswer(r, meta)
  <2>1. ProducerOf[s] \in Producers BY ProducerOfAssumption
  <2> QED BY <1>1, <2>1 DEF Answer, Producers, StreamAnswer
<1> QED BY <1>1, <1>2, <1>3, <1>4, <1>5, <1>6

(* What return adds to results and reports.                                *)
ReturnsWith(s, id, y, meta) ==
    /\ id \in DOMAIN sent /\ id = sender[s].id /\ meta = sender[s].meta
    /\ sender[s].pc = "return"
    /\ sender' = [sender EXCEPT ![s] = Idle]
    /\ DOMAIN results' = DOMAIN results \cup {id}
    /\ results'[id] = y
    /\ \A x \in DOMAIN results : x # id => results'[x] = results[x]
    /\ y.by = s /\ y.error = sender[s].error
    /\ y.answer.meta \subseteq meta /\ (y.answer.ok <=> meta # {})
    /\ reports' = IF Typed(s) \/ sender[s].error = "panic" THEN reports
                  ELSE Append(reports, [id |-> id, meta |-> meta])
    /\ UNCHANGED << topics, heap, shut, sent, mayStore >>

LEMMA ReturnEffect ==
    ASSUME Inv, NEW s \in Senders, return(s)
    PROVE  \E id, y, meta : ReturnsWith(s, id, y, meta)
<1>1. sender[s].pc = "return" /\ SendersInv BY DEF return, Inv
<1>2. sender[s].id \in DOMAIN sent BY <1>1, AtForms
<1>3. PICK id \in DOMAIN sent : id = sender[s].id BY <1>2
<1>4. PICK meta, answer : meta = sender[s].meta /\ answer = Answer(s) OBVIOUS
<1>5. PICK y : y = [by |-> s, error |-> sender[s].error, answer |-> answer] OBVIOUS
<1>6. results' = Insert(results, id, y) BY <1>3, <1>4, <1>5 DEF return
<1>7. /\ DOMAIN results' = DOMAIN results \cup {id}
      /\ results'[id] = y
      /\ \A x \in DOMAIN results : x # id => results'[x] = results[x]
  BY <1>6 DEF Insert
<1>8. answer.meta \subseteq meta /\ (answer.ok <=> meta # {})
  BY <1>4, AnswerMeta
<1>9. y.by = s /\ y.error = sender[s].error /\ y.answer = answer BY <1>5
<1>10. reports' = IF Typed(s) \/ sender[s].error = "panic" THEN reports
                  ELSE Append(reports, [id |-> id, meta |-> meta])
  BY <1>3, <1>4 DEF return, Reported
<1>11. /\ sender' = [sender EXCEPT ![s] = Idle]
       /\ UNCHANGED << topics, heap, shut, sent, mayStore >>
  BY DEF return
<1>12. ReturnsWith(s, id, y, meta)
  BY <1>1, <1>3, <1>4, <1>7, <1>8, <1>9, <1>10, <1>11 DEF ReturnsWith
<1> QED BY <1>12

(* A step of one sender, seen from any.                                    *)
LEMMA OneSender ==
    ASSUME SendersInv, NEW s \in Senders, NEW at,
           sender' = [sender EXCEPT ![s] = at]
    PROVE  sender'[s] = at /\ \A t \in Senders : t # s => sender'[t] = sender[t]
BY DEF SendersInv

(* The sender of a record that is stored.                                  *)
LEMMA StoresSender ==
    ASSUME NEW s, NEW id, NEW p, NEW o, NEW kind, Stores(s, id, p, o, kind)
    PROVE  \E at : /\ sender' = [sender EXCEPT ![s] = at]
                   /\ at.pc = "return" /\ at.id = id /\ at.meta # {}
<1>1. PICK m : m = RecordMetadata(sent[id].topic, p, heap[o][p].next_offset) OBVIOUS
<1>2. PICK at : at = [pc |-> "return", id |-> id, error |-> "", meta |-> {m}] OBVIOUS
<1>3. sender' = [sender EXCEPT ![s] = at] BY <1>1, <1>2 DEF Stores
<1>4. at.pc = "return" /\ at.id = id /\ at.meta # {} BY <1>2
<1> QED BY <1>3, <1>4

LEMMA PlacedStep ==
    ASSUME Inv, LogsInv, PlacedInv, ReportsInv, [Next]_vars
    PROVE  PlacedInv'
<1>0. SendersInv BY DEF Inv
<1>1. ASSUME NEW i \in DOMAIN reports, NEW m \in reports[i].meta, NEW x,
             x = reports[i].id
      PROVE  Placed(m, x)'
  <2>1. Placed(m, x) BY <1>1 DEF PlacedInv
  <2> QED BY <2>1, PlacedStays
<1>2. ASSUME NEW id \in DOMAIN results, NEW m \in results[id].answer.meta
      PROVE  Placed(m, id)'
  <2>1. Placed(m, id) BY <1>2 DEF PlacedInv
  <2> QED BY <2>1, PlacedStays
<1>3. ASSUME NEW s \in Senders, sender[s].pc = "return", NEW m \in sender[s].meta,
             NEW x, x = sender[s].id
      PROVE  Placed(m, x)'
  <2>1. Placed(m, x) BY <1>3 DEF PlacedInv
  <2> QED BY <2>1, PlacedStays
<1>4. ASSUME UNCHANGED << reports, results >>,
             \A s \in Senders : \/ sender'[s] = sender[s]
                                \/ sender'[s].pc # "return"
                                \/ \E x : /\ x = sender'[s].id
                                          /\ \A m \in sender'[s].meta : Placed(m, x)'
      PROVE  PlacedInv'
  <2>1. (\A i \in DOMAIN reports : \A m \in reports[i].meta : Placed(m, reports[i].id))'
    <3> SUFFICES ASSUME NEW i \in DOMAIN reports', NEW m \in reports'[i].meta
                 PROVE  Placed(m, reports[i].id)'
      OBVIOUS
    <3>1. PICK x : x = reports[i].id OBVIOUS
    <3>2. Placed(m, x)' BY <1>1, <1>4, <3>1
    <3>3. x = reports'[i].id BY <1>4, <3>1
    <3> QED BY <3>2, <3>3
  <2>2. (\A id \in DOMAIN results : \A m \in results[id].answer.meta : Placed(m, id))'
    BY <1>2, <1>4
  <2>3. ASSUME NEW s \in Senders, sender'[s].pc = "return", NEW m \in sender'[s].meta
        PROVE  Placed(m, sender[s].id)'
    <3>1. PICK x : x = sender'[s].id OBVIOUS
    <3>2. Placed(m, x)' BY <1>3, <1>4, <2>3, <3>1
    <3> QED BY <3>1, <3>2
  <2> QED BY <2>1, <2>2, <2>3 DEF PlacedInv
<1>5. CASE UNCHANGED vars BY <1>4, <1>5 DEF vars
<1>6. CASE shutdown \/ backend_shutdown BY <1>4, <1>6 DEF shutdown, backend_shutdown
<1>7. ASSUME NEW s \in Senders, NEW r \in Records, send(s, r) PROVE PlacedInv'
  <2>1. sender'[s].pc = "check" /\ \A t \in Senders : t # s => sender'[t] = sender[t]
    BY <1>0, <1>7 DEF send, SendersInv
  <2> QED BY <1>4, <1>7, <2>1 DEF send
<1>8. ASSUME NEW s \in Senders, NEW at, Moved(s, at) PROVE PlacedInv'
  <2>1. sender'[s] = at /\ \A t \in Senders : t # s => sender'[t] = sender[t]
    BY <1>0, <1>8, OneSender DEF Moved
  <2>2. at.pc = "return" => at.meta = {} BY <1>8 DEF Moved
  <2> QED BY <1>4, <1>8, <2>1, <2>2 DEF Moved
<1>9. ASSUME NEW s \in Senders, NEW id, NEW p, NEW o, NEW kind,
             Stores(s, id, p, o, kind)
      PROVE  PlacedInv'
  <2>1. PICK n : n = heap[o][p].next_offset OBVIOUS
  <2>2. PICK m : m = RecordMetadata(sent[id].topic, p, n) OBVIOUS
  <2>3. m.topic = sent[id].topic /\ m.partition = p /\ m.offset = n
    BY <2>2 DEF RecordMetadata
  <2>4. BufHolds(heap'[o][p], n, id) BY <1>9, <2>1, StoresEffect
  <2>5. /\ topics' = topics /\ sent[id].topic \in DOMAIN topics
        /\ o = topics[sent[id].topic] /\ p \in Partitions
    BY <1>9 DEF Stores, HasTopic
  <2>6. Placed(m, id)' BY <2>3, <2>4, <2>5 DEF Placed
  <2>7. PICK at : at = [pc |-> "return", id |-> id, error |-> "", meta |-> {m}]
    OBVIOUS
  <2>8. sender' = [sender EXCEPT ![s] = at] BY <1>9, <2>1, <2>2, <2>7 DEF Stores
  <2>9. sender'[s] = at /\ \A t \in Senders : t # s => sender'[t] = sender[t]
    BY <1>0, <2>8, OneSender
  <2>10. at.id = id /\ at.meta = {m} BY <2>7
  <2>11. id = sender'[s].id /\ \A x \in sender'[s].meta : Placed(x, id)'
    BY <2>6, <2>9, <2>10
  <2>12. UNCHANGED << reports, results >> BY <1>9 DEF Stores
  <2> QED BY <1>4, <2>9, <2>11, <2>12
<1>10. ASSUME NEW s \in Senders, return(s) PROVE PlacedInv'
  <2>1. PICK id, y, meta : ReturnsWith(s, id, y, meta) BY <1>10, ReturnEffect
  <2>2. \A m \in meta : Placed(m, id)' BY <1>3, <2>1 DEF ReturnsWith
  <2>3. (\A x \in DOMAIN results : \A m \in results[x].answer.meta : Placed(m, x))'
    BY <1>2, <2>1, <2>2 DEF ReturnsWith
  <2>4. PICK entry : entry = [id |-> id, meta |-> meta] OBVIOUS
  <2>5. entry.id = id /\ entry.meta = meta BY <2>4
  <2>6. reports' = reports \/ reports' = Append(reports, entry)
    BY <2>1, <2>4 DEF ReturnsWith
  <2>7. PICK R : reports \in Seq(R) BY DEF ReportsInv
  <2>8. \A i \in DOMAIN reports' : \/ i \in DOMAIN reports /\ reports'[i] = reports[i]
                                   \/ reports'[i] = entry
    BY <2>6, <2>7
  <2>9. (\A i \in DOMAIN reports : \A m \in reports[i].meta : Placed(m, reports[i].id))'
    <3> SUFFICES ASSUME NEW i \in DOMAIN reports', NEW m \in reports'[i].meta
                 PROVE  Placed(m, reports[i].id)'
      OBVIOUS
    <3>1. PICK x : x = reports'[i].id OBVIOUS
    <3>2. Placed(m, x)' BY <1>1, <2>2, <2>5, <2>8, <3>1
    <3> QED BY <3>1, <3>2
  <2>10. sender'[s] = Idle /\ \A t \in Senders : t # s => sender'[t] = sender[t]
    BY <1>0, <2>1, OneSender DEF ReturnsWith
  <2>11. ASSUME NEW t \in Senders, sender'[t].pc = "return", NEW m \in sender'[t].meta
         PROVE  Placed(m, sender[t].id)'
    <3>1. t # s /\ sender'[t] = sender[t] BY <2>10, <2>11 DEF Idle
    <3>2. PICK x : x = sender[t].id OBVIOUS
    <3>3. Placed(m, x)' BY <1>3, <2>11, <3>1, <3>2
    <3>4. x = sender'[t].id BY <3>1, <3>2
    <3> QED BY <3>3, <3>4
  <2> QED BY <2>3, <2>9, <2>11 DEF PlacedInv
<1> QED BY <1>5, <1>6, <1>7, <1>8, <1>9, <1>10, Kinds

-----------------------------------------------------------------------------
(* A shutdown lets nothing through but what was past the last test.        *)

LEMMA LimitStep ==
    ASSUME Inv, Inv', LogsInv, LimitInv, [Next]_vars
    PROVE  LimitInv'
<1>0. SendersInv BY DEF Inv
<1>1. ASSUME UNCHANGED << topics, heap, sender, sent, shut, mayStore >> PROVE LimitInv'
  <2>1. StoredIds' = StoredIds BY <1>1 DEF StoredIds
  <2> QED BY <1>1, <2>1 DEF LimitInv, Rec
<1>2. CASE UNCHANGED vars BY <1>1, <1>2 DEF vars
<1>3. CASE shutdown
  <2>1. shut'.backend = shut.backend /\ "backend" \in DOMAIN shut'
    BY <1>3 DEF shutdown, LimitInv
  <2>2. UNCHANGED << topics, heap, sender, sent, mayStore >> BY <1>3 DEF shutdown
  <2>3. StoredIds' = StoredIds BY <2>2 DEF StoredIds
  <2> QED BY <2>1, <2>2, <2>3 DEF LimitInv, Rec
<1>4. CASE backend_shutdown
  <2>1. UNCHANGED << topics, heap, sender, sent >> /\ DOMAIN shut' = DOMAIN shut
    BY <1>4 DEF backend_shutdown
  <2>2. StoredIds' = StoredIds BY <2>1 DEF StoredIds
  <2>3. /\ StoredIds \subseteq mayStore'.records
        /\ \A s \in Senders : sender[s].pc = "append" =>
              sender[s].id \in mayStore'.records
    BY <1>4 DEF backend_shutdown
  <2>4. /\ DOMAIN topics \subseteq mayStore'.topics
        /\ \A s \in Senders : sender[s].pc = "create" =>
              Rec(s).topic \in mayStore'.topics
    BY <1>4 DEF backend_shutdown
  <2> QED BY <2>1, <2>2, <2>3, <2>4 DEF LimitInv, Rec
(* What is left to show of a step of sender s with shutdown behind it.     *)
<1>5. ASSUME NEW s \in Senders, NEW at, sender' = [sender EXCEPT ![s] = at],
             at.pc \notin {"append", "create"}, UNCHANGED << shut, mayStore >>,
             \A id \in DOMAIN sent : sent'[id] = sent[id],
             shut.backend => /\ StoredIds' \subseteq mayStore.records
                             /\ DOMAIN topics' \subseteq mayStore.topics
      PROVE  LimitInv'
  <2> SUFFICES ASSUME shut.backend
               PROVE  \A t \in Senders :
                /\ sender'[t].pc = "append" => sender'[t].id \in mayStore'.records
                /\ sender'[t].pc = "create" => Rec(t)'.topic \in mayStore'.topics
    BY <1>5 DEF LimitInv
  <2> SUFFICES ASSUME NEW t \in Senders, sender'[t].pc \in {"append", "create"}
               PROVE
                /\ sender'[t].pc = "append" => sender'[t].id \in mayStore'.records
                /\ sender'[t].pc = "create" => Rec(t)'.topic \in mayStore'.topics
    OBVIOUS
  <2>1. t # s /\ sender'[t] = sender[t] BY <1>0, <1>5, OneSender
  <2>2. sender[t].id \in DOMAIN sent BY <1>0, <2>1, AtForms
  <2>3. Rec(t)' = Rec(t) BY <1>5, <2>1, <2>2 DEF Rec
  <2> QED BY <1>5, <2>1, <2>3 DEF LimitInv
<1>6. ASSUME NEW s \in Senders, NEW r \in Records, send(s, r) PROVE LimitInv'
  <2>1. PICK at : at = [pc |-> "check", id |-> Len(sent) + 1] OBVIOUS
  <2>2. sender' = [sender EXCEPT ![s] = at] /\ at.pc = "check"
    BY <1>6, <2>1 DEF send
  <2>3. \A id \in DOMAIN sent : sent'[id] = sent[id]
    BY <1>6 DEF send, Inv
  <2>4. StoredIds' = StoredIds BY <1>6 DEF send, StoredIds
  <2> QED BY <1>5, <1>6, <2>2, <2>3, <2>4 DEF send, LimitInv
<1>7. ASSUME NEW s \in Senders, NEW at, Moved(s, at),
             \/ UNCHANGED << topics, heap >>
             \/ sender[s].pc = "create" /\ Creates(Rec(s).topic)
      PROVE  LimitInv'
  <2>1. StoredIds' \subseteq StoredIds
    BY <1>7, StoredGrows
  <2>2. shut.backend => DOMAIN topics' \subseteq mayStore.topics
    <3>1. PICK topic : topic = Rec(s).topic OBVIOUS
    <3>2. CASE UNCHANGED << topics, heap >> BY <3>2 DEF LimitInv
    <3>3. CASE sender[s].pc = "create" /\ Creates(topic)
      <4>1. DOMAIN topics' = DOMAIN topics \cup {topic} BY <3>3, CreatesEffect
      <4>2. shut.backend => topic \in mayStore.topics BY <3>1, <3>3 DEF LimitInv
      <4> QED BY <4>1, <4>2 DEF LimitInv
    <3> QED BY <1>7, <3>1, <3>2, <3>3
  <2>3. "backend" \in DOMAIN shut' BY <1>7 DEF Moved, LimitInv
  <2>4. CASE ~ shut.backend
    BY <1>7, <2>3, <2>4 DEF LimitInv, Moved
  <2>5. CASE shut.backend
    BY <1>5, <1>7, <2>1, <2>2, <2>5 DEF LimitInv, Moved
  <2> QED BY <2>4, <2>5
<1>8. ASSUME NEW s \in Senders, NEW id, NEW p, NEW o, NEW kind,
             Stores(s, id, p, o, kind)
      PROVE  LimitInv'
  <2>1. PICK at : /\ sender' = [sender EXCEPT ![s] = at]
                  /\ at.pc = "return"
    BY <1>8, StoresSender
  <2>2. \A v \in StoredIds' : v \in StoredIds \cup {id}
    BY <1>8, StoredGrows
  <2>3. shut.backend => id \in mayStore.records
    BY <1>8 DEF Stores, LimitInv
  <2>4. /\ UNCHANGED << topics, shut, sent, mayStore >>
    BY <1>8 DEF Stores
  <2> QED BY <1>5, <2>1, <2>2, <2>3, <2>4 DEF LimitInv
<1>9. ASSUME NEW s \in Senders, return(s) PROVE LimitInv'
  <2>1. PICK at : at = Idle OBVIOUS
  <2>2. sender' = [sender EXCEPT ![s] = at] /\ at.pc = "idle"
    BY <1>9, <2>1 DEF return, Idle
  <2>3. UNCHANGED << topics, heap, shut, sent, mayStore >> BY <1>9 DEF return
  <2>4. StoredIds' = StoredIds BY <2>3 DEF StoredIds
  <2> QED BY <1>5, <2>2, <2>3, <2>4 DEF LimitInv
<1> QED BY <1>2, <1>3, <1>4, <1>6, <1>7, <1>8, <1>9, Kinds

-----------------------------------------------------------------------------
(* Senders are told what happened.                                         *)

LEMMA InFlightStep ==
    ASSUME Inv, InFlightInv, [Next]_vars
    PROVE  InFlightInv'
<1>0. SendersInv BY DEF Inv
<1>1. ASSUME UNCHANGED << sender, results >> PROVE InFlightInv'
  BY <1>1 DEF InFlightInv
<1>2. CASE UNCHANGED vars BY <1>1, <1>2 DEF vars
<1>3. CASE shutdown \/ backend_shutdown BY <1>1, <1>3 DEF shutdown, backend_shutdown
<1>4. ASSUME NEW s \in Senders, NEW at, sender' = [sender EXCEPT ![s] = at],
             sender[s].pc # "idle", at.id = sender[s].id, UNCHANGED results
      PROVE  InFlightInv'
  <2>1. sender'[s] = at /\ \A t \in Senders : t # s => sender'[t] = sender[t]
    BY <1>0, <1>4, OneSender
  <2>2. \A t \in Senders : /\ sender'[t].pc # "idle" => sender[t].pc # "idle"
                           /\ sender'[t].id = sender[t].id
    BY <1>4, <2>1
  <2> QED BY <1>4, <2>2 DEF InFlightInv
<1>5. ASSUME NEW s \in Senders, NEW r \in Records, send(s, r) PROVE InFlightInv'
  <2>1. PICK id : id = Len(sent) + 1 OBVIOUS
  <2>2. PICK at : at = [pc |-> "check", id |-> id] OBVIOUS
  <2>3. sender' = [sender EXCEPT ![s] = at] /\ at.id = id /\ UNCHANGED results
    BY <1>5, <2>1, <2>2 DEF send
  <2>4. sender'[s] = at /\ \A t \in Senders : t # s => sender'[t] = sender[t]
    BY <1>0, <2>3, OneSender
  <2>5. id \notin DOMAIN sent BY <2>1 DEF Inv
  <2>6. id \notin DOMAIN results BY <2>5 DEF Inv, ResultsInv
  <2>7. \A t \in Senders : sender[t].pc # "idle" => sender[t].id # id
    BY <1>0, <2>5, AtForms
  <2> QED BY <2>3, <2>4, <2>6, <2>7 DEF InFlightInv
<1>6. ASSUME NEW s \in Senders, NEW at, Moved(s, at) PROVE InFlightInv'
  BY <1>4, <1>6 DEF Moved
<1>7. ASSUME NEW s \in Senders, NEW id, NEW p, NEW o, NEW kind,
             Stores(s, id, p, o, kind)
      PROVE  InFlightInv'
  <2>1. PICK at : sender' = [sender EXCEPT ![s] = at] /\ at.id = id
    BY <1>7, StoresSender
  <2> QED BY <1>4, <1>7, <2>1 DEF Stores
<1>8. ASSUME NEW s \in Senders, return(s) PROVE InFlightInv'
  <2>1. PICK id, y, meta : ReturnsWith(s, id, y, meta) BY <1>8, ReturnEffect
  <2>2. sender'[s] = Idle /\ \A t \in Senders : t # s => sender'[t] = sender[t]
    BY <1>0, <2>1, OneSender DEF ReturnsWith
  <2>3. \A t \in Senders : sender'[t].pc # "idle" => t # s /\ sender'[t] = sender[t]
    BY <2>2 DEF Idle
  <2>4. DOMAIN results' = DOMAIN results \cup {id} /\ id = sender[s].id
        /\ sender[s].pc # "idle"
    BY <2>1 DEF ReturnsWith
  <2> QED BY <2>3, <2>4 DEF InFlightInv
<1> QED BY <1>2, <1>3, <1>5, <1>6, <1>7, <1>8, Kinds

(* Whatever is stored was, or is about to be, acknowledged.                *)
Said(id) ==
    \/ id \in DOMAIN results /\ results[id].answer.ok
    \/ \E s \in Senders : /\ sender[s].pc = "return"
                          /\ sender[s].id = id
                          /\ sender[s].meta # {}

LEMMA StoredStep ==
    ASSUME Inv, Inv', LogsInv, InFlightInv, StoredInv, [Next]_vars
    PROVE  StoredInv'
<1>0. SendersInv /\ \A id \in StoredIds : Said(id)
  BY DEF Inv, StoredInv, Said
<1>1. ASSUME \A id : Said(id) => Said(id)', StoredIds' \subseteq StoredIds
      PROVE  StoredInv'
  BY <1>0, <1>1 DEF StoredInv, Said
<1>2. ASSUME UNCHANGED << heap, sender, results >> PROVE StoredInv'
  <2>1. StoredIds' = StoredIds BY <1>2 DEF StoredIds
  <2> QED BY <1>2, <2>1 DEF StoredInv
<1>3. CASE UNCHANGED vars BY <1>2, <1>3 DEF vars
<1>4. CASE shutdown \/ backend_shutdown BY <1>2, <1>4 DEF shutdown, backend_shutdown
<1>5. ASSUME NEW s \in Senders, sender[s].pc # "return", UNCHANGED results,
             \A t \in Senders : t # s => sender'[t] = sender[t],
             NEW id, Said(id)
      PROVE  Said(id)'
  BY <1>5 DEF Said
<1>6. ASSUME NEW s \in Senders, NEW r \in Records, send(s, r) PROVE StoredInv'
  <2>1. /\ sender[s].pc # "return"
        /\ \A t \in Senders : t # s => sender'[t] = sender[t]
    BY <1>0, <1>6 DEF send, Idle, SendersInv
  <2>2. StoredIds' = StoredIds BY <1>6 DEF send, StoredIds
  <2> QED BY <1>1, <1>5, <1>6, <2>1, <2>2 DEF send
<1>7. ASSUME NEW s \in Senders, NEW at, Moved(s, at),
             UNCHANGED << topics, heap >> \/ \E topic : Creates(topic)
      PROVE  StoredInv'
  <2>1. StoredIds' \subseteq StoredIds BY <1>7, StoredGrows
  <2>2. \A t \in Senders : t # s => sender'[t] = sender[t]
    BY <1>0, <1>7, OneSender DEF Moved
  <2> QED BY <1>1, <1>5, <1>7, <2>1, <2>2 DEF Moved
<1>8. ASSUME NEW s \in Senders, NEW id, NEW p, NEW o, NEW kind,
             Stores(s, id, p, o, kind)
      PROVE  StoredInv'
  <2>1. \A v \in StoredIds' : v \in StoredIds \cup {id}
    BY <1>8, StoredGrows
  <2>2. PICK at : /\ sender' = [sender EXCEPT ![s] = at]
                  /\ at.pc = "return" /\ at.id = id /\ at.meta # {}
    BY <1>8, StoresSender
  <2>3. sender'[s] = at /\ \A t \in Senders : t # s => sender'[t] = sender[t]
    BY <1>0, <2>2, OneSender
  <2>4. Said(id)' BY <2>2, <2>3 DEF Said
  <2>5. \A x : Said(x) => Said(x)' BY <1>5, <1>8, <2>3 DEF Stores
  <2>6. \A v \in StoredIds' : Said(v)' BY <1>0, <2>1, <2>4, <2>5
  <2> QED BY <2>6 DEF StoredInv, Said
<1>9. ASSUME NEW s \in Senders, return(s) PROVE StoredInv'
  <2>1. PICK id, y, meta : ReturnsWith(s, id, y, meta) BY <1>9, ReturnEffect
  <2>2. StoredIds' = StoredIds BY <1>9 DEF return, StoredIds
  <2>3. \A t \in Senders : t # s => sender'[t] = sender[t]
    BY <1>0, <2>1, OneSender DEF ReturnsWith
  <2>4. id \notin DOMAIN results BY <2>1 DEF ReturnsWith, InFlightInv
  <2>5. ASSUME NEW x, Said(x) PROVE Said(x)'
    <3>1. CASE x \in DOMAIN results /\ results[x].answer.ok
      <4>1. x # id /\ results'[x] = results[x] /\ x \in DOMAIN results'
        BY <2>1, <2>4, <3>1 DEF ReturnsWith
      <4> QED BY <3>1, <4>1 DEF Said
    <3>2. ASSUME NEW t \in Senders, sender[t].pc = "return", sender[t].id = x,
                 sender[t].meta # {}
          PROVE  Said(x)'
      <4>1. CASE t # s
        <5>1. sender'[t] = sender[t] BY <2>3, <4>1
        <5> QED BY <3>2, <5>1 DEF Said
      <4>2. CASE t = s
        <5>1. x = id /\ id \in DOMAIN results' /\ results'[id] = y /\ y.answer.ok
          BY <2>1, <3>2, <4>2 DEF ReturnsWith
        <5> QED BY <5>1 DEF Said
      <4> QED BY <4>1, <4>2
    <3> QED BY <2>5, <3>1, <3>2 DEF Said
  <2> QED BY <1>1, <2>2, <2>5
<1> QED BY <1>3, <1>4, <1>6, <1>7, <1>8, <1>9, Kinds
-----------------------------------------------------------------------------
(* The reports.                                                            *)

(* What ReportsInv says of one result.                                     *)
ReportedRight(x) ==
    /\ IF results[x].error = "panic" \/ Typed(results[x].by)
       THEN ReportsOf(x) = {} ELSE Cardinality(ReportsOf(x)) = 1
    /\ \A i \in ReportsOf(x) : results[x].answer.ok <=> reports[i].meta # {}

LEMMA ReportsStep ==
    ASSUME Inv, InFlightInv, ReportsInv, [Next]_vars
    PROVE  ReportsInv'
<1>1. ASSUME UNCHANGED << results, reports >> PROVE ReportsInv'
  BY <1>1 DEF ReportsInv, ReportsOf
<1>2. ASSUME NEW s \in Senders, return(s) PROVE ReportsInv'
  <2>1. PICK id, y, meta : ReturnsWith(s, id, y, meta) BY <1>2, ReturnEffect
  <2>2. id \notin DOMAIN results BY <2>1 DEF ReturnsWith, InFlightInv
  <2>3. PICK R : reports \in Seq(R) BY DEF ReportsInv
  <2>4. ReportsOf(id) = {} BY <2>2 DEF ReportsInv, ReportsOf
  <2>5. PICK entry : entry = [id |-> id, meta |-> meta] OBVIOUS
  <2>6. entry.id = id /\ entry.meta = meta BY <2>5
  <2>7. PICK n : n = Len(reports) + 1 OBVIOUS
  <2>8. PICK quiet \in BOOLEAN : quiet <=> Typed(s) \/ sender[s].error = "panic"
    OBVIOUS
  <2>9. /\ quiet => reports' = reports
        /\ ~ quiet => reports' = Append(reports, entry)
    BY <2>1, <2>5, <2>8 DEF ReturnsWith
  <2>10. \E S : reports' \in Seq(S)
    <3>1. CASE quiet BY <2>3, <2>9, <3>1
    <3>2. CASE ~ quiet
      <4>1. reports' \in Seq(R \cup {entry}) BY <2>3, <2>9, <3>2
      <4> QED BY <4>1
    <3> QED BY <3>1, <3>2
  <2>11. /\ \A i \in DOMAIN reports : i \in DOMAIN reports' /\ reports'[i] = reports[i]
         /\ quiet => DOMAIN reports' = DOMAIN reports
         /\ ~ quiet => DOMAIN reports' = DOMAIN reports \cup {n} /\ reports'[n] = entry
    <3>1. CASE quiet BY <2>9, <3>1
    <3>2. CASE ~ quiet
      <4>1. reports' = Append(reports, entry) BY <2>9, <3>2
      <4>2. /\ DOMAIN reports' = DOMAIN reports \cup {n}
            /\ reports'[n] = entry
            /\ \A i \in DOMAIN reports : reports'[i] = reports[i]
        BY <2>3, <2>7, <4>1
      <4> QED BY <3>2, <4>2
    <3> QED BY <3>1, <3>2
  <2>12. DOMAIN results' = DOMAIN results \cup {id} /\ results'[id] = y
         /\ \A x \in DOMAIN results : results'[x] = results[x]
    BY <2>1, <2>2 DEF ReturnsWith
  <2>13. (\A i \in DOMAIN reports : reports[i].id \in DOMAIN results)'
    BY <2>6, <2>11, <2>12 DEF ReportsInv
  <2>14. ASSUME NEW x \in DOMAIN results PROVE ReportedRight(x)'
    <3>1. x # id /\ results'[x] = results[x] BY <2>2, <2>12
    <3>2. ReportsOf(x)' = ReportsOf(x) BY <2>6, <2>11, <3>1 DEF ReportsOf
    <3>3. \A i \in ReportsOf(x) : reports'[i] = reports[i] BY <2>11 DEF ReportsOf
    <3> QED BY <3>1, <3>2, <3>3 DEF ReportsInv, ReportedRight
  <2>15. ReportedRight(id)'
    <3>1. y.by = s /\ y.error = sender[s].error /\ (y.answer.ok <=> meta # {})
      BY <2>1 DEF ReturnsWith
    <3>2. CASE quiet
      <4>1. ReportsOf(id)' = {} BY <2>4, <2>11, <3>2 DEF ReportsOf
      <4>2. results'[id].error = "panic" \/ Typed(results'[id].by)
        BY <2>8, <2>12, <3>1, <3>2
      <4> QED BY <4>1, <4>2 DEF ReportedRight, Typed
    <3>3. CASE ~ quiet
      <4>1. ReportsOf(id)' = {n} BY <2>4, <2>6, <2>11, <3>3 DEF ReportsOf
      <4>2. Cardinality({n}) = 1 BY FS_Singleton
      <4>3. ~ (results'[id].error = "panic" \/ Typed(results'[id].by))
        BY <2>8, <2>12, <3>1, <3>3
      <4>4. results'[id].answer.ok <=> reports'[n].meta # {}
        BY <2>6, <2>11, <2>12, <3>1, <3>3
      <4> QED BY <4>1, <4>2, <4>3, <4>4 DEF ReportedRight, Typed
    <3> QED BY <3>2, <3>3
  <2>16. (\A x \in DOMAIN results : ReportedRight(x))' BY <2>12, <2>14, <2>15
  <2> QED BY <2>10, <2>13, <2>16 DEF ReportsInv, ReportedRight
<1>3. CASE UNCHANGED vars BY <1>1, <1>3 DEF vars
<1>4. CASE Next
  <2>1. UNCHANGED << results, reports >> \/ \E s \in Senders : return(s)
    BY <1>4, Kinds DEF send, shutdown, backend_shutdown, Moved, Stores
  <2> QED BY <1>1, <1>2, <2>1
<1> QED BY <1>3, <1>4

-----------------------------------------------------------------------------
(* All of it together.                                                     *)

RecordInv ==
    /\ Inv
    /\ LogsInv
    /\ PlacedInv
    /\ LimitInv
    /\ InFlightInv
    /\ StoredInv
    /\ ReportsInv

LEMMA InitRecordInv == Init => RecordInv
<1> SUFFICES ASSUME Init PROVE RecordInv OBVIOUS
<1>1. Inv BY InitInv
<1>2. /\ DOMAIN heap = {} /\ DOMAIN results = {} /\ DOMAIN reports = {}
      /\ reports \in Seq({})
  BY DEF Init
<1>3. \A s \in Senders : sender[s].pc = "idle" BY DEF Init, Idle
<1>4. "backend" \in DOMAIN shut /\ ~ shut.backend BY DEF Init
<1>5. StoredIds = {} BY <1>2 DEF StoredIds
<1>6. LogsInv BY <1>2 DEF LogsInv
<1>7. PlacedInv BY <1>2, <1>3 DEF PlacedInv
<1>8. LimitInv BY <1>4 DEF LimitInv
<1>9. InFlightInv BY <1>3 DEF InFlightInv
<1>10. StoredInv BY <1>5 DEF StoredInv
<1>11. ReportsInv BY <1>2 DEF ReportsInv
<1> QED BY <1>1, <1>6, <1>7, <1>8, <1>9, <1>10, <1>11 DEF RecordInv

LEMMA BrokerRecordInv == Spec => []RecordInv
<1>1. ASSUME RecordInv, Inv', [Next]_vars PROVE RecordInv'
  <2>1. /\ Inv /\ LogsInv /\ PlacedInv /\ LimitInv /\ InFlightInv
        /\ StoredInv /\ ReportsInv
    BY <1>1 DEF RecordInv
  <2>2. LogsInv' BY <1>1, <2>1, LogsStep
  <2>3. PlacedInv' BY <1>1, <2>1, PlacedStep
  <2>4. LimitInv' BY <1>1, <2>1, LimitStep
  <2>5. InFlightInv' BY <1>1, <2>1, InFlightStep
  <2>6. StoredInv' BY <1>1, <2>1, StoredStep
  <2>7. ReportsInv' BY <1>1, <2>1, ReportsStep
  <2> QED BY <1>1, <2>2, <2>3, <2>4, <2>5, <2>6, <2>7 DEF RecordInv
<1> QED BY <1>1, InitRecordInv, BrokerInv, PTL DEF Spec

-----------------------------------------------------------------------------

(* Whatever is evicted, whoever creates the topic and whoever else         *)
(* appends: at the offset Broker::produce reported for a record, the topic *)
(* in the map holds that record for as long as it is retained.             *)
THEOREM BrokerAcknowledged == Spec => []AcknowledgedIsStored
<1>1. ASSUME RecordInv PROVE AcknowledgedIsStored
  <2>1. PlacedInv BY <1>1 DEF RecordInv
  <2> SUFFICES ASSUME NEW a \in Acknowledged, NEW m \in a[2]
               PROVE  BufHolds(heap[topics[m.topic]][m.partition], m.offset, a[1])
    BY DEF AcknowledgedIsStored, BufHolds
  <2>2. CASE \E i \in DOMAIN reports : a = << reports[i].id, reports[i].meta >>
    <3>1. PICK i \in DOMAIN reports : a = << reports[i].id, reports[i].meta >>
      BY <2>2
    <3>2. a[1] = reports[i].id /\ a[2] = reports[i].meta BY <3>1
    <3>3. Placed(m, reports[i].id) BY <2>1, <3>2 DEF PlacedInv
    <3> QED BY <3>2, <3>3 DEF Placed
  <2>3. CASE \E id \in DOMAIN results : a = << id, results[id].answer.meta >>
    <3>1. PICK id \in DOMAIN results : a = << id, results[id].answer.meta >>
      BY <2>3
    <3>2. a[1] = id /\ a[2] = results[id].answer.meta BY <3>1
    <3>3. Placed(m, id) BY <2>1, <3>2 DEF PlacedInv
    <3> QED BY <3>2, <3>3 DEF Placed
  <2> QED BY <2>2, <2>3 DEF Acknowledged
<1> QED BY <1>1, BrokerRecordInv, PTL

(* No producer's send fails for a record that a log holds, and the         *)
(* delivery callback is made once with the same outcome, or not at all for *)
(* a typed producer and after a panic of the partitioner.                  *)
THEOREM BrokerToldTheTruth == Spec => []ToldTheTruth
<1>1. ASSUME RecordInv PROVE ToldTheTruth
  <2> SUFFICES ASSUME NEW id \in DOMAIN results
               PROVE  /\ id \in StoredIds => results[id].answer.ok
                      /\ ReportedRight(id)
    BY DEF ToldTheTruth, ReportedRight, ReportsOf
  <2>1. ReportedRight(id) BY <1>1 DEF RecordInv, ReportsInv, ReportedRight
  <2>2. id \in StoredIds => results[id].answer.ok
    BY <1>1 DEF RecordInv, StoredInv, InFlightInv
  <2> QED BY <2>1, <2>2
<1> QED BY <1>1, BrokerRecordInv, PTL

(* However many sends are under way when Broker::shutdown has set the      *)
(* backend's flag: only those past the backend's last test still store a   *)
(* record or create a topic.                                               *)
THEOREM BrokerShutdownStops == Spec => []ShutdownStops
<1>1. RecordInv => ShutdownStops BY DEF RecordInv, LimitInv, ShutdownStops
<1> QED BY <1>1, BrokerRecordInv, PTL
=============================================================================
