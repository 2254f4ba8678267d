--------------------------- MODULE PartitionProofs ---------------------------
(***************************************************************************)
(* Proofs about Partition for every configuration, every set of values and *)
(* every bound: type correctness, the correctness of reads, the exactness  *)
(* of retention and the refinement of RetainedLog.                         *)
(***************************************************************************)
EXTENDS Partition, PartitionLogProofs

(* Sequence "log" is the tail of sequence "h".                             *)
IsTail(log, h) ==
    /\ Len(log) <= Len(h)
    /\ \A i \in 1..Len(log) : log[i] = h[Len(h) - Len(log) + i]

-----------------------------------------------------------------------------
(* What evict_buffer leaves of a log that is the tail of h: a tail of h    *)
(* such that every message dropped was evictable when it was at the front  *)
(* and the one left at the front is not.                                   *)
LEMMA EvictBufferSweeps ==
  ASSUME NEW policies, NEW now,
         NEW h \in Seq(Message), NEW log \in Seq(Message), IsTail(log, h)
  PROVE  LET r == evict_buffer(policies, log, now)
         IN  /\ r \in Seq(Message)
             /\ Len(r) <= Len(log)
             /\ IsTail(r, h)
             /\ \A i \in (Len(h) - Len(log) + 1)..(Len(h) - Len(r)) :
                   AnyPolicyEvicts(policies, Len(h) - i + 1, h[i], now)
             /\ Len(r) > 0 =>
                   ~ AnyPolicyEvicts(policies, Len(r),
                                     h[Len(h) - Len(r) + 1], now)
<1> DEFINE k == CHOOSE k \in 0..Len(log) : EvictsExactly(policies, log, now, k)
           r == SubSeq(log, k + 1, Len(log))
<1>0. Len(log) \in Nat /\ Len(h) \in Nat /\ Len(log) <= Len(h)
  BY LenProperties DEF IsTail
<1>1. k \in 0..Len(log) /\ EvictsExactly(policies, log, now, k)
  BY EvictionStops
<1>2. evict_buffer(policies, log, now) = r
  BY DEF evict_buffer
<1> HIDE DEF k
<1>3. \A i \in (k + 1)..Len(log) : log[i] \in Message
  BY <1>0, <1>1, ElementOfSeq
<1>4. /\ r \in Seq(Message)
      /\ Len(r) = Len(log) - k
      /\ \A i \in 1..(Len(log) - k) : r[i] = log[k + i]
  BY <1>0, <1>1, <1>3, SubSeqProperties
<1> HIDE DEF r
<1>5. IsTail(r, h)
  BY <1>0, <1>1, <1>4 DEF IsTail
<1>6. ASSUME NEW i \in (Len(h) - Len(log) + 1)..(Len(h) - Len(r))
      PROVE  AnyPolicyEvicts(policies, Len(h) - i + 1, h[i], now)
  <2> DEFINE j == i - (Len(h) - Len(log)) - 1
  <2>1. j \in 0..(k - 1)
    BY <1>0, <1>1, <1>4
  <2>2. AnyPolicyEvicts(policies, Len(log) - j, log[j + 1], now)
    BY <1>1, <2>1 DEF EvictsExactly
  <2>3. Len(log) - j = Len(h) - i + 1
    BY <1>0, <1>1, <1>4
  <2>4. j + 1 \in 1..Len(log) /\ Len(h) - Len(log) + (j + 1) = i
    BY <1>0, <1>1, <1>4
  <2>5. log[j + 1] = h[i]
    <3> HIDE DEF j
    <3> QED BY <2>4 DEF IsTail
  <2> HIDE DEF j
  <2> QED BY <2>2, <2>3, <2>5
<1>7. ASSUME Len(r) > 0
      PROVE  ~ AnyPolicyEvicts(policies, Len(r), h[Len(h) - Len(r) + 1], now)
  <2>1. k < Len(log)
    BY <1>0, <1>1, <1>4, <1>7
  <2>2. ~ AnyPolicyEvicts(policies, Len(log) - k, log[k + 1], now)
    BY <1>1, <2>1 DEF EvictsExactly
  <2>3. k + 1 \in 1..Len(log) /\ Len(h) - Len(log) + (k + 1) = Len(h) - Len(r) + 1
    BY <1>0, <1>1, <1>4, <2>1
  <2>4. log[k + 1] = h[Len(h) - Len(r) + 1]
    BY <2>3 DEF IsTail
  <2> QED BY <1>4, <2>2, <2>4
<1> QED BY <1>0, <1>1, <1>2, <1>4, <1>5, <1>6, <1>7

(* Pushing the same message on both keeps a tail a tail.                   *)
LEMMA AppendTail ==
  ASSUME NEW h \in Seq(Message), NEW log \in Seq(Message), IsTail(log, h),
         NEW msg \in Message
  PROVE  IsTail(Append(log, msg), Append(h, msg))
<1> DEFINE full == Append(log, msg)
           g    == Append(h, msg)
<1>1. Len(h) \in Nat /\ Len(log) \in Nat /\ Len(log) <= Len(h)
  BY LenProperties DEF IsTail
<1>2. Len(full) = Len(log) + 1 /\ Len(g) = Len(h) + 1
  BY AppendProperties
<1>3. ASSUME NEW i \in 1..Len(log) PROVE full[i] = g[Len(h) - Len(log) + i]
  <2>1. Len(h) - Len(log) + i \in 1..Len(h)
    BY <1>1
  <2>2. full[i] = log[i] /\ log[i] = h[Len(h) - Len(log) + i]
    BY AppendProperties DEF IsTail
  <2> QED BY <2>1, <2>2, AppendProperties
<1>4. full[Len(log) + 1] = msg /\ g[Len(h) + 1] = msg
  BY AppendProperties
<1> HIDE DEF full, g
<1>5. ASSUME NEW i \in 1..Len(full)
      PROVE  full[i] = g[Len(g) - Len(full) + i]
  <2>1. Len(g) - Len(full) + i = Len(h) - Len(log) + i
    BY <1>1, <1>2
  <2>2. CASE i = Len(log) + 1
    <3>1. Len(h) - Len(log) + i = Len(h) + 1
      BY <1>1, <2>2
    <3> QED BY <1>4, <2>1, <2>2, <3>1
  <2>3. CASE i \in 1..Len(log)
    BY <1>3, <2>1, <2>3
  <2> QED BY <1>1, <1>2, <2>2, <2>3
<1>6. IsTail(full, g)
  BY <1>1, <1>2, <1>5 DEF IsTail
<1> QED BY <1>6 DEF full, g

(* The capacity check keeps a tail and drops at most the oldest message.   *)
LEMMA PopAtCapacityTail ==
  ASSUME NEW max_capacity \in Nat,
         NEW h \in Seq(Message), NEW log \in Seq(Message), IsTail(log, h)
  PROVE  LET r == PopAtCapacity(max_capacity, log)
         IN  /\ r \in Seq(Message)
             /\ IsTail(r, h)
             /\ Len(r) = IF max_capacity > 0 /\ Len(log) >= max_capacity
                         THEN Len(log) - 1 ELSE Len(log)
<1>0. Len(log) \in Nat /\ Len(h) \in Nat
  BY LenProperties
<1>1. CASE max_capacity > 0 /\ Len(log) >= max_capacity
  <2>1. log # << >>
    BY <1>0, <1>1, EmptySeq
  <2>2. /\ Tail(log) \in Seq(Message)
        /\ Len(Tail(log)) = Len(log) - 1
        /\ \A i \in 1..Len(Tail(log)) : Tail(log)[i] = log[i + 1]
    BY <2>1, HeadTailProperties
  <2>3. IsTail(Tail(log), h)
    BY <1>0, <2>2 DEF IsTail
  <2> QED BY <1>1, <2>2, <2>3 DEF PopAtCapacity
<1>2. CASE ~(max_capacity > 0 /\ Len(log) >= max_capacity)
  BY <1>2 DEF PopAtCapacity
<1> QED BY <1>1, <1>2

-----------------------------------------------------------------------------
(* Whether RetentionExact says the message at an offset of h is kept.      *)
Kept(b, h, now, offset) ==
    /\ \A limit \in Limits(b) : offset >= Len(h) - limit
    /\ ~ ExpiredAt(b, h[offset + 1], now)

(* Stamps of h never decrease and none is later than now.                  *)
Stamped(h, now) ==
    /\ \A i \in 1..Len(h) : h[i].created_at <= now
    /\ \A i, j \in 1..Len(h) : i <= j => h[i].created_at <= h[j].created_at

LEMMA StampsAreNat ==
  ASSUME NEW h \in Seq(Message)
  PROVE  \A i \in 1..Len(h) : h[i].created_at \in Nat
<1>1. \A i \in 1..Len(h) : h[i] \in Message
  BY ElementOfSeq
<1> QED BY <1>1 DEF Message

LEMMA LimitsMembers ==
  ASSUME NEW b, b.policies \subseteq Policy, b.max_capacity \in Nat
  PROVE  /\ Limits(b) \subseteq Nat
         /\ \A p \in b.policies : p.policy = "capacity" => p.limit \in Limits(b)
         /\ b.max_capacity > 0 => b.max_capacity - 1 \in Limits(b)
         /\ \A limit \in Limits(b) :
               \/ \E p \in b.policies : p.policy = "capacity" /\ p.limit = limit
               \/ b.max_capacity > 0 /\ limit = b.max_capacity - 1
BY DEF Limits, Policy

(* The heart of the retention argument.  If what is left of h after the    *)
(* push and the capacity check has already lost only messages that are not *)
(* to be kept, the eviction loop loses exactly the others of that kind.    *)
LEMMA SweepExact ==
  ASSUME NEW b, b.policies \subseteq Policy, b.max_capacity \in Nat,
         NEW now \in Nat, NEW h \in Seq(Message), Stamped(h, now),
         NEW log \in Seq(Message), IsTail(log, h),
         b.max_capacity > 0 => Len(log) <= b.max_capacity - 1,
         \A offset \in 0..(Len(h) - Len(log) - 1) : ~ Kept(b, h, now, offset)
  PROVE  LET r == evict_buffer(b.policies, log, now)
         IN  \A offset \in 0..(Len(h) - 1) :
                offset >= Len(h) - Len(r) <=> Kept(b, h, now, offset)
<1> DEFINE r == evict_buffer(b.policies, log, now)
<1>0. Len(log) \in Nat /\ Len(h) \in Nat /\ Len(log) <= Len(h)
  BY LenProperties DEF IsTail
<1>1. /\ r \in Seq(Message)
      /\ Len(r) <= Len(log)
      /\ \A i \in (Len(h) - Len(log) + 1)..(Len(h) - Len(r)) :
            AnyPolicyEvicts(b.policies, Len(h) - i + 1, h[i], now)
      /\ Len(r) > 0 => ~ AnyPolicyEvicts(b.policies, Len(r),
                                         h[Len(h) - Len(r) + 1], now)
  BY EvictBufferSweeps
<1> HIDE DEF r
<1>2. Len(r) \in Nat
  BY <1>1, LenProperties
<1>3. \A i \in 1..Len(h) : h[i] \in Message
  BY ElementOfSeq
<1>4. ASSUME NEW offset \in 0..(Len(h) - 1), offset >= Len(h) - Len(r)
      PROVE  Kept(b, h, now, offset)
  <2> DEFINE front == h[Len(h) - Len(r) + 1]
  <2>1. Len(r) > 0 /\ Len(h) - Len(r) + 1 \in 1..Len(h)
    BY <1>0, <1>1, <1>2, <1>4
  <2>2. ~ AnyPolicyEvicts(b.policies, Len(r), front, now)
    BY <1>1, <2>1
  <2>3. ASSUME NEW limit \in Limits(b) PROVE offset >= Len(h) - limit
    <3>1. CASE \E p \in b.policies : p.policy = "capacity" /\ p.limit = limit
      <4>1. limit \in Nat
        BY LimitsMembers
      <4>2. ~ (Len(r) > limit)
        BY <2>2, <3>1 DEF AnyPolicyEvicts, should_evict
      <4> QED BY <1>0, <1>2, <1>4, <4>1, <4>2
    <3>2. CASE b.max_capacity > 0 /\ limit = b.max_capacity - 1
      BY <1>0, <1>1, <1>2, <1>4, <3>2
    <3> QED BY <3>1, <3>2, LimitsMembers
  <2>4. front.created_at <= h[offset + 1].created_at
    BY <1>0, <1>2, <1>4, <2>1 DEF Stamped
  <2>5. front.created_at \in Nat /\ h[offset + 1].created_at \in Nat
    <3>1. front \in Message /\ h[offset + 1] \in Message
      BY <1>0, <1>3, <2>1
    <3> HIDE DEF front
    <3> QED BY <3>1 DEF Message
  <2>6. ~ ExpiredAt(b, h[offset + 1], now)
    <3> SUFFICES ASSUME NEW p \in b.policies, p.policy = "time",
                        now - h[offset + 1].created_at > p.limit
                 PROVE  FALSE
      BY DEF ExpiredAt
    <3>1. p.limit \in Nat
      BY DEF Policy
    <3>2. now - front.created_at > p.limit
      <4> HIDE DEF front
      <4> QED BY <2>4, <2>5, <3>1
    <3> HIDE DEF front
    <3> QED BY <2>2, <3>2 DEF AnyPolicyEvicts, should_evict
  <2> QED BY <2>3, <2>6 DEF Kept
<1>5. ASSUME NEW offset \in 0..(Len(h) - 1), offset < Len(h) - Len(r)
      PROVE  ~ Kept(b, h, now, offset)
  <2>1. CASE offset < Len(h) - Len(log)
    BY <1>0, <2>1
  <2>2. CASE offset >= Len(h) - Len(log)
    <3>1. AnyPolicyEvicts(b.policies, Len(h) - (offset + 1) + 1, h[offset + 1], now)
      BY <1>0, <1>1, <1>2, <1>5, <2>2
    <3>2. PICK p \in b.policies :
             should_evict(p, Len(h) - (offset + 1) + 1, h[offset + 1], now)
      BY <3>1 DEF AnyPolicyEvicts
    <3>3. CASE p.policy = "time" /\ now - h[offset + 1].created_at > p.limit
      BY <3>3 DEF Kept, ExpiredAt
    <3>4. CASE p.policy = "capacity" /\ Len(h) - (offset + 1) + 1 > p.limit
      <4>1. p.limit \in Limits(b) /\ p.limit \in Nat
        BY <3>4, LimitsMembers
      <4>2. ~ (offset >= Len(h) - p.limit)
        BY <1>0, <3>4, <4>1
      <4> QED BY <4>1, <4>2 DEF Kept
    <3> QED BY <3>2, <3>3, <3>4 DEF should_evict
  <2> QED BY <1>0, <2>1, <2>2
<1>6. ASSUME NEW offset \in 0..(Len(h) - 1)
      PROVE  offset >= Len(h) - Len(r) <=> Kept(b, h, now, offset)
  BY <1>0, <1>2, <1>4, <1>5
<1> QED BY <1>6 DEF r

-----------------------------------------------------------------------------
(* The inductive invariant.  RetentionExact needs LogIsSuffix to know      *)
(* which message sits at which offset, and StampsOrdered to know that a    *)
(* loop that stops at an unexpired message has no expired one behind it.   *)
IndInv == TypeOK /\ LogIsSuffix /\ StampsOrdered /\ RetentionExact

LEMMA IndInvUnfolded ==
  ASSUME IndInv
  PROVE  /\ Len(history) \in Nat /\ Len(buf.log) \in Nat
         /\ IsTail(buf.log, history)
         /\ Stamped(history, swept)
         /\ OldestRetained(buf) = Len(history) - Len(buf.log)
         /\ \A offset \in 0..(Len(history) - 1) :
               offset >= Len(history) - Len(buf.log)
                  <=> Kept(buf, history, swept, offset)
         /\ buf.max_capacity > 0 => Len(buf.log) <= buf.max_capacity - 1
<1> USE DEF IndInv, TypeOK
<1>1. Len(history) \in Nat /\ Len(buf.log) \in Nat
  BY LenProperties
<1>2. OldestRetained(buf) = Len(history) - Len(buf.log)
  BY <1>1 DEF LogIsSuffix, OldestRetained
<1>3. IsTail(buf.log, history)
  BY <1>1, <1>2 DEF LogIsSuffix, IsTail
<1>4. Stamped(history, swept)
  BY DEF StampsOrdered, Stamped
<1>5. \A offset \in 0..(Len(history) - 1) :
         offset >= Len(history) - Len(buf.log)
            <=> Kept(buf, history, swept, offset)
  BY <1>1, <1>2 DEF RetentionExact, Kept
<1>6. ASSUME buf.max_capacity > 0, Len(buf.log) > 0
      PROVE  Len(buf.log) <= buf.max_capacity - 1
  <2> DEFINE offset == Len(history) - Len(buf.log)
  <2>1. offset \in 0..(Len(history) - 1)
    BY <1>1, <1>3, <1>6 DEF IsTail
  <2>2. Kept(buf, history, swept, offset)
    BY <1>5, <2>1
  <2>3. buf.max_capacity - 1 \in Limits(buf)
    BY <1>6, LimitsMembers
  <2> QED BY <1>1, <2>2, <2>3 DEF Kept
<1>7. buf.max_capacity > 0 => Len(buf.log) <= buf.max_capacity - 1
  BY <1>1, <1>6
<1> QED BY <1>1, <1>2, <1>3, <1>4, <1>5, <1>7

(* A message that is not kept is not kept later either, nor when the       *)
(* history has grown.                                                      *)
LEMMA NotKeptForever ==
  ASSUME NEW b, b.policies \subseteq Policy, b.max_capacity \in Nat,
         NEW h \in Seq(Message), NEW g \in Seq(Message),
         Len(h) <= Len(g), \A i \in 1..Len(h) : g[i] = h[i],
         NEW now \in Nat, NEW later \in Nat, now <= later,
         NEW offset \in 0..(Len(h) - 1), ~ Kept(b, h, now, offset)
  PROVE  ~ Kept(b, g, later, offset)
<1>0. /\ Len(h) \in Nat /\ Len(g) \in Nat /\ offset + 1 \in 1..Len(h)
      /\ h[offset + 1] \in Message /\ g[offset + 1] = h[offset + 1]
  BY LenProperties, ElementOfSeq
<1>1. CASE \E limit \in Limits(b) : ~ (offset >= Len(h) - limit)
  <2>1. PICK limit \in Limits(b) : ~ (offset >= Len(h) - limit)
    BY <1>1
  <2>2. limit \in Nat
    BY LimitsMembers
  <2>3. ~ (offset >= Len(g) - limit)
    BY <1>0, <2>1, <2>2
  <2> QED BY <2>3 DEF Kept
<1>2. CASE ExpiredAt(b, h[offset + 1], now)
  <2>1. PICK p \in b.policies :
           p.policy = "time" /\ now - h[offset + 1].created_at > p.limit
    BY <1>2 DEF ExpiredAt
  <2>2. p.limit \in Nat /\ h[offset + 1].created_at \in Nat
    BY <1>0 DEF Message, Policy
  <2>3. later - g[offset + 1].created_at > p.limit
    BY <1>0, <2>1, <2>2
  <2> QED BY <2>1, <2>3 DEF Kept, ExpiredAt
<1> QED BY <1>1, <1>2 DEF Kept

LEMMA InitInv == Init => IndInv
<1> SUFFICES ASSUME Init PROVE IndInv
  OBVIOUS
<1>1. PICK config \in Configs : buf = NewBuffer(config)
  BY DEF Init
<1>2. /\ config.max_capacity \in Nat
      /\ config.retention_ms \subseteq Nat
      /\ config.retention_capacity \subseteq Nat
  BY ConfigsAssumption DEF PartitionConfig
<1>3. build_policies(config) \subseteq Policy
  BY <1>2 DEF build_policies, Policy
<1>4. /\ buf.log = << >> /\ buf.next_offset = 0
      /\ buf.max_capacity = config.max_capacity
      /\ buf.policies = build_policies(config)
      /\ buf = [log |-> buf.log, next_offset |-> buf.next_offset,
                max_capacity |-> buf.max_capacity, policies |-> buf.policies]
  BY <1>1 DEF NewBuffer
<1>5. << >> \in Seq(Message) /\ Len(<< >>) = 0
  BY EmptySeq
<1>6. TypeOK
  BY <1>2, <1>3, <1>4, <1>5 DEF Init, TypeOK
<1>7. LogIsSuffix /\ StampsOrdered /\ RetentionExact
  BY <1>4, <1>5 DEF Init, LogIsSuffix, StampsOrdered, RetentionExact,
                    OldestRetained
<1> QED BY <1>6, <1>7 DEF IndInv

(* One sweep re-establishes the invariant, whatever was pushed before it:  *)
(* the common part of append, append_typed and evict.                      *)
LEMMA SweepPreserves ==
  ASSUME IndInv, NEW g \in Seq(Message), NEW pushed \in Seq(Message),
         Len(history) <= Len(g), \A i \in 1..Len(history) : g[i] = history[i],
         \A i \in 1..Len(g) : g[i].offset = i - 1,
         IsTail(pushed, g),
         buf.max_capacity > 0 => Len(pushed) <= buf.max_capacity - 1,
         \A offset \in 0..(Len(g) - Len(pushed) - 1) :
            ~ Kept(buf, g, swept', offset),
         swept' \in Nat, clock' \in Nat, swept' <= clock',
         Stamped(g, swept'),
         history' = g,
         buf' = [buf EXCEPT !.log = evict_buffer(buf.policies, pushed, swept'),
                            !.next_offset = Len(g)]
  PROVE  IndInv'
<1> DEFINE r == evict_buffer(buf.policies, pushed, swept')
<1>0. Len(g) \in Nat
  BY LenProperties
<1>1. r \in Seq(Message) /\ Len(r) <= Len(pushed) /\ IsTail(r, g)
  BY EvictBufferSweeps
<1>2. \A offset \in 0..(Len(g) - 1) :
         offset >= Len(g) - Len(r) <=> Kept(buf, g, swept', offset)
  BY SweepExact DEF IndInv, TypeOK
<1> HIDE DEF r
<1>3. Len(r) \in Nat
  BY <1>1, LenProperties
<1>4. /\ buf'.log = r /\ buf'.next_offset = Len(g)
      /\ buf'.max_capacity = buf.max_capacity
      /\ buf'.policies = buf.policies
      /\ buf' = [log |-> buf'.log, next_offset |-> buf'.next_offset,
                 max_capacity |-> buf'.max_capacity, policies |-> buf'.policies]
  BY DEF IndInv, TypeOK, r
<1>5. TypeOK'
  BY <1>0, <1>1, <1>4 DEF IndInv, TypeOK
<1>6. OldestRetained(buf') = Len(g) - Len(r)
  BY <1>4 DEF OldestRetained
<1>7. LogIsSuffix'
  BY <1>0, <1>1, <1>3, <1>4, <1>6 DEF LogIsSuffix, IsTail
<1>8. StampsOrdered'
  BY DEF StampsOrdered, Stamped
<1>9. \A offset : Kept(buf', g, swept', offset) <=> Kept(buf, g, swept', offset)
  BY <1>4 DEF Kept, Limits, ExpiredAt
<1>10. RetentionExact'
  <2> SUFFICES ASSUME NEW offset \in 0..(Len(g) - 1)
               PROVE  offset >= OldestRetained(buf')
                         <=> Kept(buf', g, swept', offset)
    BY DEF RetentionExact, Kept
  <2> QED BY <1>2, <1>6, <1>9
<1> QED BY <1>5, <1>7, <1>8, <1>10 DEF IndInv

LEMMA AppendPreserves ==
  ASSUME IndInv, NEW kind \in Kinds, NEW value \in Values,
         NEW stall \in 0..MaxStall, AppendMessage(kind, value, stall)
  PROVE  IndInv'
<1> DEFINE msg == StoredMessage(kind, value, buf.next_offset, clock)
           g   == Append(history, msg)
           full == Append(buf.log, msg)
           pushed == PopAtCapacity(buf.max_capacity, full)
<1>1. history \in Seq(Message) /\ buf.log \in Seq(Message)
  BY DEF IndInv, TypeOK
<1>2. /\ Len(history) \in Nat /\ Len(buf.log) \in Nat
      /\ Len(buf.log) <= Len(history) /\ buf.next_offset = Len(history)
  BY <1>1, LenProperties DEF IndInv, LogIsSuffix
<1>3. /\ clock \in Nat /\ swept \in Nat /\ swept <= clock /\ stall \in Nat
      /\ buf.max_capacity \in Nat
  BY BoundsAssumption DEF IndInv, TypeOK, StampsOrdered
<1>4. buf.policies \subseteq Policy
  BY DEF IndInv, TypeOK
<1>5. IsTail(buf.log, history) /\ Stamped(history, swept)
  BY IndInvUnfolded
<1>6. \A offset \in 0..(Len(history) - 1) :
         offset >= Len(history) - Len(buf.log)
            <=> Kept(buf, history, swept, offset)
  BY IndInvUnfolded
<1>7. buf.max_capacity > 0 => Len(buf.log) <= buf.max_capacity - 1
  BY IndInvUnfolded
<1>8. msg \in Message /\ msg.created_at = clock /\ msg.offset = Len(history)
  BY <1>2, <1>3 DEF StoredMessage, Message
<1>9. /\ swept' = clock + stall /\ clock' = clock + stall /\ history' = g
      /\ buf' = [buf EXCEPT
                   !.log = evict_buffer(buf.policies, pushed, swept'),
                   !.next_offset = Len(history) + 1]
  BY <1>2 DEF AppendMessage, Appended
<1>10. swept' \in Nat /\ clock' \in Nat /\ swept <= swept' /\ swept' <= clock'
  BY <1>3, <1>9
<1> HIDE DEF msg
<1>11. g \in Seq(Message) /\ Len(g) = Len(history) + 1
  BY <1>1, <1>8, AppendProperties
<1>12. (\A i \in 1..Len(history) : g[i] = history[i]) /\ g[Len(history) + 1] = msg
  BY <1>1, <1>8, AppendProperties
<1>13. full \in Seq(Message) /\ Len(full) = Len(buf.log) + 1
  BY <1>1, <1>8, AppendProperties
<1>14. IsTail(full, g)
  BY <1>1, <1>5, <1>8, AppendTail
<1> HIDE DEF g, full
<1>15. pushed \in Seq(Message) /\ IsTail(pushed, g)
  BY <1>3, <1>11, <1>13, <1>14, PopAtCapacityTail
<1>16. Len(pushed) = IF buf.max_capacity > 0 /\ Len(full) >= buf.max_capacity
                     THEN Len(full) - 1 ELSE Len(full)
  BY <1>3, <1>11, <1>13, <1>14, PopAtCapacityTail
<1> HIDE DEF pushed
<1>17. \/ /\ buf.max_capacity > 0 /\ Len(buf.log) + 1 >= buf.max_capacity
          /\ Len(pushed) = Len(buf.log)
       \/ Len(pushed) = Len(buf.log) + 1
  BY <1>2, <1>3, <1>13, <1>16
<1>18. buf.max_capacity > 0 => Len(pushed) <= buf.max_capacity - 1
  BY <1>2, <1>3, <1>7, <1>13, <1>16
<1>19. ASSUME NEW offset \in 0..(Len(g) - Len(pushed) - 1)
       PROVE  ~ Kept(buf, g, swept', offset)
  <2>0. offset \in Nat /\ offset <= Len(g) - Len(pushed) - 1
    BY <1>2, <1>11, <1>17
  <2>1. CASE offset < Len(history) - Len(buf.log)
    <3>1. offset \in 0..(Len(history) - 1)
      BY <1>2, <2>0, <2>1
    <3>2. ~ Kept(buf, history, swept, offset)
      BY <1>2, <1>6, <2>1, <3>1
    <3>3. Len(history) <= Len(g)
      BY <1>2, <1>11
    <3>4. \A i \in 1..Len(history) : g[i] = history[i]
      BY <1>12
    <3>5. history \in Seq(Message) /\ g \in Seq(Message)
      BY <1>1, <1>11
    <3> QED BY <1>3, <1>4, <1>10, <3>1, <3>2, <3>3, <3>4, <3>5, NotKeptForever
  <2>2. CASE offset >= Len(history) - Len(buf.log)
    <3>1. /\ buf.max_capacity > 0 /\ Len(buf.log) + 1 >= buf.max_capacity
          /\ offset = Len(history) - Len(buf.log)
      BY <1>2, <1>11, <1>17, <2>0, <2>2
    <3>2. ~ (offset >= Len(g) - (buf.max_capacity - 1))
      BY <1>2, <1>3, <1>11, <3>1
    <3>3. buf.max_capacity - 1 \in Limits(buf)
      BY <1>3, <1>4, <3>1, LimitsMembers
    <3> QED BY <3>2, <3>3 DEF Kept
  <2> QED BY <1>2, <2>0, <2>1, <2>2
<1>20. \A i \in 1..Len(g) : g[i].offset = i - 1
  <2>1. \A i \in 1..Len(history) : history[i].offset = i - 1
    BY DEF IndInv, LogIsSuffix
  <2> QED BY <1>2, <1>8, <1>11, <1>12, <2>1
<1>21. Stamped(g, swept')
  <2>1. /\ \A i \in 1..Len(history) : history[i].created_at \in Nat
        /\ \A i \in 1..Len(history) : history[i].created_at <= swept
        /\ \A i, j \in 1..Len(history) :
              i <= j => history[i].created_at <= history[j].created_at
    BY <1>1, <1>5, StampsAreNat DEF Stamped
  <2>2. ASSUME NEW i \in 1..Len(g) PROVE g[i].created_at <= swept'
    BY <1>2, <1>3, <1>8, <1>9, <1>11, <1>12, <2>1
  <2>3. ASSUME NEW i \in 1..Len(g), NEW j \in 1..Len(g), i <= j
        PROVE  g[i].created_at <= g[j].created_at
    <3>1. CASE j \in 1..Len(history)
      BY <1>2, <1>12, <2>1, <2>3, <3>1
    <3>2. CASE j = Len(history) + 1
      BY <1>2, <1>3, <1>8, <1>11, <1>12, <2>1, <3>2
    <3> QED BY <1>2, <1>11, <3>1, <3>2
  <2> QED BY <2>2, <2>3 DEF Stamped
<1>22. Len(history) <= Len(g) /\ Len(g) = Len(history) + 1
  BY <1>2, <1>11
<1>23. buf' = [buf EXCEPT !.log = evict_buffer(buf.policies, pushed, swept'),
                          !.next_offset = Len(g)]
  BY <1>9, <1>22
<1> QED BY <1>9, <1>10, <1>11, <1>12, <1>15, <1>18, <1>19, <1>20, <1>21,
           <1>22, <1>23, SweepPreserves

LEMMA EvictPreserves ==
  ASSUME IndInv, evict
  PROVE  IndInv'
<1>1. history \in Seq(Message) /\ buf.log \in Seq(Message)
  BY DEF IndInv, TypeOK
<1>2. /\ Len(history) \in Nat /\ Len(buf.log) \in Nat
      /\ Len(buf.log) <= Len(history) /\ buf.next_offset = Len(history)
  BY <1>1, LenProperties DEF IndInv, LogIsSuffix
<1>3. /\ clock \in Nat /\ swept \in Nat /\ swept <= clock
      /\ buf.max_capacity \in Nat /\ buf.policies \subseteq Policy
  BY DEF IndInv, TypeOK, StampsOrdered
<1>4. IsTail(buf.log, history) /\ Stamped(history, swept)
  BY IndInvUnfolded
<1>5. \A offset \in 0..(Len(history) - 1) :
         offset >= Len(history) - Len(buf.log)
            <=> Kept(buf, history, swept, offset)
  BY IndInvUnfolded
<1>6. buf.max_capacity > 0 => Len(buf.log) <= buf.max_capacity - 1
  BY IndInvUnfolded
<1>7. swept' = clock /\ clock' = clock /\ history' = history
  BY DEF evict
<1>8. buf' = [buf EXCEPT !.log = evict_buffer(buf.policies, buf.log, swept'),
                         !.next_offset = Len(history)]
  <2>1. buf = [log |-> buf.log, next_offset |-> buf.next_offset,
               max_capacity |-> buf.max_capacity, policies |-> buf.policies]
    BY DEF IndInv, TypeOK
  <2>2. buf' = [buf EXCEPT !.log = evict_buffer(buf.policies, buf.log, swept')]
    BY <1>7 DEF evict, Evicted
  <2> QED BY <1>2, <2>1, <2>2
<1>9. ASSUME NEW offset \in 0..(Len(history) - Len(buf.log) - 1)
      PROVE  ~ Kept(buf, history, swept', offset)
  <2>1. offset \in 0..(Len(history) - 1)
        /\ ~ (offset >= Len(history) - Len(buf.log))
    BY <1>2
  <2>2. ~ Kept(buf, history, swept, offset)
    BY <1>5, <2>1
  <2>3. Len(history) <= Len(history) /\ swept' \in Nat /\ swept <= swept'
    BY <1>2, <1>3, <1>7
  <2>4. \A i \in 1..Len(history) : history[i] = history[i]
    OBVIOUS
  <2> QED BY <1>1, <1>3, <2>1, <2>2, <2>3, <2>4, NotKeptForever
<1>10. Stamped(history, swept')
  <2>1. \A i \in 1..Len(history) : history[i].created_at \in Nat
    BY <1>1, StampsAreNat
  <2> QED BY <1>3, <1>4, <1>7, <2>1 DEF Stamped
<1>11. \A i \in 1..Len(history) : history[i].offset = i - 1
  BY DEF IndInv, LogIsSuffix
<1>12. /\ swept' \in Nat /\ clock' \in Nat /\ swept' <= clock'
       /\ Len(history) <= Len(history)
       /\ \A i \in 1..Len(history) : history[i] = history[i]
  BY <1>2, <1>3, <1>7
<1> QED BY <1>1, <1>4, <1>6, <1>7, <1>8, <1>9, <1>10, <1>11, <1>12,
           SweepPreserves

LEMMA NextInv == IndInv /\ [Next]_vars => IndInv'
<1> SUFFICES ASSUME IndInv, [Next]_vars PROVE IndInv'
  OBVIOUS
<1>1. ASSUME NEW value \in Values, NEW stall \in 0..MaxStall,
             append(value, stall)
      PROVE  IndInv'
  BY <1>1, AppendPreserves DEF append, Kinds
<1>2. ASSUME NEW value \in Values, NEW stall \in 0..MaxStall,
             append_typed(value, stall)
      PROVE  IndInv'
  BY <1>2, AppendPreserves DEF append_typed, Kinds
<1>3. CASE evict
  BY <1>3, EvictPreserves
<1>4. CASE Tick
  <2>1. UNCHANGED << buf, history, swept >> /\ clock' = clock + 1
    BY <1>4 DEF Tick
  <2>2. LogIsSuffix' /\ RetentionExact'
    BY <2>1 DEF IndInv, LogIsSuffix, RetentionExact
  <2>3. TypeOK'
    BY <2>1 DEF IndInv, TypeOK
  <2>4. StampsOrdered'
    <3>1. swept' <= clock'
      BY <2>1 DEF IndInv, TypeOK, StampsOrdered
    <3> QED BY <2>1, <3>1 DEF IndInv, StampsOrdered
  <2> QED BY <2>2, <2>3, <2>4 DEF IndInv
<1>5. CASE UNCHANGED vars
  BY <1>5 DEF IndInv, vars, TypeOK, LogIsSuffix, StampsOrdered,
              RetentionExact, OldestRetained, Limits, ExpiredAt
<1> QED BY <1>1, <1>2, <1>3, <1>4, <1>5 DEF Next

(* The inductive invariant holds of every behaviour.                       *)
LEMMA Invariance == Spec => []IndInv
BY InitInv, NextInv, PTL DEF Spec

(* Type correctness, for every configuration.                              *)
THEOREM PartitionTypeOK == Spec => []TypeOK
<1>1. IndInv => TypeOK
  BY DEF IndInv
<1> QED BY <1>1, Invariance, PTL

(* Retention is exact, for every configuration, clock and schedule.        *)
THEOREM PartitionRetention == Spec => []RetentionExact
<1>1. IndInv => RetentionExact
  BY DEF IndInv
<1> QED BY <1>1, Invariance, PTL

-----------------------------------------------------------------------------
(* What read_one answers, case by case.                                    *)
LEMMA ReadOneCases ==
  ASSUME IndInv, NEW offset \in Int
  PROVE  LET old == Len(history) - Len(buf.log)
             retained == old <= offset /\ offset < Len(history)
             empty    == offset = Len(history) \/ (offset = 0 /\ buf.log = << >>)
         IN  /\ retained => /\ ~ OffsetRejected(buf, offset)
                            /\ ~ AtEnd(buf, offset)
             /\ (~ retained /\ empty) => /\ ~ OffsetRejected(buf, offset)
                                         /\ AtEnd(buf, offset)
             /\ (~ retained /\ ~ empty) => OffsetRejected(buf, offset)
<1>1. /\ Len(history) \in Nat /\ Len(buf.log) \in Nat
      /\ OldestRetained(buf) = Len(history) - Len(buf.log)
      /\ buf.next_offset = Len(history) /\ Len(buf.log) <= Len(history)
  BY IndInvUnfolded DEF IndInv, LogIsSuffix
<1>2. buf.log = << >> <=> Len(buf.log) = 0
  BY EmptySeq DEF IndInv, TypeOK
<1> QED BY <1>1, <1>2 DEF OffsetRejected, AtEnd

(* The message at a retained offset is the one appended there.             *)
LEMMA RetainedIndex ==
  ASSUME IndInv, NEW offset \in Int,
         Len(history) - Len(buf.log) <= offset, offset < Len(history)
  PROVE  buf.log[offset - OldestRetained(buf) + 1] = history[offset + 1]
<1> DEFINE old == OldestRetained(buf)
           i   == offset - old + 1
<1>1. Len(history) \in Nat /\ Len(buf.log) \in Nat
  BY IndInvUnfolded
<1>2. old = Len(history) - Len(buf.log) /\ IsTail(buf.log, history)
  BY IndInvUnfolded
<1>3. old \in Int /\ old <= offset /\ offset < old + Len(buf.log)
  BY <1>1, <1>2
<1> HIDE DEF old
<1>4. i \in 1..Len(buf.log) /\ old + i = offset + 1
  BY <1>1, <1>3
<1> HIDE DEF i
<1>5. buf.log[i] = history[old + i]
  BY <1>2, <1>4 DEF IsTail
<1> QED BY <1>4, <1>5 DEF i, old

(* The part of the log that read returns from a retained offset.           *)
LEMMA ReadSlice ==
  ASSUME IndInv, NEW offset \in Int, NEW max_count \in Nat,
         Len(history) - Len(buf.log) <= offset, offset < Len(history)
  PROVE  LET start == offset - OldestRetained(buf)
             end   == IF start + max_count < Len(buf.log)
                      THEN start + max_count ELSE Len(buf.log)
         IN  SubSeq(buf.log, start + 1, end) =
                [i \in 1..(IF max_count < Len(history) - offset
                           THEN max_count ELSE Len(history) - offset)
                    |-> history[offset + i]]
<1> DEFINE old   == OldestRetained(buf)
           start == offset - old
           end   == IF start + max_count < Len(buf.log)
                    THEN start + max_count ELSE Len(buf.log)
           n     == IF max_count < Len(history) - offset
                    THEN max_count ELSE Len(history) - offset
           lhs   == SubSeq(buf.log, start + 1, end)
           rhs   == [i \in 1..n |-> history[offset + i]]
<1>1. Len(history) \in Nat /\ Len(buf.log) \in Nat
  BY IndInvUnfolded
<1>2. buf.log \in Seq(Message)
  BY DEF IndInv, TypeOK
<1>3. old = Len(history) - Len(buf.log)
  BY IndInvUnfolded
<1>4. old \in Int /\ old <= offset /\ Len(history) = old + Len(buf.log)
  BY <1>1, <1>3
<1> HIDE DEF old
<1>5. start \in Nat /\ Len(history) - offset = Len(buf.log) - start
  BY <1>1, <1>4
<1>6. offset = old + start
  BY <1>4
<1> HIDE DEF start
<1>7. n \in Nat /\ end = start + n /\ end <= Len(buf.log)
  BY <1>1, <1>5
<1> HIDE DEF n, end
<1>8. ASSUME NEW i \in 1..n
      PROVE  buf.log[start + i] = history[offset + i]
  <2> DEFINE o == offset + i - 1
  <2>1. start + i \in 1..Len(buf.log)
    BY <1>1, <1>5, <1>7
  <2>2. o \in Int /\ old <= o /\ o < Len(history)
    BY <1>1, <1>4, <1>5, <1>6, <2>1
  <2>3. o - old + 1 = start + i /\ o + 1 = offset + i
    BY <1>4, <1>5, <1>6
  <2>4. buf.log[o - old + 1] = history[o + 1]
    <3> HIDE DEF o
    <3> QED BY <1>3, <2>2, RetainedIndex DEF old
  <2> QED BY <2>3, <2>4
<1>9. \A i \in (start + 1)..end : buf.log[i] \in Message
  BY <1>1, <1>2, <1>5, <1>7, ElementOfSeq
<1>10. /\ lhs \in Seq(Message) /\ Len(lhs) = n
       /\ \A i \in 1..n : lhs[i] = buf.log[start + i]
  <2>1. /\ lhs \in Seq(Message)
        /\ Len(lhs) = IF start + 1 <= end THEN end - (start + 1) + 1 ELSE 0
        /\ \A i \in 1..(end - (start + 1) + 1) :
              lhs[i] = buf.log[start + 1 + i - 1]
    <3>1. start + 1 \in Int /\ end \in Int
      BY <1>5, <1>7
    <3> QED BY <1>9, <3>1, SubSeqProperties
  <2> HIDE DEF lhs
  <2> QED BY <1>5, <1>7, <2>1
<1>11. lhs = [i \in 1..n |-> lhs[i]]
  <2> HIDE DEF lhs
  <2> QED BY <1>7, <1>10, LenProperties
<1> HIDE DEF lhs
<1>12. lhs = rhs
  BY <1>8, <1>10, <1>11
<1> QED BY <1>12 DEF lhs, start, end, n, old

(* Reads agree with the history, for every configuration.                  *)
THEOREM PartitionReads == Spec => []ReadsMatchHistory
<1>1. ASSUME IndInv PROVE ReadsMatchHistory
  <2> SUFFICES ASSUME NEW offset \in -1..(Len(history) + 1)
               PROVE  LET retained == /\ OldestRetained(buf) <= offset
                                      /\ offset < Len(history)
                          empty    == \/ offset = Len(history)
                                      \/ offset = 0 /\ buf.log = << >>
                      IN  /\ read_one(buf, offset) =
                                IF retained THEN Ok(<< history[offset + 1] >>)
                                ELSE IF empty THEN Ok(<< >>) ELSE OutOfRange
                          /\ \A max_count \in 0..(Len(history) + 1) :
                                read(buf, offset, max_count) =
                                   IF retained
                                   THEN Ok([i \in 1..(IF max_count < Len(history) - offset
                                                      THEN max_count
                                                      ELSE Len(history) - offset)
                                               |-> history[offset + i]])
                                   ELSE IF empty THEN Ok(<< >>) ELSE OutOfRange
    BY DEF ReadsMatchHistory
  <2>1. /\ Len(history) \in Nat /\ Len(buf.log) \in Nat
        /\ OldestRetained(buf) = Len(history) - Len(buf.log)
    BY <1>1, IndInvUnfolded
  <2>2. offset \in Int
    BY <2>1
  <2>3. CASE OldestRetained(buf) <= offset /\ offset < Len(history)
    <3>1. ~ OffsetRejected(buf, offset) /\ ~ AtEnd(buf, offset)
      BY <1>1, <2>1, <2>2, <2>3, ReadOneCases
    <3>2. read_one(buf, offset) = Ok(<< history[offset + 1] >>)
      BY <1>1, <2>1, <2>2, <2>3, <3>1, RetainedIndex DEF read_one
    <3>3. ASSUME NEW max_count \in 0..(Len(history) + 1)
          PROVE  read(buf, offset, max_count) =
                    Ok([i \in 1..(IF max_count < Len(history) - offset
                                  THEN max_count ELSE Len(history) - offset)
                           |-> history[offset + i]])
      <4>1. max_count \in Nat
        BY <2>1
      <4> QED BY <1>1, <2>1, <2>2, <2>3, <3>1, <4>1, ReadSlice DEF read
    <3> QED BY <2>3, <3>2, <3>3
  <2>4. CASE /\ ~ (OldestRetained(buf) <= offset /\ offset < Len(history))
             /\ offset = Len(history) \/ (offset = 0 /\ buf.log = << >>)
    <3>1. ~ OffsetRejected(buf, offset) /\ AtEnd(buf, offset)
      BY <1>1, <2>1, <2>2, <2>4, ReadOneCases
    <3> QED BY <2>4, <3>1 DEF read_one, read
  <2>5. CASE /\ ~ (OldestRetained(buf) <= offset /\ offset < Len(history))
             /\ ~ (offset = Len(history) \/ (offset = 0 /\ buf.log = << >>))
    <3>1. OffsetRejected(buf, offset)
      BY <1>1, <2>1, <2>2, <2>5, ReadOneCases
    <3> QED BY <2>5, <3>1 DEF read_one, read
  <2> QED BY <2>3, <2>4, <2>5
<1> QED BY <1>1, Invariance, PTL

-----------------------------------------------------------------------------
(* The offsets read_one answers with a message are those from the oldest   *)
(* retained one on.                                                        *)
LEMMA ReadableIs ==
  ASSUME IndInv
  PROVE  [o \in ReadableOffsets |-> read_one(buf, o).messages[1]]
            = Promise!Readable(history, OldestRetained(buf))
<1> DEFINE old == OldestRetained(buf)
<1>1. Len(history) \in Nat /\ Len(buf.log) \in Nat
  BY IndInvUnfolded
<1>2. old = Len(history) - Len(buf.log) /\ buf.next_offset = Len(history)
  BY IndInvUnfolded DEF IndInv, LogIsSuffix
<1>3. old \in Nat /\ old <= Len(history)
  BY <1>1, <1>2 DEF IndInv, LogIsSuffix
<1>4. ASSUME NEW o \in old..(Len(history) - 1)
      PROVE  read_one(buf, o).messages = << history[o + 1] >>
  <2>1. o \in Int /\ Len(history) - Len(buf.log) <= o /\ o < Len(history)
    BY <1>1, <1>2, <1>3
  <2>2. ~ OffsetRejected(buf, o) /\ ~ AtEnd(buf, o)
    BY <2>1, ReadOneCases
  <2> QED BY <2>1, <2>2, RetainedIndex DEF read_one, Ok
<1>5. ASSUME NEW o \in Int, o \notin old..(Len(history) - 1)
      PROVE  read_one(buf, o).messages = << >>
  <2>1. ~ (Len(history) - Len(buf.log) <= o /\ o < Len(history))
    BY <1>1, <1>2, <1>3, <1>5
  <2>2. OffsetRejected(buf, o) \/ AtEnd(buf, o)
    BY <2>1, ReadOneCases
  <2> QED BY <2>2 DEF read_one, Ok, OutOfRange
<1>6. ReadableOffsets = old..(Len(history) - 1)
  <2>1. old..(Len(history) - 1) \subseteq -1..(buf.next_offset + 1)
    BY <1>1, <1>2, <1>3
  <2>2. ASSUME NEW o \in -1..(buf.next_offset + 1)
        PROVE  read_one(buf, o).messages # << >> <=> o \in old..(Len(history) - 1)
    <3>1. o \in Int
      BY <1>1, <1>2
    <3>2. << history[o + 1] >> # << >>
      OBVIOUS
    <3> HIDE DEF old
    <3> QED BY <1>4, <1>5, <3>1, <3>2
  <2> QED BY <2>1, <2>2 DEF ReadableOffsets
<1>7. \A o \in old..(Len(history) - 1) :
         read_one(buf, o).messages[1] = history[o + 1]
  BY <1>4
<1> QED BY <1>6, <1>7 DEF Promise!Readable

LEMMA ReadableIsPrimed ==
  (IndInv => [o \in ReadableOffsets |-> read_one(buf, o).messages[1]]
                = Promise!Readable(history, OldestRetained(buf)))'
<1>1. IndInv => [o \in ReadableOffsets |-> read_one(buf, o).messages[1]]
                   = Promise!Readable(history, OldestRetained(buf))
  BY ReadableIs
<1> QED BY <1>1, PTL

(* The low-water mark never moves back.                                    *)
LEMMA OldestMonotone ==
  ASSUME IndInv, IndInv', [Next]_vars
  PROVE  /\ OldestRetained(buf) <= OldestRetained(buf')
         /\ OldestRetained(buf') <= Len(history')
         /\ OldestRetained(buf) \in Nat /\ OldestRetained(buf') \in Nat
         /\ \/ history' = history
            \/ \E m \in Message : history' = Append(history, m)
<1>1. /\ Len(history) \in Nat /\ Len(buf.log) \in Nat
      /\ Len(buf.log) <= Len(history)
      /\ OldestRetained(buf) = Len(history) - Len(buf.log)
  BY IndInvUnfolded DEF IsTail
<1>2. /\ Len(history') \in Nat /\ Len(buf'.log) \in Nat
      /\ Len(buf'.log) <= Len(history')
      /\ OldestRetained(buf') = Len(history') - Len(buf'.log)
  <2>1. /\ history' \in Seq(Message) /\ buf'.log \in Seq(Message)
        /\ buf'.next_offset = Len(history') /\ Len(buf'.log) <= Len(history')
    BY DEF IndInv, TypeOK, LogIsSuffix
  <2>2. Len(history') \in Nat /\ Len(buf'.log) \in Nat
    BY <2>1, LenProperties
  <2> QED BY <2>1, <2>2 DEF OldestRetained
<1>3. /\ history \in Seq(Message) /\ buf.log \in Seq(Message)
      /\ buf.max_capacity \in Nat /\ IsTail(buf.log, history)
      /\ buf.next_offset = Len(history) /\ clock \in Nat
  BY IndInvUnfolded DEF IndInv, TypeOK, LogIsSuffix
<1>4. ASSUME NEW kind \in Kinds, NEW value \in Values,
             NEW stall \in 0..MaxStall, AppendMessage(kind, value, stall)
      PROVE  /\ Len(buf'.log) <= Len(buf.log) + 1
             /\ Len(history') = Len(history) + 1
             /\ \E m \in Message : history' = Append(history, m)
  <2> DEFINE msg  == StoredMessage(kind, value, buf.next_offset, clock)
             full == Append(buf.log, msg)
             pushed == PopAtCapacity(buf.max_capacity, full)
             g == Append(history, msg)
  <2>1. msg \in Message
    BY <1>1, <1>3 DEF StoredMessage, Message
  <2>2. /\ history' = g
        /\ buf'.log = evict_buffer(buf.policies, pushed, clock + stall)
    <3>1. buf = [log |-> buf.log, next_offset |-> buf.next_offset,
                 max_capacity |-> buf.max_capacity, policies |-> buf.policies]
      BY DEF IndInv, TypeOK
    <3> QED BY <1>4, <3>1 DEF AppendMessage, Appended
  <2> HIDE DEF msg
  <2>3. /\ g \in Seq(Message) /\ full \in Seq(Message)
        /\ Len(g) = Len(history) + 1 /\ Len(full) = Len(buf.log) + 1
    BY <1>3, <2>1, AppendProperties
  <2>4. IsTail(full, g)
    BY <1>3, <2>1, AppendTail
  <2>5. \E m \in Message : history' = Append(history, m)
    BY <2>1, <2>2
  <2> HIDE DEF full, g
  <2>6. /\ pushed \in Seq(Message) /\ IsTail(pushed, g)
        /\ Len(pushed) = IF buf.max_capacity > 0 /\ Len(full) >= buf.max_capacity
                         THEN Len(full) - 1 ELSE Len(full)
    BY <1>3, <2>3, <2>4, PopAtCapacityTail
  <2> HIDE DEF pushed
  <2>7. Len(pushed) \in Nat /\ Len(pushed) <= Len(full)
    BY <1>1, <2>3, <2>6
  <2>8. Len(buf'.log) <= Len(pushed)
    BY <2>2, <2>3, <2>6, EvictBufferSweeps
  <2>9. Len(buf'.log) <= Len(buf.log) + 1
    BY <1>1, <1>2, <2>3, <2>7, <2>8
  <2> QED BY <2>2, <2>3, <2>5, <2>9
<1>5. CASE \E value \in Values, stall \in 0..MaxStall :
              append(value, stall) \/ append_typed(value, stall)
  BY <1>1, <1>2, <1>4, <1>5 DEF append, append_typed, Kinds
<1>6. CASE evict
  <2>1. history' = history
    BY <1>6 DEF evict
  <2>2. buf'.log = evict_buffer(buf.policies, buf.log, clock)
    <3>1. buf = [log |-> buf.log, next_offset |-> buf.next_offset,
                 max_capacity |-> buf.max_capacity, policies |-> buf.policies]
      BY DEF IndInv, TypeOK
    <3> QED BY <1>6, <3>1 DEF evict, Evicted
  <2>3. Len(buf'.log) <= Len(buf.log)
    BY <1>3, <2>2, EvictBufferSweeps
  <2> QED BY <1>1, <1>2, <2>1, <2>3
<1>7. CASE Tick \/ UNCHANGED vars
  BY <1>1, <1>2, <1>7 DEF Tick, vars
<1> QED BY <1>5, <1>6, <1>7 DEF Next

(* The partition implements the promise RetainedLog makes to readers.      *)
THEOREM PartitionRefinesRetainedLog == Spec => ImplementsRetainedLog
<1>1. Init => Promise!Init
  <2> SUFFICES ASSUME Init PROVE Promise!Init
    OBVIOUS
  <2>1. IndInv /\ history = << >>
    BY InitInv DEF Init
  <2>2. OldestRetained(buf) = 0
    <3>1. Len(buf.log) \in Nat /\ Len(buf.log) <= Len(history)
          /\ OldestRetained(buf) = Len(history) - Len(buf.log)
      BY <2>1, IndInvUnfolded DEF IsTail
    <3> QED BY <2>1, <3>1
  <2>3. [o \in ReadableOffsets |-> read_one(buf, o).messages[1]]
           = Promise!Readable(<< >>, 0)
    BY <2>1, <2>2, ReadableIs
  <2> QED BY <2>1, <2>2, <2>3 DEF Promise!Init
<1>2. IndInv /\ IndInv' /\ [Next]_vars => [Promise!Next]_Promise!vars
  <2> SUFFICES ASSUME IndInv, IndInv', [Next]_vars
               PROVE  [Promise!Next]_Promise!vars
    OBVIOUS
  <2> DEFINE low == OldestRetained(buf)
  <2>1. /\ low' \in low..Len(history')
        /\ \/ history' = history
           \/ \E m \in Message : history' = Append(history, m)
    <3>1. /\ low <= low' /\ low' <= Len(history') /\ low \in Nat /\ low' \in Nat
          /\ \/ history' = history
             \/ \E m \in Message : history' = Append(history, m)
      BY OldestMonotone
    <3>2. Len(history') \in Nat
      BY LenProperties DEF IndInv, TypeOK
    <3> QED BY <3>1, <3>2
  <2>2. [o \in ReadableOffsets |-> read_one(buf, o).messages[1]]'
           = Promise!Readable(history', low')
    BY ReadableIsPrimed
  <2>3. CASE history' = history
    BY <2>1, <2>2, <2>3 DEF Promise!Next, Promise!Trim
  <2>4. CASE \E m \in Message : history' = Append(history, m)
    <3>1. PICK m \in Message : history' = Append(history, m)
      BY <2>4
    <3>2. /\ Len(history') = Len(history) + 1
          /\ history'[Len(history')] = m
      BY <3>1, AppendProperties DEF IndInv, TypeOK
    <3> QED BY <2>1, <2>2, <3>1, <3>2 DEF Promise!Next, Promise!Publish
  <2> QED BY <2>1, <2>3, <2>4
<1>3. Spec => Promise!Spec
  BY <1>1, <1>2, Invariance, PTL DEF Spec, Promise!Spec
<1> QED BY <1>3 DEF ImplementsRetainedLog
=============================================================================
