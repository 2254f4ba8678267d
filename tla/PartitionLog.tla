---------------------------- MODULE PartitionLog ----------------------------
(***************************************************************************)
(* The buffer of one partition (src/src/partition.rs) as operators on a    *)
(* record.  Every operation of Partition takes the buffer's RwLock for its *)
(* whole body, so each of them is one function of the buffer.              *)
(*                                                                         *)
(* An Option<u64> of the configuration is a set with at most one element.  *)
(* Offsets are i64 in the code; next_offset grows by one per append and    *)
(* cannot wrap in a feasible run, so they are plain integers here.         *)
(***************************************************************************)
EXTENDS Integers, Sequences

PartitionConfig ==
    [max_capacity       : Nat,
     retention_ms       : {s \in SUBSET Nat : \A a, b \in s : a = b},
     retention_capacity : {s \in SUBSET Nat : \A a, b \in s : a = b}]

(* A policy object: TimeEviction {retention_ms} or                         *)
(* CapacityEviction {retention_capacity}.                                  *)
Policy == [policy : {"time", "capacity"}, limit : Nat]

build_policies(config) ==
    [policy : {"time"},     limit : config.retention_ms] \cup
    [policy : {"capacity"}, limit : config.retention_capacity]

-----------------------------------------------------------------------------

(* Slip: counting from the last offset used instead of the next one.       *)
NewBuffer_LastOffset(config) ==
    [log          |-> << >>,
     next_offset  |-> -1,
     max_capacity |-> config.max_capacity,
     policies     |-> build_policies(config)]

NewBuffer(config) ==
    [log          |-> << >>,
     next_offset  |-> 0,
     max_capacity |-> config.max_capacity,
     policies     |-> build_policies(config)]

(* A StoredMessage: raw bytes (append) or a shared typed value             *)
(* (append_typed), stamped with the Instant at which it was created.       *)
StoredMessage(kind, value, offset, created_at) ==
    [kind |-> kind, value |-> value, offset |-> offset, created_at |-> created_at]

(* The offset of the oldest retained message, next_offset if there is none *)
OldestRetained(buf) == buf.next_offset - Len(buf.log)

-----------------------------------------------------------------------------
(* Eviction.                                                               *)

should_evict(p, buffer_len, msg, now) ==
    \/ p.policy = "time"     /\ now - msg.created_at > p.limit
    \/ p.policy = "capacity" /\ buffer_len > p.limit

AnyPolicyEvicts(policies, buffer_len, msg, now) ==
    \E p \in policies : should_evict(p, buffer_len, msg, now)

(* The while loop of evict_buffer pops k messages: each was evictable when *)
(* it was at the front, and the one then at the front (if any) is not.     *)
EvictsExactly(policies, log, now, k) ==
    /\ \A j \in 0..(k - 1) :
          AnyPolicyEvicts(policies, Len(log) - j, log[j + 1], now)
    /\ k < Len(log) =>
          ~ AnyPolicyEvicts(policies, Len(log) - k, log[k + 1], now)

(* Slip: an "if" where the loop is, so that one call pops at most one.     *)
evict_buffer_Once(policies, log, now) ==
    IF log # << >> /\ AnyPolicyEvicts(policies, Len(log), log[1], now)
    THEN Tail(log) ELSE log

evict_buffer(policies, log, now) ==
    LET k == CHOOSE k \in 0..Len(log) : EvictsExactly(policies, log, now, k)
    IN  SubSeq(log, k + 1, Len(log))

(* Slip: pop_back where pop_front is meant.                                *)
PopAtCapacity_Back(max_capacity, log) ==
    IF max_capacity > 0 /\ Len(log) >= max_capacity
    THEN SubSeq(log, 1, Len(log) - 1) ELSE log

(* The buffer-capacity check of append, made right after push_back.        *)
PopAtCapacity(max_capacity, log) ==
    IF max_capacity > 0 /\ Len(log) >= max_capacity THEN Tail(log) ELSE log

(* The locked part of append and append_typed; now is the Instant at which *)
(* the eviction loop looks at the clock.                                   *)
Appended(buf, kind, value, created_at, now) ==
    LET msg    == StoredMessage(kind, value, buf.next_offset, created_at)
        pushed == PopAtCapacity(buf.max_capacity, Append(buf.log, msg))
    IN  [buf EXCEPT !.log = evict_buffer(buf.policies, pushed, now),
                    !.next_offset = @ + 1]

Evicted(buf, now) ==
    [buf EXCEPT !.log = evict_buffer(buf.policies, buf.log, now)]

-----------------------------------------------------------------------------
(* Reads.  The answer of a read is Ok(messages) or OffsetOutOfRange; an    *)
(* Option<message> is a sequence of at most one message.                   *)

Ok(messages) == [ok |-> TRUE, messages |-> messages]
OutOfRange   == [ok |-> FALSE, messages |-> << >>]

(* Slip: treating the next offset as out of range.                         *)
OffsetRejected_Closed(buf, offset) ==
    IF buf.log = << >>
    THEN offset # 0 /\ offset # buf.next_offset
    ELSE offset < OldestRetained(buf) \/ offset >= buf.next_offset

(* The checks read_one and read share.                                     *)
OffsetRejected(buf, offset) ==
    IF buf.log = << >>
    THEN offset # 0 /\ offset # buf.next_offset
    ELSE offset < OldestRetained(buf) \/ offset > buf.next_offset

AtEnd(buf, offset) == buf.log = << >> \/ offset = buf.next_offset

read_one(buf, offset) ==
    IF OffsetRejected(buf, offset) THEN OutOfRange
    ELSE IF AtEnd(buf, offset) THEN Ok(<< >>)
    ELSE Ok(<< buf.log[offset - OldestRetained(buf) + 1] >>)

read(buf, offset, max_count) ==
    IF OffsetRejected(buf, offset) THEN OutOfRange
    ELSE IF AtEnd(buf, offset) THEN Ok(<< >>)
    ELSE LET start == offset - OldestRetained(buf)
             end   == IF start + max_count < Len(buf.log)
                      THEN start + max_count ELSE Len(buf.log)
         IN  Ok(SubSeq(buf.log, start + 1, end))

watermarks(buf) ==
    [oldest |-> IF buf.log = << >> THEN 0 ELSE OldestRetained(buf),
     newest |-> buf.next_offset - 1]

message_count(buf) == Len(buf.log)
=============================================================================
