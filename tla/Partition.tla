------------------------------ MODULE Partition ------------------------------
(***************************************************************************)
(* One partition shared by any number of producers and readers             *)
(* (src/src/partition.rs).  The RwLock of the buffer makes each operation  *)
(* one step; what is not under the programmer's control is the clock,      *)
(* which may advance between the creation stamp of a message               *)
(* (Instant::now() in append) and the elapsed() calls of the eviction loop *)
(* that follows.  Because stamps never decrease along the log, a loop that *)
(* reads a later time in each round stops where one that reads only the    *)
(* last of those times would; one "now" per loop is therefore enough.      *)
(*                                                                         *)
(* The reads (read_one, read, watermarks) change nothing: they are         *)
(* operators of PartitionLog, evaluated in every reachable state.          *)
(***************************************************************************)
EXTENDS PartitionLog

CONSTANTS
    Configs,       \* the partition configurations to start from
    Values,        \* payloads
    MaxAppends,    \* bound on the number of appends
    MaxClock,      \* bound on the clock, in milliseconds
    MaxStall       \* bound on the time one append may take

ASSUME ConfigsAssumption == Configs \subseteq PartitionConfig
ASSUME BoundsAssumption ==
    MaxAppends \in Nat /\ MaxClock \in Nat /\ MaxStall \in Nat

VARIABLES
    buf,           \* the PartitionBuffer
    clock,         \* the monotonic clock behind Instant
    history,       \* ghost: every message ever appended
    swept          \* ghost: the time the last eviction loop looked at

vars == << buf, clock, history, swept >>

Kinds == {"raw", "typed"}

Message ==
    [kind : Kinds, value : Values, offset : Nat, created_at : Nat]

Init ==
    /\ \E config \in Configs : buf = NewBuffer(config)
    /\ clock = 0
    /\ history = << >>
    /\ swept = 0

(* append / append_typed, which differ only in what they store; stall is   *)
(* how long the body takes between the creation stamp and the eviction.    *)
AppendMessage(kind, value, stall) ==
    /\ Len(history) < MaxAppends
    /\ clock + stall <= MaxClock
    /\ buf' = Appended(buf, kind, value, clock, clock + stall)
    /\ history' = Append(history,
                         StoredMessage(kind, value, buf.next_offset, clock))
    /\ clock' = clock + stall
    /\ swept' = clock + stall

append(value, stall) == AppendMessage("raw", value, stall)
append_typed(value, stall) == AppendMessage("typed", value, stall)

(* evict, the stand-alone sweep.                                           *)
evict ==
    /\ buf' = Evicted(buf, clock)
    /\ swept' = clock
    /\ UNCHANGED << clock, history >>

Tick ==
    /\ clock < MaxClock
    /\ clock' = clock + 1
    /\ UNCHANGED << buf, history, swept >>

Next ==
    \/ \E value \in Values, stall \in 0..MaxStall : append(value, stall)
    \/ \E value \in Values, stall \in 0..MaxStall : append_typed(value, stall)
    \/ evict
    \/ Tick

Spec == Init /\ [][Next]_vars

-----------------------------------------------------------------------------

TypeOK ==
    /\ buf.log \in Seq(Message)
    /\ buf.next_offset \in Nat
    /\ buf.max_capacity \in Nat
    /\ buf.policies \subseteq Policy
    /\ buf = [log          |-> buf.log,
              next_offset  |-> buf.next_offset,
              max_capacity |-> buf.max_capacity,
              policies     |-> buf.policies]
    /\ clock \in Nat /\ swept \in Nat
    /\ history \in Seq(Message)

(* The log is the tail of the history, and offsets count appends.          *)
LogIsSuffix ==
    /\ buf.next_offset = Len(history)
    /\ Len(buf.log) <= Len(history)
    /\ \A i \in 1..Len(buf.log) : buf.log[i] = history[OldestRetained(buf) + i]
    /\ \A i \in 1..Len(history) : history[i].offset = i - 1

(* Creation stamps never decrease along the history.                       *)
StampsOrdered ==
    /\ swept <= clock
    /\ \A i \in 1..Len(history) : history[i].created_at <= swept
    /\ \A i, j \in 1..Len(history) :
          i <= j => history[i].created_at <= history[j].created_at

(* The index arithmetic of read_one and read: whatever was evicted, a read *)
(* at a retained offset returns the message appended at that offset (and,  *)
(* for read, the ones after it up to max_count), a read at next_offset is  *)
(* empty, and any other is out of range, except that an emptied log also   *)
(* answers offset 0 with "nothing yet".                                    *)
ReadsMatchHistory ==
    \A offset \in -1..(Len(history) + 1) :
       LET retained == OldestRetained(buf) <= offset /\ offset < Len(history)
           empty    == \/ offset = Len(history)
                       \/ offset = 0 /\ buf.log = << >>
       IN  /\ read_one(buf, offset) =
                 IF retained THEN Ok(<< history[offset + 1] >>)
                 ELSE IF empty THEN Ok(<< >>) ELSE OutOfRange
           /\ \A max_count \in 0..(Len(history) + 1) :
                 read(buf, offset, max_count) =
                    IF retained
                    THEN Ok([i \in 1..(IF max_count < Len(history) - offset
                                       THEN max_count
                                       ELSE Len(history) - offset)
                                |-> history[offset + i]])
                    ELSE IF empty THEN Ok(<< >>) ELSE OutOfRange

(* The message counts a partition may not exceed: the capacity policy's    *)
(* limit and, because append pops at len >= max_capacity, one less than    *)
(* the buffer capacity.  The documents promise otherwise, of the buffer    *)
(* capacity and of retention.policy: see PartitionClaims.                  *)
Limits(b) ==
    {p.limit : p \in {q \in b.policies : q.policy = "capacity"}} \cup
    (IF b.max_capacity > 0 THEN {b.max_capacity - 1} ELSE {})

ExpiredAt(b, msg, now) ==
    \E p \in b.policies : p.policy = "time" /\ now - msg.created_at > p.limit

(* Retention is exact: a message is still in the log if and only if it is  *)
(* among the newest ones every limit allows and had not expired when the   *)
(* last eviction loop ran.  Nothing is dropped early and nothing overstays *)
(* a sweep, in any interleaving of appends, sweeps and passing time.       *)
RetentionExact ==
    \A offset \in 0..(Len(history) - 1) :
       offset >= OldestRetained(buf) <=>
          /\ \A limit \in Limits(buf) : offset >= Len(history) - limit
          /\ ~ ExpiredAt(buf, history[offset + 1], swept)

-----------------------------------------------------------------------------
(* The promise to readers, seen through read_one.                          *)

ReadableOffsets ==
    {o \in -1..(buf.next_offset + 1) : read_one(buf, o).messages # << >>}

Promise == INSTANCE RetainedLog
              WITH Messages <- Message,
                   history  <- history,
                   low      <- OldestRetained(buf),
                   readable <- [o \in ReadableOffsets |->
                                   read_one(buf, o).messages[1]]

(* Every step of the partition is an append, a trim from the old end, or   *)
(* invisible to readers.                                                   *)
ImplementsRetainedLog == Promise!Spec
=============================================================================
