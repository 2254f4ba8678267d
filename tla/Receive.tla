------------------------------- MODULE Receive -------------------------------
(***************************************************************************)
(* How a consumer waits for messages: PartitionNotify (src/src/            *)
(* partition.rs), wait_for_messages (broker_backend.rs), the loop of       *)
(* BaseConsumer::poll (base_consumer.rs), StreamConsumer::recv and         *)
(* MessageStream::poll_next (stream_consumer.rs), TypedConsumer::poll      *)
(* (typed.rs).                                                             *)
(*                                                                         *)
(* A receiver is a thread or task with a consumer of its own that wants    *)
(* every message of one topic.  Its poll_once is one step here: module     *)
(* BaseConsumer takes it apart, with eviction, for consumers that do not   *)
(* wait.  append signals while it holds the partition's lock, so appending *)
(* and signalling are one step.                                            *)
(*                                                                         *)
(* A tokio Notify has at most one stored permit.  notify_waiters reaches   *)
(* those that wait now and stores nothing; notify_one wakes one of them    *)
(* or, when nobody waits, stores the permit for the next that comes.       *)
(***************************************************************************)
EXTENDS Integers, Sequences, Functions

CONSTANTS
    Receivers,
    NumPartitions,
    MaxProduced     \* bound on the messages appended

ASSUME NumPartitionsAssumption == NumPartitions \in Nat \ {0}

Partitions == 0..(NumPartitions - 1)

(* BaseConsumer::poll and TypedConsumer::poll, which calls it; recv;       *)
(* poll_next.                                                              *)
Kinds == {"poll", "recv", "stream"}

VARIABLES
    kind,           \* receiver -> how it receives
    created,        \* whether the topic exists
    log,            \* partition -> how many messages it has
    shut,           \* the broker's shutdown flag
    toSignal,       \* partitions shutdown has still to signal
    permit,         \* partition -> whether its Notify stores a permit
    assigned,       \* "none", "topic only" or "all" the partitions
    poll_start,     \* where the next scan starts
    got,            \* receiver -> partition -> how many it was handed
    receiver        \* where each receiver is

vars == << kind, created, log, shut, toSignal, permit, assigned, poll_start,
           got, receiver >>

(* The blocking waits, on condition variables; the others are tasks.       *)
Blocking(r) == kind[r] = "poll"

At(pc, k) == [pc |-> pc, k |-> k]

Init ==
    /\ kind \in [Receivers -> Kinds]
    /\ created = FALSE
    /\ log = [p \in Partitions |-> 0]
    /\ shut = FALSE
    /\ toSignal = << >>
    /\ permit = [p \in Partitions |-> FALSE]
    /\ assigned = [r \in Receivers |-> "none"]
    /\ poll_start = [r \in Receivers |-> 0]
    /\ got = [r \in Receivers |-> [p \in Partitions |-> 0]]
    /\ receiver = [r \in Receivers |-> At("poll", 0)]

-----------------------------------------------------------------------------
(* Signals.                                                                *)

(* Slip: one partition too many.                                           *)
Past_OneMore(r, k) ==
    IF ~ Blocking(r) /\ k < NumPartitions THEN At("register", k + 1)
    ELSE At("poll", 0)

(* The receiver has been signalled by partition k.  A task awaits one      *)
(* partition after the other, all of them; a blocking wait is over.        *)
Past(r, k) ==
    IF ~ Blocking(r) /\ k + 1 < NumPartitions THEN At("register", k + 1)
    ELSE At("poll", 0)

(* PartitionNotify::notify: notify_all and notify_waiters.                 *)
notify(k) ==
    receiver' = [r \in Receivers |->
                    IF receiver[r] = At("wait", k) THEN Past(r, k)
                    ELSE receiver[r]]

(* Notify::notify_one, by receiver r, which goes on at next.               *)
notify_one(r, k, next) ==
    LET waiting == {w \in Receivers : /\ ~ Blocking(w)
                                      /\ receiver[w] = At("wait", k)}
    IN  IF waiting = {}
        THEN /\ permit' = [permit EXCEPT ![k] = TRUE]
             /\ receiver' = [receiver EXCEPT ![r] = next]
        ELSE /\ \E w \in waiting :
                   receiver' = [receiver EXCEPT ![w] = Past(w, k), ![r] = next]
             /\ UNCHANGED permit

(* A producer creates the topic if need be, and appends.                   *)
append(k) ==
    /\ ~ shut
    /\ FoldFunction(LAMBDA x, y : x + y, 0, log) < MaxProduced
    /\ created' = TRUE
    /\ log' = [log EXCEPT ![k] = @ + 1]
    /\ notify(k)
    /\ UNCHANGED << kind, shut, toSignal, permit, assigned, poll_start, got >>

(* Broker::shutdown, and the signals the backend's shutdown gives in turn. *)
shutdown ==
    /\ ~ shut
    /\ shut' = TRUE
    /\ toSignal' = IF created THEN [i \in 1..NumPartitions |-> i - 1] ELSE << >>
    /\ UNCHANGED << kind, created, log, permit, assigned, poll_start, got,
                    receiver >>

Signal ==
    /\ toSignal # << >>
    /\ notify(Head(toSignal))
    /\ toSignal' = Tail(toSignal)
    /\ UNCHANGED << kind, created, log, shut, permit, assigned, poll_start,
                    got >>

-----------------------------------------------------------------------------
(* Receivers.                                                              *)

Goto(r, next) == receiver' = [receiver EXCEPT ![r] = next]

(* subscribe without a group, at any time.  The name is kept, but no       *)
(* partition is assigned when metadata fails: of a topic that does not     *)
(* exist, or by a broker that is shut down.                                *)
subscribe(r) ==
    /\ assigned' = [assigned EXCEPT ![r] =
                       IF created /\ ~ shut THEN "all" ELSE "topic only"]
    /\ UNCHANGED << kind, created, log, shut, toSignal, permit, poll_start, got,
                    receiver >>

Unread(r) ==
    {p \in Partitions : assigned[r] = "all" /\ got[r][p] < log[p]}

(* Of the partitions in S the first a scan comes to.                       *)
FirstFrom(start, S) ==
    CHOOSE p \in S : \A q \in S :
       (p - start) % NumPartitions <= (q - start) % NumPartitions

(* Slip: an error of the broker is taken for "nothing there".              *)
PollFails_Never(r) == FALSE

(* A scan of at least one partition meets the shutdown flag.               *)
PollFails(r) == shut /\ assigned[r] = "all"

(* The next message of partition p is returned: detached by a task, or, by *)
(* TypedConsumer::poll, turned into an error when it holds raw bytes,      *)
(* which counts as received all the same.                                  *)
HandOver(r, p) == got' = [got EXCEPT ![r][p] = @ + 1]

(* poll_once, and what its caller does next: return to the application,    *)
(* which calls again unless it was given the broker's error, or go on to   *)
(* next when there is nothing.                                             *)
poll_once(r, next) ==
    \/ /\ PollFails(r)
       /\ Goto(r, At("done", 0))
       /\ UNCHANGED << poll_start, got >>
    \/ /\ ~ PollFails(r)
       /\ Unread(r) # {}
       /\ LET p == FirstFrom(poll_start[r], Unread(r))
          IN  /\ HandOver(r, p)
              /\ poll_start' = [poll_start EXCEPT ![r] =
                                   (p + 1) % NumPartitions]
       /\ Goto(r, At("poll", 0))
    \/ /\ ~ PollFails(r)
       /\ Unread(r) = {}
       /\ Goto(r, next)
       /\ UNCHANGED << poll_start, got >>

poll(r) ==
    /\ receiver[r].pc = "poll"
    /\ poll_once(r, At("topics", 0))
    /\ UNCHANGED << kind, created, log, shut, toSignal, permit, assigned >>

(* get_partition_notifies of the subscribed topics.  With none a thread    *)
(* sleeps and a task yields; otherwise a stream first signals itself.  A    *)
(* shutdown signals under the lock that is needed here.                    *)
get_partition_notifies(r) ==
    /\ receiver[r].pc = "topics"
    /\ toSignal = << >>
    /\ Goto(r, IF assigned[r] # "none" /\ created
               THEN At(IF kind[r] = "stream" THEN "nudge" ELSE "register", 0)
               ELSE At(IF Blocking(r) THEN "sleep" ELSE "poll", 0))
    /\ UNCHANGED << kind, created, log, shut, toSignal, permit, assigned,
                    poll_start, got >>

(* poll_next calls notify_one for each partition and polls once more.      *)
nudge(r) ==
    LET k == receiver[r].k
    IN  /\ receiver[r].pc = "nudge"
        /\ notify_one(r, k, IF k + 1 < NumPartitions THEN At("nudge", k + 1)
                            ELSE At("poll again", 0))
        /\ UNCHANGED << kind, created, log, shut, toSignal, assigned,
                        poll_start, got >>

(* If that finds nothing either, a task is spawned that waits and then     *)
(* wakes the stream.                                                       *)
poll_again(r) ==
    /\ receiver[r].pc = "poll again"
    /\ poll_once(r, At("register", 0))
    /\ UNCHANGED << kind, created, log, shut, toSignal, permit, assigned >>

(* The wait on partition k begins.  notified() takes a stored permit; a    *)
(* condition variable remembers nothing.                                   *)
register(r) ==
    LET k == receiver[r].k
    IN  /\ receiver[r].pc = "register"
        /\ IF ~ Blocking(r) /\ permit[k]
           THEN /\ permit' = [permit EXCEPT ![k] = FALSE]
                /\ Goto(r, Past(r, k))
           ELSE /\ Goto(r, At("wait", k))
                /\ UNCHANGED permit
        /\ UNCHANGED << kind, created, log, shut, toSignal, assigned,
                        poll_start, got >>

(* Slip: tasks wait for the signal alone.                                  *)
timeout_BlockingOnly(r) ==
    /\ receiver[r].pc \in {"wait", "sleep"}
    /\ Blocking(r)
    /\ Goto(r, At("poll", 0))
    /\ UNCHANGED << kind, created, log, shut, toSignal, permit, assigned,
                    poll_start, got >>

(* 10 milliseconds of a blocking wait (all of them spent on the first      *)
(* partition, so that none are left for the others), 30 seconds of recv,   *)
(* 100 milliseconds of a stream are over.                                  *)
timeout(r) ==
    /\ receiver[r].pc \in {"wait", "sleep"}
    /\ Goto(r, At("poll", 0))
    /\ UNCHANGED << kind, created, log, shut, toSignal, permit, assigned,
                    poll_start, got >>

Step(r) ==
    \/ poll(r)
    \/ get_partition_notifies(r)
    \/ nudge(r)
    \/ poll_again(r)
    \/ register(r)
    \/ timeout(r)

Next ==
    \/ \E r \in Receivers : Step(r) \/ subscribe(r)
    \/ \E k \in Partitions : append(k)
    \/ shutdown
    \/ Signal

Spec == Init /\ [][Next]_vars

(* Threads and tasks are scheduled, timers fire, and a shutdown that has   *)
(* begun runs to its end.  Nothing is assumed of producers.                *)
Fairness == (\A r \in Receivers : WF_vars(Step(r))) /\ WF_vars(Signal)

FairSpec == Spec /\ Fairness

-----------------------------------------------------------------------------

TypeOK ==
    /\ \A r \in Receivers :
          /\ receiver[r].pc \in {"poll", "topics", "nudge", "poll again",
                                 "register", "wait", "sleep", "done"}
          /\ receiver[r].k \in Partitions
          /\ poll_start[r] \in Partitions
          /\ assigned[r] = "all" => created
          /\ \A p \in Partitions : got[r][p] \in 0..log[p]
    /\ permit \in [Partitions -> BOOLEAN]

(* Signals may be lost (given between a receiver's poll and its wait, or   *)
(* by a partition it does not wait on), taken by another receiver, or      *)
(* given by a stream to itself: a receiver still catches up with the       *)
(* partitions it was assigned, unless the broker is shut down.             *)
EventuallyReceived ==
    \A r \in Receivers :
       assigned[r] = "all" ~> (shut \/ Unread(r) = {})

(* A receiver that has partitions does not outlive a shutdown: however it  *)
(* waits, it comes to see the broker's error, unless it subscribes again   *)
(* and so loses its partitions.  One without partitions asks the broker    *)
(* nothing and waits for ever: see ReceiveClaims.                          *)
ShutdownEndsReceivers ==
    \A r \in Receivers :
       (shut /\ assigned[r] = "all")
          ~> (receiver[r].pc = "done" \/ assigned[r] # "all")
=============================================================================
