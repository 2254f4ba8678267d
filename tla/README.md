# A TLA+ verification project for RMemQueue

RMemQueue is an in-process message queue in the style of Kafka: producers
append to partitions of topics held by a broker, consumers poll them alone or
as members of a consumer group. This directory holds TLA+ modules that model
its core from the source in `src/src/`, TLC configurations that check them on
small instances, and proofs checked by TLAPS.

Line references are to files of the repository (`partition.rs` is
`src/src/partition.rs`). `PROJECT.json` maps every definition to the lines it
models.

## 1. The system

| Component | State | Operations | Talks to |
|---|---|---|---|
| Partition (`partition.rs`) | a deque of messages, `next_offset`, eviction policies, under one `RwLock` | `append`, `append_typed`, `read_one`, `read`, `watermarks`, `evict` | notifies waiting consumers |
| Topic (`topic.rs`) | a fixed vector of partitions | look-up and delegation | partitions |
| Backend (`broker_backend.rs`) | map of topics and a shutdown flag, under one `RwLock` | `ensure_topic`, `produce`, `fetch_one`, `watermarks`, `metadata`, `wait_for_messages`, `shutdown` | topics |
| Broker (`broker.rs`) | map of consumer groups and a second shutdown flag | `produce`, `fetch_one_from_position`, `join_group`, `leave_group`, `commit_offset`, `shutdown` | backend, groups, partitioner |
| Consumer group (`consumer_group.rs`, `partition_assignor.rs`) | members, their topics, assignments, under one `RwLock` | `join`, `leave`, `rebalance` | offset store |
| Offset store (`offset_store.rs`) | (group, topic, partition) to offset | `commit`, `committed` | |
| Consumer (`base_consumer.rs`, `consumer.rs`) | subscribed topics, assigned list, positions, paused set, `poll_start`, under one mutex | `poll`, `subscribe`, `unsubscribe`, `assign`, `seek`, `commit`, `commit_message`, `store_offset`, `pause`, `resume` | broker |
| Producers (`base_producer.rs`, `future_producer.rs`, `stream_producer.rs`, `typed.rs`) | a broker and a context | `send`, delivery callback | broker |
| Waiting consumers (`stream_consumer.rs`, `typed.rs`, the loop of `poll`) | wrap a consumer | `poll`, `recv`, `poll_next` | consumer, notification |
| Notification (`PartitionNotify`) | condition variable, tokio `Notify` | `notify`, `wait` | |
| Registry (`registry.rs`) | weak references to brokers by id | `get_or_create` | broker, configuration |
| Partitioners (`partitioner.rs`) | a counter or a generator, atomic | `partition` | |

Nothing is persistent, so there is no crash recovery; a "restart" of a consumer
is a new instance that joins the same group. There are no messages between
processes: components call each other, and everything hard comes from locks
that are released between the steps of a call.

What makes each part correct:

- **Partition.** Offsets count appends; a read returns the message appended at
  the offset; exactly the messages the limits allow are kept.
- **Group.** A partition has one owner at most, which subscribed to its topic;
  no partition of a joiner's topics is left out; shares are balanced.
- **Consumer.** Messages of a partition are delivered in order, once, and none
  that is still there is skipped, although `poll` holds no lock between reading
  a position, fetching, and advancing the position, and although messages are
  evicted meanwhile; no partition starves; a member takes over from another
  without loss.
- **Broker and producers.** A record is where its sender was told it is, and
  exactly the records acknowledged are stored, although the produce path holds
  no lock from its first test to its last; a shutdown takes hold.
- **Partitioners.** The partition chosen exists, also when a counter wraps.
- **Waiting.** A message that is there is received although signals can be
  lost, and a receiver with partitions to read comes to see a shutdown.
- **Registry.** Clients of one broker id share one broker.

The hard behaviours, each listed at its line under `hazards` in
`PROJECT.json`: eviction between the two halves of a fetch, positions that fall
out of the log, an emptied log whose oldest watermark is 0, several threads on
one consumer, lists of group members that later rebalances make stale, stale
partition counts, tests of a shutdown flag before the lock they
guard, signals given between a poll and a wait, counters at the end of their
integers, a look-up and an insertion under two locks.

## 2. The modules

| Module | Models | State and actions |
|---|---|---|
| `PartitionLog` | the buffer of a partition | operators on a buffer record; one per method |
| `RetainedLog` | what a partition promises | `history`, `low`, `readable`; `Publish`, `Trim` |
| `Partition` | a partition under concurrent use and a clock | `append`, `append_typed`, `evict`, `Tick` |
| `PartitionLogProofs`, `PartitionProofs` | | lemmas about appends and eviction; proofs about `Partition` |
| `GroupState` | `GroupState` and the round-robin assignor | operators on a group record |
| `ConsumerGroup` | a group and the calls it gets | `join`, `leave` |
| `ConsumerGroupProofs` | | proofs about `ConsumerGroup` |
| `BaseConsumer` | consumers, threads, topics, one group, committed offsets, shutdown | see below; composes `PartitionLog` and `GroupState` |
| `BaseConsumerProofs`, `ConsumerDeliveryProofs` | | proofs about `BaseConsumer`: types and kinds of steps; what consumers are given |
| `Partitioner` | the three partitioners | operators on the state of a partitioner, with integers of a width that is a parameter |
| `Broker` | the produce path, the producers on it, topics, shutdown | see below; composes `Partitioner` and `PartitionLog` |
| `TopicStore` | what the produce path promises | `ends`; `Create`, `Append` |
| `BrokerProofs` | | proofs about `Partitioner` and `Broker` |
| `Receive` | waiting for messages | see below |
| `ReceiveProofs` | | proofs about `Receive` |
| `Registry` | the registry, client configurations, the life of clients | `get_or_create`, `create_and_insert`, `clone`, `drop` |
| `RegistryProofs` | | proofs about `Registry` |
| `MCPartition`, `MCConsumer`, `MCGroupConsume`, `MCBroker`, `MCRegistry` | | the instances TLC checks |
| `ConsumerClaims`, `PartitionClaims`, `ReceiveClaims` | | documentation that the code does not meet |

An action of a model is what the code does under one lock, or a lock and the
ones taken while it is held. A partition's
methods hold its lock from beginning to end, so they are single steps and
appear as operators (`Appended`, `read_one`, ...). `evict_buffer`'s loop is the
number of rounds it makes (`EvictsExactly`) rather than a recursion; that the
number exists and is unique is the lemma `EvictionStops` and what surrounds it.
The loop reads the clock in each round; because stamps never decrease along the
log, reading only the last of those times stops at the same message, so there
is one `now` per loop.

In `BaseConsumer` a thread carries its place in a call and the local variables
that outlive a lock:

- `poll_once` is `BeginPoll` (length and start of the scan), then per element
  `Look` (element, position and pause under the mutex), `Resolve` (position, or
  the group's committed offset + 1), `Oldest` (first watermarks call), `Fetch`,
  and either `Record` (position and `poll_start` under the mutex; the message
  is returned), or `Readjust` and `Adjust` (second watermarks call, new
  position, next element), or the next element.
- With a `group.id`, `subscribe` is `subscribe_join` (the first topic is made
  sure of), one `EnsureTopic` per further topic, `EnterGroup` (the group is
  found or created under the broker's write lock), `JoinGroup`,
  `ApplyAssignment`; without one it is `subscribe_direct`, one `TopicMetadata`
  per topic, `ApplyAssignment`.
- `unsubscribe` is `unsubscribe` (counts are read), `LeaveGroup`, `ClearState`.
  `leave_group` holds the broker's lock for reading from the counts to the
  rebalance, as `fetch_one_from_position` does while it asks for the oldest
  offset of a member's partition: meanwhile (`ReadLocked`) nobody takes it for
  writing, so `EnterGroup` and the first step of `shutdown` wait.
- `commit` and `commit_message` are one `CommitNext` per element of the list,
  `seek` is a read of the broker and `SeekTo`; `assign`, `store_offset`, `pause`
  and `resume` are single steps.

A test of a shutdown flag belongs to the step it guards. A call that fails at
its first test changes nothing and is no step. `got`, `bypassed` and `stray`
record what was delivered; no guard reads them, except that an application
commits offsets it was given, or any offsets where `"commit any"` is among its
calls. `bypassed` counts the deliveries from elsewhere while a partition is
`Ready`: in the list, not paused, and with a message at the offset a poll would
ask for, which for a partition never served is the one after the committed
offset or the oldest one.

Offsets given to `seek`, `store_offset` and `commit` are integers of `Offsets`,
which the code does not restrict either: negative ones are among them. Lists
given to calls may name an element twice.

In `Broker` a sender goes through `send`, `check_shutdown` (the broker's flag),
`ensure_topic` (the backend's flag and the look under the read lock), `create`
(the second look and the insertion, under the write lock), `metadata`,
`partition`, `produce` (the flag again, and the reference to the topic),
`append` (partition look-up and append under the partition's lock) and
`return`, where the producer makes its delivery callback and gives its answer.
`shutdown` is two steps, one for each flag. A topic is an object in `heap` that
a sender can go on using after the map refers to another one, so a missing
second look would show. The base, future, stream, sink and typed producers
differ in what they hand back and in whether they call back. `picks` and
`mayStore` are ghosts.

In `Receive` a receiver is in `poll`, then asks for the notifies of its topics,
and waits: a thread (`BaseConsumer::poll`, and `TypedConsumer::poll` through it)
on a condition variable, a task (`recv`, `poll_next`) on one tokio `Notify`
after the other. `subscribe` may come at any time. Before the topic exists, and
after a shutdown, its metadata call fails, the failure is ignored and no
partition is assigned. `poll_next` first calls `notify_one` on each and polls
again. `notify` wakes those that wait now; only `notify_one` leaves something
behind (`permit`). A blocking wait spends all of its time on the first
partition, as the code does. `poll_once` is one step here and takes the first
partition with a message from `poll_start` on; that the lock-by-lock `poll_once`
delivers in that order and skips nothing is what `BaseConsumer` checks.

In `Registry` the brokers are numbers; a broker is alive while some client holds
it, which is what `Weak::upgrade` tests. The numeric configuration keys are one
key with a default, a few values and a text that does not parse.

## 3. What is checked

Runs that pass:

| Run | Checks | What it shows |
|---|---|---|
| `partition` | `ReadsMatchHistory`, `RetentionExact`, `ImplementsRetainedLog`, `TypeOK` | 36 configurations (every combination of buffer capacity 0 to 3, no, zero or one millisecond of retention, and no, zero or two messages of retention), four appends over three milliseconds: log, reads and eviction agree with the history of appends |
| `group` | `AssignmentsExclusive`, `SharesBalanced`, `JoinAlwaysCovers`, `TypeOK` | three members, two topics of four partitions, any subscriptions and any stale counts |
| `poll` | `DeliveredInOrder`, `SkippedOnlyIfEvicted`, `RoundRobin`, `EventuallyDelivered` | one thread, two partitions of three messages each that keep two messages for less than a millisecond, one re-subscription: logs are emptied and positions fall out of them; a partition with a message for the consumer, one not served before included, waits for at most one message of the other; under fairness every message that stays retained is delivered, unless a shutdown comes first |
| `group_consume` | `GroupLosesNothing`, `LeaveRedistributes` | two members, one of them used by two threads, up to three joins, leaves and commits of any messages consumed; either one topic of three messages, or two topics without any: no message is lost, and after a leave every partition of a remaining member's topics has an owner in the table, although the counts were read earlier. Without the lock that `leave_group` holds meanwhile this fails |
| `control` | `StopTakesHold`, `TypeOK` | two threads make every call on one consumer, including lists with partitions that do not exist and offsets -1 and 1; a partition paused, unsubscribed or assigned away gives at most one more message, to a poll under way |
| `broker` | `AcknowledgedIsStored`, `ToldTheTruth`, `ChosenPartitionExists`, `PartitionsInTurn`, `ShutdownStops`, `ImplementsTopicStore`, `TypeOK` | a future and a typed producer send three records, some to a partition there is not, to a topic that either creates, while the broker is shut down; three partitioners, both builds, counters where they wrap |
| `receive` | `EventuallyReceived`, `ShutdownEndsReceivers`, `TypeOK` | two receivers of all nine combinations of kinds, two partitions, two messages, a shutdown; the topic may be created after the subscription, and the subscription come after the shutdown. A receiver that has partitions assigned comes to see the shutdown |
| `registry` | `SharedUnlessRaced`, `TypeOK` | three clients, two ids, configurations with and without a valid value, three brokers |

Bounds. Every counter has one: `MaxAppends`, `MaxClock` and `MaxStall` in
`Partition`; `MaxProduced` (messages per partition), `MaxCalls` (calls other
than `poll`), `MaxList` (elements of a list given to a call) and `MaxClock` in
`BaseConsumer`; `MaxSends` in `Broker`;
`MaxProduced` (messages altogether) in `Receive`; `MaxBrokers` in `Registry`. A
position falls out of a log when more messages are appended behind it than the
log keeps, so the runs append at least one more than that, or (with a stalled
append in `poll`) empty the log under the consumer. Two calls are a
subscription and one more; three let both members subscribe and one commit or
leave. One partition is enough for loss within a group; for `RoundRobin` two are, since
a scan that begins at the partition just served passes the other one over twice,
and the theorem is about any number. In `broker` three records are what it takes
for an eviction under an acknowledged one, and integers of four bits
(`Half = 8`) wrap in the same places as those of 32; the proofs are for every
width. In `receive` two partitions make the difference between the one a
receiver waits on and the one that has the message. `group_consume` treats the
two threads of the shared consumer, and the two topics, as symmetric: they differ
in name only. Its constraint `OneTopicOrNoMessages` keeps it to behaviours where
messages are produced to one topic, or topics are created and nothing is
produced: what the table holds does not depend on messages.
Deadlock is not an error in the runs that say so: when the bounds are used up,
or all receivers have seen a shutdown, nothing is left to do.

Fairness. `FairSpec` of `BaseConsumer` has weak fairness of each thread's steps
(`poll` and the steps of a call under way): threads are scheduled by the
operating system, no lock is held across a wait, and an application loop calls
`poll` again. `FairSpec` of `Receive` has the same for receivers, whose steps
include the timeout of a wait (timers fire), and for the signals of a shutdown
that has begun. Nothing is assumed of producers, the clock, new calls, or who is
woken by `notify_one`.

Runs that find the documentation and the code apart (`findings` in
`PROJECT.json` quotes both):

| Run | What the code does |
|---|---|
| `claim_commit_message` | `commit_message` commits offset + 1 and a resuming member adds one more: a message is lost |
| `claim_handover` | after a leave the group's table changes but not the list any other member polls: the leaver's partition is served by nobody |
| `claim_registry` | two first clients of an id at the same time each create a broker, and the second insertion replaces the first |
| `claim_limits` | a buffer of capacity c holds c - 1 messages, and none with c = 1 (`partition.rs:176`); `retention.policy` is never consulted (`broker_backend.rs:102`), so limits drop messages under the policy `"none"` |

`claim_limits` is about `RetentionExact`: that one states the limits the code
applies, `LimitsAsDocumented` the documented ones. TLC stops at the first, at
the capacity of 1; with `buffer_capacity : {0}` in `PolicyNone` it shows the
second. The document `docs/api.md:179` already says of the policy that it is
only a configuration item for now.

Two more configurations refute sentences of the documentation and are not among
the runs of `PROJECT.json`:

| Configuration | What the code does |
|---|---|
| `ClaimJoin.cfg` (`ConsumerClaims`) | a join rebalances with the counts of the joiner's topics only (`broker.rs:407`), and the partitions of other members' topics lose their owners (`README.md:434`, of which `LeaveRedistributes` is the half that holds) |
| `ClaimShutdown.cfg` (`ReceiveClaims`) | `poll_once` without assigned partitions returns `None` before any test of the shutdown (`base_consumer.rs:200`): such a receiver waits on for ever (`broker.rs:341`). `ShutdownEndsReceivers` is what holds |

Read off the code while modelling, without a run of their own.

- Partitions. On a log emptied by retention `watermarks` returns (0, next - 1)
  although `broker.rs:328` speaks of the range of available messages.
- Groups. Each topic is dealt out from the first member on
  (`partition_assignor.rs:71`), so shares over several topics are uneven. Members
  that joined one after the other poll the same partition
  (`base_consumer.rs:364`).
- Consumers. Two threads polling one consumer take its position back and get a
  message twice (`base_consumer.rs:233`; `README.md:376` calls it monotonic). The
  clone of a consumer is in no group (`base_consumer.rs:299`), although
  its comment says it has the same configuration. `commit` stops at the first
  element that fails and leaves the ones before it committed
  (`base_consumer.rs:438`); only a shutdown makes it fail midway, after which
  nobody resumes from what was committed. `assign`, `pause`,
  `store_offset` and others succeed after a shutdown although `broker.rs:341`
  says every operation fails.
- Waiting. `recv` and `poll_next` wait for a signal of every partition, so a
  message can lie there until the timeout, 30 seconds for `recv`
  (`stream_consumer.rs:113`). The permits `poll_next` gives itself let its next
  wait end at once, so an idle stream polls in a busy loop.
- Producers. The key of a typed record is not given to the partitioner
  (`broker.rs:248`). A failed record left to the broker comes back from a
  `FutureProducer` with partition -1. In a build with overflow checks the random
  partitioner panics on the least integer (`partitioner.rs:140`), and all three
  overflow with more than 2^30 partitions.
- Registry. Without a `broker.id` `get_or_create` panics (`registry.rs:21`)
  although the message says the configuration has been validated. A broker found
  keeps the configuration of its first client; the others' is not even parsed.

## 4. What is proved

`PartitionProofs` (for every set of configurations, every payload and all
bounds):

- `PartitionTypeOK`, `PartitionRetention`, `PartitionReads`: `Spec => []` of
  `TypeOK`, `RetentionExact`, `ReadsMatchHistory`;
- `PartitionRefinesRetainedLog`: `Spec` implements `RetainedLog`.

The inductive invariant is `IndInv == TypeOK /\ LogIsSuffix /\ StampsOrdered /\
RetentionExact`. `RetentionExact` alone is not inductive: an eviction loop
stops at the first message that stays, so that nothing behind it should have
gone needs `StampsOrdered` (ages decrease along the log), and that the log
lines up with the history needs `LogIsSuffix`. The central lemma is
`SweepExact`: after a loop, a message is in the log exactly if the limits and
the time of the sweep allow it. The loop's count is obtained from `NatMinimum`
(a nonempty set of naturals has a least element), so no induction over
sequences is needed. Reads and the refinement then follow from `LogIsSuffix`
by index arithmetic.

`ConsumerGroupProofs` (for every set of integer member ids, every set of topics
and every number of partitions):

- `GroupTypeOK`, `GroupExclusive`, `GroupSharesBalanced`: `Spec => []` of
  `TypeOK`, `AssignmentsExclusive`, `SharesBalanced`;
- `GroupJoinCovers`: `Spec => JoinAlwaysCovers`.

The inductive invariant says that the assignments are what the assignor gives
for the current members and *some* set of known topics, which is all that stale
counts leave of the connection. Exclusiveness rests on `IndexInjective` (two
members have different indices), coverage on `IndexOnto` (an injection of a
finite set into one of the same size is onto). Balance is about residue classes:
the member with index i gets the partitions that are i modulo the number of
subscribers, and a class without its first number can be moved down into any
other one to one (`ClassesBalanced`), so no induction is needed.

The partitioners, in `BrokerProofs` (for every width of integer, every key set and hash, and
every number of partitions up to half the largest integer):

- `RoundRobinInRange`, `RandomInRange`, `ConsistentInRange`: the partition
  answered is one of those there are, for every state of the partitioner;
- `RoundRobinInTurn`: the next counter gives the next partition.

The argument is that reducing, adding n and reducing again does not leave the
integers (`ReducedRange`) and is the mathematical modulo (`RoundRobinIsMod`),
on negative counters too (`ModNegative`).

The produce path, in `BrokerProofs` (for any senders, producers, records, partition configuration
and bounds):

- `BrokerTypeOK`, `BrokerChoosesPartitions`, `BrokerPartitionsInTurn`:
  `Spec => []` of `TypeOK`, `ChosenPartitionExists`, `PartitionsInTurn`;
- `BrokerRefinesTopicStore`: `Spec` implements `TopicStore`.

The inductive invariant says what a sender knows at each step: that its topic is
in the map once `ensure_topic` is past, that the object it holds is the one in
the map, that a partition it was not given is one the topic has. None of it is
protected by a lock; it stays true because topics are only ever added (`Grows`,
`SenderFrame`). Different names have different objects, without which an append
could change the ends of two topics. The partition itself is seen through one
lemma, that an append adds one to `next_offset`.

The records, in `BrokerProofs` (likewise, and for any eviction):

- `BrokerAcknowledged`, `BrokerToldTheTruth`, `BrokerShutdownStops`:
  `Spec => []` of `AcknowledgedIsStored`, `ToldTheTruth`, `ShutdownStops`.

To the invariant above these add that every place a sender was told, or is about
to be, holds its record (`PlacedInv`); that a record in flight has one sender
and no result (`InFlightInv`), so that nothing is reported twice; that
whatever is stored has been acknowledged or is about to be (`StoredInv`); and
that after a shutdown only senders allowed to by then are at an append or a
creation (`LimitInv`). Offsets keep their messages because an append keeps the
end of the log with the new message at its back, whatever it evicts at the front
(`AppendedKeepsTheEnd` in `PartitionLogProofs`). The steps of the model fall into
few kinds (`Kinds`): a send that moves on, one that stores, one that creates,
one that returns; each part of the invariant is shown for those.

`RegistryProofs` (for any clients, ids, keys, values and bound):

- `RegistryTypeOK`, `RegistryShares`: `Spec => []` of `TypeOK`,
  `SharedUnlessRaced`.

`SharedUnlessRaced` needs `CreatesAlone`: while an id is not marked as raced, a
client that is creating its broker is the only one, and nobody holds another.

`BaseConsumerProofs` (for any consumers, finitely many threads, any topics,
partitions, members and eviction):

- `ConsumerTypeOK`: `Spec => []TypeOK`, with any integers as offsets of `seek`,
  `store_offset` and `commit`.

The inductive invariant `TypeInv` says what a thread carries from one lock to
the next at each place of a call, and that a buffer's messages have consecutive
offsets that end at `next_offset`. Positions are integers, but an offset that
was found in a log, or taken from its watermarks, is a natural number. The last
part, `ReadyInv`, is about the ghost: only a partition that is `Ready` has been
passed over. The proof is by action, and yields more than
types: `StepKinds` says that every step is one of the world `Outside` (produce,
clock, shutdown), of which consumers notice only that logs grow and drop their
oldest messages (`TopicsGrow`), a step of `poll_once` (`PollGoes`, with what it
read and where it goes on), or another step of one thread (`Other`). Everything
below is shown for these kinds instead of for the actions.

`ConsumerDeliveryProofs` (likewise):

- `ConsumerStopTakesHold`: `Spec => []StopTakesHold`, without hypotheses;
- `ConsumerSkipsOnlyEvicted`: `Spec => []SkippedOnlyIfEvicted`, if the
  application does not call `seek` or `store_offset`;
- `GroupHandsOver`: `Spec => []GroupLosesNothing`, if it does not call these nor
  `commit_message`, and commits offsets it was given only;
- `ConsumerDeliversInOrder`: `Spec => []DeliveredInOrder`, if every consumer is
  called from one thread, and without `seek`, `store_offset`, `assign` and
  `unsubscribe`;
- `ConsumerRoundRobin`: `Spec => []RoundRobin`, if every consumer is called from
  one thread.

The hypotheses are the conditions under which the code keeps the promise, not
conveniences. `seek` and `store_offset` set the position to what the application
says, and so skip or repeat on demand; `assign` and `unsubscribe` forget
positions, after which messages come again. `commit_message` does lose messages
(run `claim_commit_message`). Two threads on one consumer do get messages twice
(section 3), but, as `ConsumerSkipsOnlyEvicted` shows, they miss none. The runs
`poll` and `group_consume` satisfy the hypotheses.

The arguments:

- `StopInv`: for a partition that was taken away, the messages delivered since
  and the threads that are past the test of the list are together fewer than the
  consumer's threads. The call that takes it away occupies one thread, which is
  where the bound comes from.
- `CoverInv`: every offset from which someone may go on (position, offset held
  by a thread, committed offset, offset about to be committed) has behind it
  only messages that were delivered, to the consumer or to a member of its
  group, or were dropped. `SkippedOnlyIfEvicted` itself speaks of delivered
  messages only and is not inductive: a position read before an eviction and
  used after it has to be accounted for.
- `OrderInv`: after a delivery, the offset a consumer would go on with is larger
  than the one delivered, or the partition has dropped everything up to that
  one. The second case is needed: on a log emptied by retention the oldest
  watermark is 0 and `Adjust` takes the position back; it does no harm because
  what is then read is what is still there.
- `RingInv`: a partition passed over, served before or not, is in the list at a distance from
  `poll_start` that, with the deliveries it was passed over for, stays below the
  length of the list; a scan under way has settled everything it went past, and
  the offset it holds of a partition that waits is below the end of the log
  (`BelowStays`), so a fetch returns a message, or finds it evicted and the
  count begins anew with the adjusted position, but is never told that there is
  nothing.
  Each delivery moves `poll_start` behind the partition served, so the distance
  shrinks by at least as much as the count grows.

`ReceiveProofs` (for any receivers of any kinds, partitions and messages):

- `ReceiveTypeOK`: `Spec => []TypeOK`: the walks over the partitions' signals
  and the cursor of the scan stay among the partitions, a receiver scans a topic
  only once it exists, and is never handed more than was appended. `FairSpec`,
  which the run uses, implies `Spec`.

The assumptions are those named in the modules. That a number of partitions is
a natural number is, in `ConsumerGroup`, an assumption on the configuration: the
code parses any `i32`, and a topic with a negative number has no partitions;
`Broker` allows it. `Partitioner` and `Broker` assume that twice the number of
partitions fits into an integer. `BaseConsumer` assumes finitely many threads,
and `Receive` at least one partition.

Only model-checked: liveness (`EventuallyDelivered`, `EventuallyReceived`,
`ShutdownEndsReceivers`), which needs fairness and is out of the prover's reach,
and `LeaveRedistributes`. Every invariant and every other action property of a
passing run, and both refinements, are theorems; those about delivery under the
hypotheses above.

## 5. The plan, and what is not modelled

The plan's modules are written and its theorems proved. What could still be
proved is how far `ConsumerDeliversInOrder` reaches when the position is moved
by hand: between two such moves the argument is the same, but `got` would have
to be cut there.

Not modelled:

- Backends an application brings along (`Broker::with_backend`): the trait says
  nothing of them that could be checked. The in-memory one is modelled.
- More than 2^30 partitions, where the partitioners overflow.
- The individual configuration keys, and the configurations of consumers and
  producers, which are read once and decide nothing after that but the limits
  and the `group.id`, which are parameters.
- Contexts, errors, builders, headers and metadata listings, which keep no state
  or are plain data.

Also left out: the contents of messages, keys and headers, user timestamps,
formatting and logging, none of which decides what the modelled operations do.
Offsets are plain integers: those of messages grow by one per append and cannot
reach the limit of `i64`; that an application seeks or commits within one of the
largest `i64`, where `committed + 1` overflows, is left out. So are empty lists
given to `subscribe` and `commit`, and lists longer than two.
