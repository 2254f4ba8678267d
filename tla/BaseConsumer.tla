---------------------------- MODULE BaseConsumer -----------------------------
(***************************************************************************)
(* Consumers of one broker (src/src/base_consumer.rs) with the parts of    *)
(* the broker they talk to: topics of partitions, one consumer group and   *)
(* its committed offsets (src/src/broker.rs, broker_backend.rs, topic.rs,  *)
(* consumer_group.rs, offset_store.rs).                                    *)
(*                                                                         *)
(* An application calls a consumer from threads.  A call holds no lock     *)
(* from beginning to end, so it is as many steps as it takes locks: poll   *)
(* reads the consumer's state under its mutex, asks the broker, and only   *)
(* then takes the mutex again to record what it got.  A flag test by       *)
(* check_shutdown belongs to the step it guards.  The waiting between two  *)
(* rounds of poll_once in poll changes nothing and is left out: a poll is  *)
(* any number of rounds.                                                   *)
(*                                                                         *)
(* A topic-partition is a pair << topic, partition >>, a list of them a    *)
(* sequence, an Option a set of at most one element.                       *)
(***************************************************************************)
EXTENDS PartitionLog, FiniteSets, Functions

CONSTANTS
    Consumers,      \* consumer instances; integers, as member ids are sorted
    Grouped,        \* those configured with the (one) group.id
    Threads,        \* application threads
    UserOf,         \* the consumer each thread calls
    Topics,         \* topic names
    NumPartitions,  \* default.num.partitions
    Config,         \* the PartitionConfig of every partition
    Calls,          \* the calls the application makes
    Offsets,        \* the offsets it passes to them
    MaxCalls,       \* bound on calls other than poll
    MaxList,        \* bound on the length of the lists it passes
    MaxProduced,    \* bound on the messages of one partition
    MaxClock        \* bound on the clock

Group == INSTANCE GroupState

ASSUME ConsumersAssumption ==
    Consumers \subseteq Int /\ Grouped \subseteq Consumers
ASSUME ThreadsAssumption ==
    IsFiniteSet(Threads) /\ UserOf \in [Threads -> Consumers]
ASSUME OffsetsAssumption == Offsets \subseteq Int
ASSUME ConfigAssumption  == Config \in PartitionConfig
ASSUME BoundsAssumption ==
    {NumPartitions, MaxCalls, MaxList, MaxProduced, MaxClock} \subseteq Nat

VARIABLES
    topics,         \* InMemoryInner.topics: topic -> partition -> buffer
    shut,           \* the shutdown flags of the Broker and of its backend
    clock,
    group,          \* the group's state, and whether it has been created
    committed,      \* the offset store's entries of the group
    state,          \* consumer -> ConsumerState
    thread,         \* thread -> where it is in a call
    got,            \* ghost: consumer -> tp -> the offsets poll returned
    bypassed,       \* ghost: consumer -> tp -> deliveries from elsewhere since
                    \*        tp has had a message for the consumer
    stray,          \* ghost: consumer -> tp -> deliveries since tp was paused
                    \*        or dropped from the assignment
    calls           \* calls made so far, except polls

vars == << topics, shut, clock, group, committed, state, thread,
           got, bypassed, stray, calls >>
broker == << topics, shut, clock, group, committed >>
ghosts == << got, bypassed, stray >>

(* The pairs an application can name: the last partition does not exist.   *)
AnyTP == Topics \X (0..NumPartitions)

Last(s) == s[Len(s)]

-----------------------------------------------------------------------------
(* The backend.                                                            *)

get_topic(topic) == topic \in DOMAIN topics

(* get_partition, of a topic that must be there.                           *)
get_partition(tp) == tp[2] \in DOMAIN topics[tp[1]]

Known(tp) == get_topic(tp[1]) /\ get_partition(tp)

Buffer(tp) == topics[tp[1]][tp[2]]

NewTopic == [p \in 0..(NumPartitions - 1) |-> NewBuffer(Config)]

(* ensure_topic for each topic of a set: what exists stays as it is.       *)
ensure_topic(ts) ==
    [t \in DOMAIN topics \cup ts |->
        IF get_topic(t) THEN topics[t] ELSE NewTopic]

Retained(tp, offset) ==
    /\ Known(tp)
    /\ OldestRetained(Buffer(tp)) <= offset
    /\ offset < Buffer(tp).next_offset

-----------------------------------------------------------------------------

NewConsumer == [subscribed_topics   |-> << >>,
                assigned_partitions |-> << >>,
                position            |-> Group!EmptyMap,
                paused              |-> {},
                poll_start          |-> 0]

Idle == [pc |-> "idle"]

PerPair(x) == [c \in Consumers |-> [tp \in AnyTP |-> x]]

Init ==
    /\ topics = Group!EmptyMap
    /\ shut = [broker |-> FALSE, backend |-> FALSE]
    /\ clock = 0
    /\ group = [exists |-> FALSE, state |-> Group!NewGroup]
    /\ committed = Group!EmptyMap
    /\ state = [c \in Consumers |-> NewConsumer]
    /\ thread = [t \in Threads |-> Idle]
    /\ got = PerPair(<< >>)
    /\ bypassed = PerPair(0)
    /\ stray = PerPair(0)
    /\ calls = 0

(* A thread makes a call other than poll.                                  *)
Call(t, name) ==
    /\ thread[t] = Idle
    /\ name \in Calls
    /\ calls < MaxCalls
    /\ calls' = calls + 1

Go(t, next) == thread' = [thread EXCEPT ![t] = next]

(* The consumer is to be given messages of tp.                             *)
Wanted(c, tp) == tp \in Range(c.assigned_partitions) \ c.paused

(* The group's committed offset counts for a consumer without a position.  *)
Resumes(c, tp) == c \in Grouped /\ group.exists /\ tp \in DOMAIN committed

(* The offset a poll of consumer c would ask for: its position or, of a    *)
(* partition it has not been served from, the one after the committed      *)
(* offset, or else the oldest.                                             *)
NextOffset(c, tp) ==
    IF tp \in DOMAIN state[c].position THEN state[c].position[tp]
    ELSE IF Resumes(c, tp) THEN committed[tp] + 1
    ELSE watermarks(Buffer(tp)).oldest

(* tp could be delivered to the consumer right now.                        *)
Ready(c, tp) ==
    /\ Wanted(state[c], tp)
    /\ Retained(tp, NextOffset(c, tp))

(* After a step that may leave partitions without a message for a          *)
(* consumer: their count is over.                                          *)
Recount ==
    bypassed' = [c \in Consumers |->
                    [tp \in AnyTP |-> IF Ready(c, tp)' THEN bypassed[c][tp]
                                      ELSE 0]]

(* The thread holds its consumer's mutex and leaves new as its state.      *)
SetState(t, new) ==
    /\ state' = [state EXCEPT ![UserOf[t]] = new]
    /\ stray' = [stray EXCEPT ![UserOf[t]] =
                    [tp \in AnyTP |-> IF Wanted(new, tp) THEN 0 ELSE @[tp]]]

(* The consumer's list is replaced: its partitions count afresh.           *)
Moved(t) == bypassed' = [bypassed EXCEPT ![UserOf[t]] = [tp \in AnyTP |-> 0]]

-----------------------------------------------------------------------------
(* Producers and the clock.                                                *)

(* Topic::produce and, in the backend, the topic it is called on.  stall   *)
(* is the time append takes between stamping the message and looking for   *)
(* expired ones.                                                           *)
topic_produce(partitions, p, stall) ==
    [partitions EXCEPT ![p] = Appended(@, "raw", 0, clock, clock + stall)]

backend_produce(known, tp, stall) ==
    [known EXCEPT ![tp[1]] = topic_produce(@, tp[2], stall)]

(* Broker::produce and produce_typed, which differ in what is stored only. *)
(* The topic is created even if the partition named does not exist, in     *)
(* which case nothing is appended.                                         *)
produce(tp, stall) ==
    LET known == ensure_topic({tp[1]})
    IN  /\ "produce" \in Calls
        /\ ~ shut.broker /\ ~ shut.backend
        /\ IF tp[2] \in DOMAIN known[tp[1]]
           THEN /\ known[tp[1]][tp[2]].next_offset < MaxProduced
                /\ clock + stall <= MaxClock
                /\ topics' = backend_produce(known, tp, stall)
                /\ clock' = clock + stall
           ELSE /\ stall = 0
                /\ topics' = known
                /\ UNCHANGED clock
        /\ UNCHANGED << shut, group, committed, state, thread, got, stray,
                        calls >>
        /\ Recount

Tick ==
    /\ clock < MaxClock
    /\ clock' = clock + 1
    /\ UNCHANGED << topics, shut, group, committed, state, thread, ghosts,
                    calls >>

(* A thread holds the broker's lock for reading while it asks the backend: *)
(* leave_group, and fetch_one_from_position for a member of a group.       *)
ReadLocked ==
    \E t \in Threads : \/ thread[t].pc = "leave"
                       \/ thread[t].pc = "oldest" /\ UserOf[t] \in Grouped

(* Broker::shutdown sets the broker's flag, then the backend's.            *)
shutdown ==
    /\ "shutdown" \in Calls
    /\ shut.broker \/ ~ ReadLocked
    /\ shut' = IF shut.broker THEN [shut EXCEPT !.backend = TRUE]
               ELSE [shut EXCEPT !.broker = TRUE]
    /\ shut' # shut
    /\ UNCHANGED << topics, clock, group, committed, state, thread, ghosts,
                    calls >>

-----------------------------------------------------------------------------
(* poll_once: a scan of the assigned partitions, one at a time.            *)

(* A thread in the middle of a scan of len elements that started at index  *)
(* start: it is at the i-th, the pair tp, and at is the offset it holds.   *)
Scan(pc, start, len, i, tp, at) ==
    [pc |-> pc, start |-> start, len |-> len, i |-> i, tp |-> tp, at |-> at]

At(s, pc, tp, at) == Scan(pc, s.start, s.len, s.i, tp, at)

(* "continue" in the for loop.                                             *)
NextElement(s) ==
    IF s.i + 1 < s.len THEN Scan("look", s.start, s.len, s.i + 1, << >>, {})
    ELSE Idle

ScanIndex(s) == (s.start + s.i) % s.len

(* With nothing assigned poll_once returns at once and changes nothing.    *)
BeginPoll(t) ==
    LET c   == state[UserOf[t]]
        len == Len(c.assigned_partitions)
    IN  /\ "poll" \in Calls
        /\ thread[t] = Idle
        /\ len > 0
        /\ Go(t, Scan("look", c.poll_start % len, len, 0, << >>, {}))
        /\ UNCHANGED << broker, state, ghosts, calls >>

(* Slip: not looking whether the partition is paused.                      *)
Skipped_NoPause(c, s) == ScanIndex(s) >= Len(c.assigned_partitions)

(* The element is passed over: the list has become shorter since the scan  *)
(* began, or the partition is paused.                                      *)
Skipped(c, s) ==
    \/ ScanIndex(s) >= Len(c.assigned_partitions)
    \/ c.assigned_partitions[ScanIndex(s) + 1] \in c.paused

(* The mutex is held to read the element, its position and its pause.      *)
Look(t) ==
    LET c  == state[UserOf[t]]
        s  == thread[t]
        tp == c.assigned_partitions[ScanIndex(s) + 1]
    IN  /\ s.pc = "look"
        /\ Go(t, IF Skipped(c, s) THEN NextElement(s)
                 ELSE At(s, "resolve", tp,
                         IF tp \in DOMAIN c.position THEN {c.position[tp]} ELSE {}))
        /\ UNCHANGED << broker, state, ghosts, calls >>

(* fetch_one_from_position picks the offset: the position, the one after   *)
(* the group's committed offset, or the oldest in the partition.           *)
Resolve(t) ==
    LET s      == thread[t]
        resume == Resumes(UserOf[t], s.tp)
    IN  /\ s.pc = "resolve"
        /\ Go(t, CASE shut.broker -> Idle
                   [] ~ shut.broker /\ s.at # {} -> At(s, "fetch", s.tp, s.at)
                   [] ~ shut.broker /\ s.at = {} /\ resume ->
                         At(s, "fetch", s.tp, {committed[s.tp] + 1})
                   [] ~ shut.broker /\ s.at = {} /\ ~ resume ->
                         At(s, "oldest", s.tp, {}))
        /\ UNCHANGED << broker, state, ghosts, calls >>

(* What a call of the backend for s.tp makes of the scan: a shut-down      *)
(* backend ends the poll with an error, a topic or partition that does not *)
(* exist is passed over, otherwise next goes on.                           *)
AskBackend(s, next) ==
    IF shut.backend THEN Idle
    ELSE IF ~ Known(s.tp) THEN NextElement(s)
    ELSE next

(* backend.watermarks, for the offset to start from.                       *)
Oldest(t) ==
    LET s == thread[t]
    IN  /\ s.pc = "oldest"
        /\ Go(t, AskBackend(s, At(s, "fetch", s.tp,
                                  {watermarks(Buffer(s.tp)).oldest})))
        /\ UNCHANGED << broker, state, ghosts, calls >>

(* backend.fetch_one: a message, nothing yet, or out of range.             *)
Fetch(t) ==
    LET s      == thread[t]
        offset == CHOOSE o \in s.at : TRUE
        answer == read_one(Buffer(s.tp), offset)
    IN  /\ s.pc = "fetch"
        /\ Go(t, AskBackend(s,
                    IF ~ answer.ok THEN At(s, "readjust", s.tp, {})
                    ELSE IF answer.messages = << >> THEN NextElement(s)
                    ELSE At(s, "record", s.tp, {answer.messages[1].offset})))
        /\ UNCHANGED << broker, state, ghosts, calls >>

(* Slip: resuming at the end of the log after falling out of it.           *)
Readjust_Newest(t) ==
    LET s == thread[t]
    IN  /\ s.pc = "readjust"
        /\ Go(t, AskBackend(s, At(s, "adjust", s.tp,
                                  {watermarks(Buffer(s.tp)).newest})))
        /\ UNCHANGED << broker, state, ghosts, calls >>

(* The second watermarks call, after an offset that was out of range.      *)
Readjust(t) ==
    LET s == thread[t]
    IN  /\ s.pc = "readjust"
        /\ Go(t, AskBackend(s, At(s, "adjust", s.tp,
                                  {watermarks(Buffer(s.tp)).oldest})))
        /\ UNCHANGED << broker, state, ghosts, calls >>

(* Slip: going on without storing the adjusted offset.                     *)
Adjust_Forgets(t) ==
    LET s == thread[t]
    IN  /\ s.pc = "adjust"
        /\ Go(t, NextElement(s))
        /\ bypassed' = [bypassed EXCEPT ![UserOf[t]][s.tp] = 0]
        /\ UNCHANGED << broker, state, got, stray, calls >>

(* The OffsetOutOfRange arm: take the adjusted offset as position and go   *)
(* on with the next partition, so that the one adjusted misses its turn.   *)
Adjust(t) ==
    LET s == thread[t]
        c == state[UserOf[t]]
    IN  /\ s.pc = "adjust"
        /\ SetState(t, [c EXCEPT !.position =
                           Group!Insert(@, s.tp, CHOOSE o \in s.at : TRUE)])
        /\ Go(t, NextElement(s))
        /\ bypassed' = [bypassed EXCEPT ![UserOf[t]][s.tp] = 0]
        /\ UNCHANGED << broker, got, calls >>

(* poll hands the message at offset to the application.                    *)
Deliver(c, tp, offset) ==
    /\ got' = [got EXCEPT ![c][tp] = Append(@, offset)]
    /\ bypassed' = [bypassed EXCEPT ![c] =
                       [q \in AnyTP |-> IF q # tp /\ Ready(c, q)
                                        THEN @[q] + 1 ELSE 0]]
    /\ stray' = IF Wanted(state[c], tp) THEN stray
                ELSE [stray EXCEPT ![c][tp] = @ + 1]

(* Slip: keeping the offset of the message just read as the position.      *)
Recorded_SameOffset(c, s, offset) ==
    [c EXCEPT !.position = Group!Insert(@, s.tp, offset),
              !.poll_start = ScanIndex(s) + 1]

(* Slip: starting the next scan at the partition just served.              *)
Recorded_StartHere(c, s, offset) ==
    [c EXCEPT !.position = Group!Insert(@, s.tp, offset + 1),
              !.poll_start = ScanIndex(s)]

(* Slip: starting the next scan one partition too early.                   *)
Recorded_StartBefore(c, s, offset) ==
    [c EXCEPT !.position = Group!Insert(@, s.tp, offset + 1),
              !.poll_start = ScanIndex(s) - 1]

Recorded(c, s, offset) ==
    [c EXCEPT !.position = Group!Insert(@, s.tp, offset + 1),
              !.poll_start = ScanIndex(s) + 1]

(* The message arm: the mutex is taken again to advance the position and   *)
(* the place where the next scan starts, and the poll returns.             *)
Record(t) ==
    LET s      == thread[t]
        offset == CHOOSE o \in s.at : TRUE
    IN  /\ s.pc = "record"
        /\ state' = [state EXCEPT ![UserOf[t]] = Recorded(@, s, offset)]
        /\ Deliver(UserOf[t], s.tp, offset)
        /\ Go(t, Idle)
        /\ UNCHANGED << broker, calls >>

poll(t) ==
    \/ BeginPoll(t)
    \/ Look(t)
    \/ Resolve(t)
    \/ Oldest(t)
    \/ Fetch(t)
    \/ Readjust(t)
    \/ Adjust(t)
    \/ Record(t)

-----------------------------------------------------------------------------
(* Subscribing.                                                            *)

Ascending(topic) == [i \in 1..NumPartitions |-> << topic, i - 1 >>]

(* The lists the assignor may return for a set of pairs: it goes through   *)
(* the topics in the order of a HashSet, through partitions in ascending   *)
(* order.                                                                  *)
ListsOf(S) ==
    {l \in [1..Cardinality(S) -> S] :
        /\ Range(l) = S
        /\ \A i, j \in DOMAIN l : i < j /\ l[i][1] = l[j][1] =>
              /\ l[i][2] < l[j][2]
              /\ \A k \in i..j : l[k][1] = l[i][1]}

(* subscribe, with a group.id: join_group makes sure that the topics exist,*)
(* one after the other.                                                    *)
Ensured(ts, todo) ==
    IF todo = << >> THEN [pc |-> "enter", topics |-> ts]
    ELSE [pc |-> "ensure", topics |-> ts, todo |-> todo]

subscribe_join(t, ts) ==
    /\ Call(t, "subscribe")
    /\ UserOf[t] \in Grouped
    /\ ~ shut.broker /\ ~ shut.backend
    /\ topics' = ensure_topic({Head(ts)})
    /\ Go(t, Ensured(ts, Tail(ts)))
    /\ UNCHANGED << shut, clock, group, committed, state, got, stray >>
    /\ Recount

EnsureTopic(t) ==
    LET s == thread[t]
    IN  /\ s.pc = "ensure"
        /\ IF shut.backend
           THEN UNCHANGED topics /\ Go(t, Idle)
           ELSE /\ topics' = ensure_topic({Head(s.todo)})
                /\ Go(t, Ensured(s.topics, Tail(s.todo)))
        /\ UNCHANGED << shut, clock, group, committed, state, got, stray,
                        calls >>
        /\ Recount

(* Slip: not waiting for those who read the broker's groups.               *)
EnterGroup_NoWait(t) ==
    /\ thread[t].pc = "enter"
    /\ group' = [group EXCEPT !.exists = TRUE]
    /\ Go(t, [pc |-> "join", topics |-> thread[t].topics])
    /\ UNCHANGED << topics, shut, clock, committed, state, got, stray, calls >>
    /\ Recount

(* The group is looked up, or created, under the broker's write lock.      *)
EnterGroup(t) ==
    /\ thread[t].pc = "enter"
    /\ ~ ReadLocked
    /\ group' = [group EXCEPT !.exists = TRUE]
    /\ Go(t, [pc |-> "join", topics |-> thread[t].topics])
    /\ UNCHANGED << topics, shut, clock, committed, state, got, stray, calls >>
    /\ Recount

(* The rest of join_group: partition counts of the joiner's own topics,    *)
(* then ConsumerGroup::join, which returns the assignment it computed.     *)
JoinGroup(t) ==
    LET c      == UserOf[t]
        ts     == Range(thread[t].topics)
        joined == Group!Joined(group.state, c, ts,
                               [topic \in ts |-> NumPartitions])
    IN  /\ thread[t].pc = "join"
        /\ IF shut.backend
           THEN UNCHANGED group /\ Go(t, Idle)
           ELSE /\ group' = [group EXCEPT !.state = joined]
                /\ \E list \in ListsOf(joined.assignments[c]) :
                      Go(t, [pc |-> "apply", topics |-> thread[t].topics,
                             list |-> list])
        /\ UNCHANGED << topics, shut, clock, committed, state, ghosts, calls >>

(* subscribe, without a group.id: metadata is asked for one topic at a     *)
(* time, and a topic for which it fails is left out.                       *)
subscribe_direct(t, ts) ==
    /\ Call(t, "subscribe")
    /\ UserOf[t] \notin Grouped
    /\ Go(t, [pc |-> "metadata", topics |-> ts, todo |-> ts, list |-> << >>])
    /\ UNCHANGED << broker, state, ghosts >>

TopicMetadata(t) ==
    LET s     == thread[t]
        topic == Head(s.todo)
        found == ~ shut.broker /\ ~ shut.backend /\ get_topic(topic)
        list  == IF found THEN s.list \o Ascending(topic) ELSE s.list
    IN  /\ s.pc = "metadata"
        /\ Go(t, IF Tail(s.todo) = << >>
                 THEN [pc |-> "apply", topics |-> s.topics, list |-> list]
                 ELSE [s EXCEPT !.todo = Tail(@), !.list = list])
        /\ UNCHANGED << broker, state, ghosts, calls >>

(* subscribe ends by taking over the assignment; positions and pauses of   *)
(* earlier assignments stay.                                               *)
ApplyAssignment(t) ==
    LET s == thread[t]
    IN  /\ s.pc = "apply"
        /\ SetState(t, [state[UserOf[t]] EXCEPT !.subscribed_topics = s.topics,
                                                !.assigned_partitions = s.list])
        /\ Moved(t)
        /\ Go(t, Idle)
        /\ UNCHANGED << broker, got, calls >>

(* unsubscribe.  leave_group fails, and unsubscribe with it, when the      *)
(* broker is shut down or the group was never created; the counts it       *)
(* passes on are those of the topics that exist when it looks, and until   *)
(* it has passed them on nobody gets the broker's write lock.              *)
unsubscribe(t) ==
    /\ Call(t, "unsubscribe")
    /\ IF UserOf[t] \in Grouped
       THEN /\ ~ shut.broker /\ group.exists /\ ~ shut.backend
            /\ Go(t, [pc |-> "leave", known |-> DOMAIN topics])
       ELSE Go(t, [pc |-> "clear"])
    /\ UNCHANGED << broker, state, ghosts >>

LeaveGroup(t) ==
    /\ thread[t].pc = "leave"
    /\ group' = [group EXCEPT !.state =
                    Group!Left(@, UserOf[t],
                               [topic \in thread[t].known |-> NumPartitions])]
    /\ Go(t, [pc |-> "clear"])
    /\ UNCHANGED << topics, shut, clock, committed, state, ghosts, calls >>

ClearState(t) ==
    /\ thread[t].pc = "clear"
    /\ SetState(t, [NewConsumer EXCEPT !.poll_start =
                       state[UserOf[t]].poll_start])
    /\ Moved(t)
    /\ Go(t, Idle)
    /\ UNCHANGED << broker, got, calls >>

(* assign replaces the list and forgets every position.                    *)
assign(t, list) ==
    /\ Call(t, "assign")
    /\ SetState(t, [state[UserOf[t]] EXCEPT !.assigned_partitions = list,
                                            !.position = Group!EmptyMap])
    /\ Moved(t)
    /\ UNCHANGED << broker, thread, got >>

-----------------------------------------------------------------------------
(* Positions, commits and pauses.                                          *)

TailOffset(next_offset, tail) ==
    IF next_offset - tail > 0 THEN next_offset - tail ELSE 0

(* The offset a seek aims at; Stored is taken as it was committed.         *)
SeekTarget(c, tp, where) ==
    CASE where.kind = "Beginning" -> watermarks(Buffer(tp)).oldest
      [] where.kind = "End" -> watermarks(Buffer(tp)).newest + 1
      [] where.kind = "Offset" -> where.n
      [] where.kind = "Stored" ->
            IF c \in Grouped /\ tp \in DOMAIN committed THEN committed[tp] ELSE 0
      [] where.kind = "OffsetTail" ->
            TailOffset(watermarks(Buffer(tp)).newest + 1, where.n)

(* What each kind of seek needs to succeed.                                *)
SeekAllowed(c, tp, where) ==
    CASE where.kind \in {"Beginning", "End", "OffsetTail"} ->
            ~ shut.backend /\ Known(tp)
      [] where.kind = "Stored" ->
            c \in Grouped => ~ shut.broker /\ group.exists
      [] where.kind = "Offset" -> TRUE

seek(t, tp, where) ==
    /\ Call(t, "seek")
    /\ SeekAllowed(UserOf[t], tp, where)
    /\ Go(t, [pc |-> "seek", tp |-> tp, at |-> SeekTarget(UserOf[t], tp, where)])
    /\ UNCHANGED << broker, state, ghosts >>

SetPosition(t, tp, offset) ==
    /\ SetState(t, [state[UserOf[t]] EXCEPT !.position =
                       Group!Insert(@, tp, offset)])

SeekTo(t) ==
    /\ thread[t].pc = "seek"
    /\ SetPosition(t, thread[t].tp, thread[t].at)
    /\ Go(t, Idle)
    /\ UNCHANGED << broker, got, calls >>
    /\ Recount

store_offset(t, tp, offset) ==
    /\ Call(t, "store_offset")
    /\ SetPosition(t, tp, offset)
    /\ UNCHANGED << broker, thread, got >>
    /\ Recount

pause(t, tps) ==
    /\ Call(t, "pause")
    /\ SetState(t, [state[UserOf[t]] EXCEPT !.paused = @ \cup tps])
    /\ UNCHANGED << broker, thread, got >>
    /\ Recount

resume(t, tps) ==
    /\ Call(t, "resume")
    /\ SetState(t, [state[UserOf[t]] EXCEPT !.paused = @ \ tps])
    /\ UNCHANGED << broker, thread, got >>
    /\ Recount

(* commit goes through a list of pairs with offsets; without a group.id it *)
(* does nothing.                                                           *)
commit(t, list) ==
    /\ Call(t, "commit")
    /\ UserOf[t] \in Grouped
    /\ Go(t, [pc |-> "commit", todo |-> list])
    /\ UNCHANGED << broker, state, ghosts >>

(* commit_message commits the offset after the message's.                  *)
commit_message(t, tp, offset) ==
    /\ Call(t, "commit_message")
    /\ UserOf[t] \in Grouped
    /\ Go(t, [pc |-> "commit", todo |-> << << tp, offset + 1 >> >>])
    /\ UNCHANGED << broker, state, ghosts >>

(* Slip: storing the offset to continue with where the one consumed is     *)
(* expected.                                                               *)
commit_offset_Next(tp, offset) ==
    committed' = Group!Insert(committed, tp, offset + 1)

(* OffsetStore::commit: the last write wins.                               *)
commit_offset(tp, offset) ==
    committed' = Group!Insert(committed, tp, offset)

(* One element of the list.  An error ends the call and leaves the         *)
(* elements before it committed.                                           *)
CommitNext(t) ==
    LET todo == thread[t].todo
    IN  /\ thread[t].pc = "commit"
        /\ IF shut.broker \/ ~ group.exists
           THEN UNCHANGED committed /\ Go(t, Idle)
           ELSE /\ commit_offset(Head(todo)[1], Head(todo)[2])
                /\ Go(t, IF Tail(todo) = << >> THEN Idle
                         ELSE [pc |-> "commit", todo |-> Tail(todo)])
        /\ UNCHANGED << topics, shut, clock, group, state, got, stray, calls >>
        /\ Recount

-----------------------------------------------------------------------------
(* The arguments applications pass.                                        *)

(* Lists of elements of S, which may occur more than once.                 *)
ShortLists(S) == UNION {[1..n -> S] : n \in 1..MaxList}

SeekTargets ==
    [kind : {"Beginning", "End", "Stored"}, n : {0}] \cup
    [kind : {"Offset", "OffsetTail"}, n : Offsets]

(* Offsets of the messages a consumer got.                                 *)
Consumed(c) ==
    UNION {{<< tp, offset >> : offset \in Range(got[c][tp])} : tp \in AnyTP}

(* What an application commits with commit: offsets it consumed, or, where *)
(* "commit any" is among its calls, whatever it likes.                     *)
Committable(c) ==
    IF "commit any" \in Calls THEN AnyTP \X Offsets ELSE Consumed(c)

-----------------------------------------------------------------------------

(* A step of a call under way.                                             *)
Continue(t) ==
    \/ EnsureTopic(t)
    \/ EnterGroup(t)
    \/ JoinGroup(t)
    \/ TopicMetadata(t)
    \/ ApplyAssignment(t)
    \/ LeaveGroup(t)
    \/ ClearState(t)
    \/ SeekTo(t)
    \/ CommitNext(t)

Start(t) ==
    \/ \E ts \in ShortLists(Topics) : subscribe_join(t, ts)
    \/ \E ts \in ShortLists(Topics) : subscribe_direct(t, ts)
    \/ unsubscribe(t)
    \/ \E list \in ShortLists(AnyTP) \cup {<< >>} : assign(t, list)
    \/ \E tp \in AnyTP, where \in SeekTargets : seek(t, tp, where)
    \/ \E tp \in AnyTP, offset \in Offsets : store_offset(t, tp, offset)
    \/ \E tp \in AnyTP : pause(t, {tp})
    \/ \E tp \in AnyTP : resume(t, {tp})
    \/ \E list \in ShortLists(Committable(UserOf[t])) : commit(t, list)
    \/ \E tp \in AnyTP : \E offset \in Range(got[UserOf[t]][tp]) :
          commit_message(t, tp, offset)

Next ==
    \/ \E t \in Threads : poll(t) \/ Continue(t) \/ Start(t)
    \/ \E tp \in AnyTP, stall \in 0..1 : produce(tp, stall)
    \/ Tick
    \/ shutdown

Spec == Init /\ [][Next]_vars

(* Every thread that can goes on with its call, and keeps polling: the     *)
(* operating system runs every thread and no lock is held for ever.        *)
Fairness == \A t \in Threads : WF_vars(poll(t) \/ Continue(t))

FairSpec == Spec /\ Fairness

-----------------------------------------------------------------------------

TypeOK ==
    /\ DOMAIN topics \subseteq Topics
    /\ DOMAIN committed \subseteq AnyTP
    /\ \A tp \in DOMAIN committed : committed[tp] \in Int
    /\ group.state.members \subseteq Grouped
    /\ \A c \in Consumers :
          /\ state[c].assigned_partitions \in Seq(AnyTP)
          /\ state[c].paused \subseteq AnyTP
          /\ DOMAIN state[c].position \subseteq AnyTP
          /\ \A tp \in DOMAIN state[c].position : state[c].position[tp] \in Int
          /\ state[c].poll_start \in Nat

(* A consumer called from one thread that never moves its position itself  *)
(* gets the messages of a partition in order and none of them twice,       *)
(* whatever is evicted meanwhile: even when its position falls back to 0   *)
(* on a log that has been emptied, and across re-subscriptions.            *)
DeliveredInOrder ==
    \A c \in Consumers, tp \in AnyTP : \A i, j \in DOMAIN got[c][tp] :
       i < j => got[c][tp][i] < got[c][tp][j]

(* It skips a message only if the message is gone.                         *)
SkippedOnlyIfEvicted ==
    \A c \in Consumers \ Grouped, tp \in AnyTP :
       got[c][tp] # << >> =>
          \A offset \in 0..Last(got[c][tp]) :
             Retained(tp, offset) => offset \in Range(got[c][tp])

(* poll is fair to partitions: from when there is a message that poll      *)
(* would return from a partition, one it has never been served from        *)
(* included, it gets its turn before there have been as many deliveries    *)
(* from others as the consumer's list has elements.  The count starts anew *)
(* when the list is replaced or the position set: by the application, or   *)
(* by a poll that found it evicted.                                        *)
RoundRobin ==
    \A c \in Consumers, tp \in AnyTP :
       bypassed[c][tp] = 0 \/
       bypassed[c][tp] < Len(state[c].assigned_partitions)

(* Members of a group that commit the offsets they consumed hand over      *)
(* without loss: past a retained message no member has got, no member has  *)
(* got anything, in whatever way they join, leave and commit.              *)
GroupLosesNothing ==
    \A tp \in AnyTP, c \in Grouped : \A i \in DOMAIN got[c][tp] :
       \A offset \in 0..got[c][tp][i] :
          Retained(tp, offset) =>
             \E d \in Grouped : offset \in Range(got[d][tp])

(* Every partition of the topics that members subscribed to has an owner   *)
(* in the group's table.                                                   *)
TableCovers ==
    \A m \in group.state.members : \A topic \in group.state.member_topics[m] :
       \A p \in 0..(NumPartitions - 1) :
          \E n \in group.state.members :
             << topic, p >> \in group.state.assignments[n]

(* A leave leaves none of them without an owner, although it rebalances    *)
(* with partition counts it read earlier and others create topics and join *)
(* meanwhile.                                                              *)
LeaveRedistributes == [][\A t \in Threads : LeaveGroup(t) => TableCovers']_vars

(* Once pause, assign, subscribe or unsubscribe has taken a partition from *)
(* a consumer, every other thread that is in the middle of a poll delivers *)
(* at most one more of its messages, even from a list that has changed.    *)
StopTakesHold ==
    \A c \in Consumers, tp \in AnyTP :
       stray[c][tp] = 0 \/
       stray[c][tp] < Cardinality({t \in Threads : UserOf[t] = c})

(* A retained message of an assigned partition that is not paused is       *)
(* eventually returned by poll, unless it is evicted first or the consumer *)
(* stops consuming the partition.                                          *)
EventuallyDelivered ==
    \A c \in Consumers \ Grouped, tp \in AnyTP,
       offset \in 0..(MaxProduced - 1) :
       (tp \in Range(state[c].assigned_partitions) /\ Retained(tp, offset))
          ~> \/ offset \in Range(got[c][tp])
             \/ ~ Retained(tp, offset)
             \/ ~ Wanted(state[c], tp)
             \/ shut.broker
=============================================================================
