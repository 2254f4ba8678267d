------------------------------- MODULE Broker --------------------------------
(***************************************************************************)
(* The way of a record from a producer into a partition: the send of the   *)
(* five producers (src/src/base_producer.rs, future_producer.rs,           *)
(* stream_producer.rs, typed.rs), Broker::produce and produce_typed        *)
(* (broker.rs), the in-memory backend (broker_backend.rs), and shutdown.   *)
(*                                                                         *)
(* No lock is held from one call to the next, so a send is a sequence of   *)
(* steps that others, and a shutdown, come between.  A test of a shutdown  *)
(* flag and a read of the topic map right after it are one step.  Topics   *)
(* are objects that a sender keeps a reference to after it has looked one  *)
(* up.  An Option is a set of at most one element.                         *)
(***************************************************************************)
EXTENDS Partitioner, PartitionLog, FiniteSets

CONSTANTS
    Senders,        \* threads, each with a producer
    ProducerOf,     \* the producer of each
    Topics,         \* topic names
    NumPartitions,  \* default.num.partitions
    Config,         \* the PartitionConfig of every partition
    Records,        \* the records applications send
    Strategies,     \* the partitioners a broker may be created with
    Builds,         \* "debug", "release": whether overflow panics
    Starts,         \* where its counter or generator may stand at first
    MaxSends        \* bound on the records sent

Option(S) == {o \in SUBSET S : \A x, y \in o : x = y}

BaseRecord == [topic : Topics, partition : Option(Int), key : Option(Keys)]

Producers == {"base", "future", "stream", "sink", "typed"}

ASSUME ProducerOfAssumption == ProducerOf \in [Senders -> Producers]
ASSUME RecordsAssumption == Records \subseteq BaseRecord
ASSUME PartitionsAssumption ==
    NumPartitions \in Int /\ 2 * NumPartitions <= Half
ASSUME StartsAssumption == Starts \subseteq SignedInt
ASSUME BrokerConfigAssumption == Config \in PartitionConfig

VARIABLES
    topics,         \* InMemoryInner.topics: name -> topic object
    heap,           \* the topic objects created: partition -> buffer
    shut,           \* the shutdown flags of the Broker and of its backend
    partitioner,    \* the broker's partitioner
    sender,         \* where each sender is in a send
    sent,           \* the records sent; a record's place is its identity
    results,        \* what send returned, by record
    reports,        \* the calls of ProducerContext::delivery
    picks,          \* ghost: counter and outcome of round-robin choices
    mayStore        \* ghost: records past the last test, or stored, and
                    \*        topics, likewise, when shutdown took effect

vars == << topics, heap, shut, partitioner, sender, sent, results, reports,
           picks, mayStore >>

-----------------------------------------------------------------------------

Idle == [pc |-> "idle"]

NewTopic == [p \in 0..(NumPartitions - 1) |-> NewBuffer(Config)]

(* Broker::new, with_partitioner.  Topics other than these may have been   *)
(* sent to before, so the partitioner stands anywhere.                     *)
Init ==
    /\ topics = [t \in {} |-> 0]
    /\ heap = << >>
    /\ shut = [broker |-> FALSE, backend |-> FALSE]
    /\ \E strategy \in Strategies, build \in Builds, start \in Starts :
          partitioner = [strategy |-> strategy, build |-> build, state |->
                            IF strategy = "random" THEN Seed(start) ELSE start]
    /\ sender = [s \in Senders |-> Idle]
    /\ sent = << >>
    /\ results = << >>
    /\ reports = << >>
    /\ picks = {}
    /\ mayStore = [records |-> {}, topics |-> {}]

Rec(s) == sent[sender[s].id]

Typed(s) == ProducerOf[s] = "typed"

(* The call goes on at pc, with what it holds by then.                     *)
Goto(s, pc) == sender' = [sender EXCEPT ![s].pc = pc]

(* produce returns: Ok with the record's metadata, or an error.            *)
RecordMetadata(topic, partition, offset) ==
    [topic |-> topic, partition |-> partition, offset |-> offset]

Outcome(s, meta, error) ==
    sender' = [sender EXCEPT ![s] = [pc |-> "return", id |-> @.id,
                                     meta |-> meta, error |-> error]]

Fail(s, error) == Outcome(s, {}, error)

-----------------------------------------------------------------------------
(* Broker::produce and produce_typed.                                      *)

(* An application sends a record.                                          *)
send(s, r) ==
    /\ sender[s] = Idle
    /\ Len(sent) < MaxSends
    /\ sent' = Append(sent, r)
    /\ sender' = [sender EXCEPT ![s] = [pc |-> "check", id |-> Len(sent) + 1]]
    /\ UNCHANGED << topics, heap, shut, partitioner, results, reports, picks,
                    mayStore >>

(* Broker::check_shutdown.                                                 *)
check_shutdown(s) ==
    /\ sender[s].pc = "check"
    /\ IF shut.broker THEN Fail(s, "BrokerShutdown") ELSE Goto(s, "ensure")
    /\ UNCHANGED << topics, heap, shut, partitioner, sent, results, reports,
                    picks, mayStore >>

(* Slip: the backend does not look at its flag.                            *)
BackendOpen_Always == TRUE

(* InMemoryBackend::check_shutdown.                                        *)
BackendOpen == ~ shut.backend

(* ensure_topic, under the read lock.                                      *)
ensure_topic(s) ==
    /\ sender[s].pc = "ensure"
    /\ IF ~ BackendOpen THEN Fail(s, "BrokerShutdown")
       ELSE Goto(s, IF Rec(s).topic \in DOMAIN topics THEN "metadata"
                    ELSE "create")
    /\ UNCHANGED << topics, heap, shut, partitioner, sent, results, reports,
                    picks, mayStore >>

(* Slip: the topic is inserted without looking again.                      *)
CreateTopic_NoRecheck(topic) ==
    /\ heap' = Append(heap, NewTopic)
    /\ topics' = [t \in DOMAIN topics \cup {topic} |->
                     IF t = topic THEN Len(heap) + 1 ELSE topics[t]]

(* ensure_topic, under the write lock: it looks again whether the topic    *)
(* is there, but not whether the backend has been shut down.               *)
CreateTopic(topic) ==
    IF topic \in DOMAIN topics THEN UNCHANGED << topics, heap >>
    ELSE /\ heap' = Append(heap, NewTopic)
         /\ topics' = [t \in DOMAIN topics \cup {topic} |->
                          IF t = topic THEN Len(heap) + 1 ELSE topics[t]]

create(s) ==
    /\ sender[s].pc = "create"
    /\ CreateTopic(Rec(s).topic)
    /\ Goto(s, "metadata")
    /\ UNCHANGED << shut, partitioner, sent, results, reports, picks,
                    mayStore >>

(* metadata, asked for the number of the topic's partitions.               *)
metadata(s) ==
    /\ sender[s].pc = "metadata"
    /\ IF ~ BackendOpen THEN Fail(s, "BrokerShutdown")
       ELSE sender' = [sender EXCEPT ![s] =
               [pc |-> "partition", id |-> @.id,
                n  |-> Cardinality(DOMAIN heap[topics[Rec(s).topic]])]]
    /\ UNCHANGED << topics, heap, shut, partitioner, sent, results, reports,
                    picks, mayStore >>

(* What a partitioner answers and becomes.  The key of a typed record is   *)
(* not passed to it.                                                       *)
KeyOf(s) == IF Typed(s) THEN {} ELSE Rec(s).key

RoundRobinPick(n) ==
    /\ partitioner' = [partitioner EXCEPT !.state = NextCounter(@, n)]
    /\ picks' = picks \cup
          {<< partitioner.state, RoundRobinPartition(partitioner.state, n) >>}

(* The partition is the record's own or the partitioner's choice.  abs of  *)
(* the least integer panics in a build with overflow checks; send unwinds  *)
(* and nothing is reported.                                                *)
partition(s) ==
    LET n   == sender[s].n
        own == Rec(s).partition
        key == KeyOf(s)
        On(p) == sender' = [sender EXCEPT ![s] =
                               [pc |-> "produce", id |-> @.id, p |-> p]]
    IN  /\ sender[s].pc = "partition"
        /\ \/ /\ own # {}
              /\ On(CHOOSE p \in own : TRUE)
              /\ UNCHANGED << partitioner, picks >>
           \/ /\ own = {}
              /\ partitioner.strategy = "consistent" /\ key # {}
              /\ On(ConsistentPartition(CHOOSE k \in key : TRUE, n))
              /\ UNCHANGED << partitioner, picks >>
           \/ /\ own = {}
              /\ \/ partitioner.strategy = "round_robin"
                 \/ partitioner.strategy = "consistent" /\ key = {}
              /\ On(RoundRobinPartition(partitioner.state, n))
              /\ RoundRobinPick(n)
           \/ /\ own = {}
              /\ partitioner.strategy = "random"
              /\ IF n > 0 /\ partitioner.build = "debug" /\ partitioner.state = -Half
                 THEN Outcome(s, {}, "panic")
                 ELSE On(RandomPartition(partitioner.state, n))
              /\ partitioner' = [partitioner EXCEPT !.state = NextRandom(@, n)]
              /\ UNCHANGED picks
        /\ UNCHANGED << topics, heap, shut, sent, results, reports, mayStore >>

(* The backend's produce tests its flag and takes a reference to the topic.*)
produce(s) ==
    /\ sender[s].pc = "produce"
    /\ IF ~ BackendOpen THEN Fail(s, "BrokerShutdown")
       ELSE sender' = [sender EXCEPT ![s] =
               [pc |-> "append", id |-> @.id, p |-> @.p,
                topic |-> topics[Rec(s).topic]]]
    /\ UNCHANGED << topics, heap, shut, partitioner, sent, results, reports,
                    picks, mayStore >>

(* Slip: reporting the next offset instead of the message's own.           *)
OffsetOf_Next(buf) == buf.next_offset + 1

(* The offset append takes for a message.                                  *)
OffsetOf(buf) == buf.next_offset

(* Topic::produce and produce_typed: get_partition, then append.           *)
append(s) ==
    LET at == sender[s]
    IN  /\ at.pc = "append"
        /\ IF at.p \in DOMAIN heap[at.topic]
           THEN /\ heap' = [heap EXCEPT ![at.topic][at.p] =
                               Appended(@, IF Typed(s) THEN "typed" ELSE "raw",
                                            at.id, 0, 0)]
                /\ Outcome(s, {RecordMetadata(Rec(s).topic, at.p,
                                              OffsetOf(heap[at.topic][at.p]))}, "")
           ELSE Fail(s, "PartitionOutOfRange") /\ UNCHANGED heap
        /\ UNCHANGED << topics, shut, partitioner, sent, results, reports,
                        picks, mayStore >>

-----------------------------------------------------------------------------
(* What the producers make of it.                                          *)

(* What send answers: whether the record is stored, where, and what the    *)
(* caller is given back of one that is not.                                *)
BaseAnswer(r, meta) ==
    [ok |-> meta # {}, meta |-> meta, back |-> IF meta = {} THEN {r} ELSE {}]

(* to_delivery_error: a failed record as an OwnedMessage, in which a       *)
(* partition left to the broker has become -1.                             *)
OwnedMessage(r) ==
    [topic |-> r.topic, key |-> r.key, offset |-> -1,
     partition |-> IF r.partition = {} THEN -1
                   ELSE CHOOSE p \in r.partition : TRUE]

FutureAnswer(r, meta) ==
    [BaseAnswer(r, meta) EXCEPT !.back = {OwnedMessage(x) : x \in @}]

(* StreamProducer::send sends a borrowed copy, so the record it was given  *)
(* is there to be returned; the sink forgets where the record went.        *)
StreamAnswer(r, meta) == BaseAnswer(r, meta)

SinkAnswer(r, meta) == [StreamAnswer(r, meta) EXCEPT !.meta = {}]

TypedAnswer(r, meta) == [BaseAnswer(r, meta) EXCEPT !.back = {}]

Answer(s) ==
    LET r    == Rec(s)
        meta == sender[s].meta
    IN  CASE ProducerOf[s] = "base"   -> BaseAnswer(r, meta)
          [] ProducerOf[s] = "future" -> FutureAnswer(r, meta)
          [] ProducerOf[s] = "stream" -> StreamAnswer(r, meta)
          [] ProducerOf[s] = "sink"   -> SinkAnswer(r, meta)
          [] ProducerOf[s] = "typed"  -> TypedAnswer(r, meta)

(* Slip: the callback is made for successes only.                          *)
Reported_OkOnly(s) ==
    IF Typed(s) \/ sender[s].meta = {} THEN reports
    ELSE Append(reports, [id |-> sender[s].id, meta |-> sender[s].meta])

(* BaseProducer::send calls back before it returns, and the producers      *)
(* built on it with it; the typed producer does not.                       *)
Reported(s) ==
    IF Typed(s) \/ sender[s].error = "panic" THEN reports
    ELSE Append(reports, [id |-> sender[s].id, meta |-> sender[s].meta])

Insert(f, x, y) == [z \in DOMAIN f \cup {x} |-> IF z = x THEN y ELSE f[z]]

return(s) ==
    /\ sender[s].pc = "return"
    /\ reports' = Reported(s)
    /\ results' = Insert(results, sender[s].id,
                     [by |-> s, error |-> sender[s].error,
                      answer |-> Answer(s)])
    /\ sender' = [sender EXCEPT ![s] = Idle]
    /\ UNCHANGED << topics, heap, shut, partitioner, sent, picks, mayStore >>

-----------------------------------------------------------------------------

(* Records in some partition of some topic object.                         *)
StoredIds ==
    UNION {UNION {{heap[t][p].log[i].value : i \in DOMAIN heap[t][p].log} :
                     p \in DOMAIN heap[t]} : t \in DOMAIN heap}

(* Broker::shutdown sets its flag, then the backend's.                     *)
shutdown ==
    /\ ~ shut.broker
    /\ shut' = [shut EXCEPT !.broker = TRUE]
    /\ UNCHANGED << topics, heap, partitioner, sender, sent, results, reports,
                    picks, mayStore >>

backend_shutdown ==
    /\ shut.broker /\ ~ shut.backend
    /\ shut' = [shut EXCEPT !.backend = TRUE]
    /\ mayStore' =
          [records |-> StoredIds \cup
              {sender[s].id : s \in {x \in Senders : sender[x].pc = "append"}},
           topics  |-> DOMAIN topics \cup
              {Rec(s).topic : s \in {x \in Senders : sender[x].pc = "create"}}]
    /\ UNCHANGED << topics, heap, partitioner, sender, sent, results, reports,
                    picks >>

Step(s) ==
    \/ check_shutdown(s)
    \/ ensure_topic(s)
    \/ create(s)
    \/ metadata(s)
    \/ partition(s)
    \/ produce(s)
    \/ append(s)
    \/ return(s)

Next ==
    \/ \E s \in Senders : Step(s) \/ \E r \in Records : send(s, r)
    \/ shutdown
    \/ backend_shutdown

Spec == Init /\ [][Next]_vars

-----------------------------------------------------------------------------

(* The topic map refers to topics there are, of the partitions configured. *)
TypeOK ==
    /\ DOMAIN topics \subseteq Topics
    /\ \A t \in DOMAIN topics : topics[t] \in DOMAIN heap
    /\ \A i \in DOMAIN heap : DOMAIN heap[i] = 0..(NumPartitions - 1)
    /\ partitioner.state \in SignedInt
    /\ DOMAIN results \subseteq DOMAIN sent

Acknowledged ==
    {<< reports[i].id, reports[i].meta >> : i \in DOMAIN reports} \cup
    {<< id, results[id].answer.meta >> : id \in DOMAIN results}

(* What a producer is told is where the record is: a reader of the topic   *)
(* now in the map finds, at the offset reported, that record (unless it    *)
(* has been evicted meanwhile), although the topic may have been created   *)
(* by a racing sender and others append to the same partition.             *)
AcknowledgedIsStored ==
    \A a \in Acknowledged : \A m \in a[2] :
       LET buf == heap[topics[m.topic]][m.partition]
       IN  /\ m.offset \in 0..(buf.next_offset - 1)
           /\ m.offset >= OldestRetained(buf) =>
                 buf.log[m.offset - OldestRetained(buf) + 1].value = a[1]

(* Of a record that is in a log, send did not say that it failed; and      *)
(* exactly one delivery callback told what send did, unless the producer   *)
(* is typed or the partitioner panicked.                                   *)
ToldTheTruth ==
    \A id \in DOMAIN results :
       LET told == {i \in DOMAIN reports : reports[i].id = id}
       IN  /\ id \in StoredIds => results[id].answer.ok
           /\ IF results[id].error = "panic" \/ Typed(results[id].by)
              THEN told = {} ELSE Cardinality(told) = 1
           /\ \A i \in told : results[id].answer.ok <=> reports[i].meta # {}

(* A partition chosen by the broker is one the topic has, also after the   *)
(* counters have wrapped around.                                           *)
ChosenPartitionExists ==
    NumPartitions > 0 =>
       \A id \in DOMAIN results :
          sent[id].partition = {} => results[id].error # "PartitionOutOfRange"

(* Round robin goes through the partitions in turn, whichever threads      *)
(* call it, and on negative counters as on positive ones.                  *)
PartitionsInTurn ==
    \A a, b \in picks :
       b[1] = a[1] + 1 => b[2] = (a[2] + 1) % NumPartitions

(* Once shutdown has taken effect, the records still stored are those of   *)
(* sends past their last test by then, one for each sender at most, and    *)
(* the topics still created likewise; no send that comes later succeeds.   *)
ShutdownStops ==
    shut.backend => /\ StoredIds \subseteq mayStore.records
                    /\ DOMAIN topics \subseteq mayStore.topics

(* The produce path implements the store it is meant to be.                *)
Store == INSTANCE TopicStore WITH
    Partitions <- 0..(NumPartitions - 1),
    ends <- [t \in DOMAIN topics |-> [p \in 0..(NumPartitions - 1) |->
                heap[topics[t]][p].next_offset]]

ImplementsTopicStore == Store!Spec
=============================================================================
