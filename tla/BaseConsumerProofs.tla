------------------------- MODULE BaseConsumerProofs --------------------------
(***************************************************************************)
(* The consumers' types, for any number of consumers, threads, topics and  *)
(* partitions and for any eviction, and the kinds of steps there are: a    *)
(* step of the world outside, a step of poll_once, or another step of a    *)
(* thread's call.  TypeInv is inductive; TypeOK says nothing of the lists, *)
(* offsets and buffers that a thread carries from one lock to the next,    *)
(* which is where the types of the next step come from.                    *)
(***************************************************************************)
EXTENDS BaseConsumer, PartitionLogProofs, FiniteSetTheorems

-----------------------------------------------------------------------------
(* Type correctness.                                                       *)

BufferOK(b) ==
    /\ {"log", "next_offset"} \subseteq DOMAIN b
    /\ \E M : b.log \in Seq(M)
    /\ b.next_offset \in Nat
    /\ Len(b.log) <= b.next_offset
    /\ \A i \in 1..Len(b.log) : b.log[i].offset = OldestRetained(b) + i - 1

TopicsInv ==
    /\ DOMAIN topics \subseteq Topics
    /\ \A topic \in DOMAIN topics :
          /\ DOMAIN topics[topic] = 0..(NumPartitions - 1)
          /\ \A p \in 0..(NumPartitions - 1) : BufferOK(topics[topic][p])

OffsetMap(m) == DOMAIN m \subseteq AnyTP /\ \A tp \in DOMAIN m : m[tp] \in Int

GroupInv ==
    /\ {"exists", "state"} \subseteq DOMAIN group
    /\ {"members", "member_topics", "assignments"} \subseteq DOMAIN group.state
    /\ group.state.members \subseteq Grouped

ConsumerOK(c) ==
    /\ DOMAIN c = {"subscribed_topics", "assigned_partitions", "position",
                   "paused", "poll_start"}
    /\ c.assigned_partitions \in Seq(AnyTP)
    /\ c.paused \subseteq AnyTP
    /\ OffsetMap(c.position)
    /\ c.poll_start \in Nat

StateInv ==
    /\ DOMAIN state = Consumers
    /\ \A c \in Consumers : ConsumerOK(state[c])

(* Threads that hold an element of the list they scan.                     *)
InScan == {"resolve", "oldest", "fetch", "readjust", "adjust", "record"}

Scanning == InScan \cup {"look"}

PCs == {"idle", "look", "ensure", "enter", "join", "apply", "metadata", "leave",
        "clear", "seek", "commit"} \cup InScan

(* An offset an application may have given, and one a log has given.       *)
Offset(at) == \E o \in Int : at = {o}
Found(at) == \E o \in Nat : at = {o}

ThreadOK(t, s) ==
    /\ s.pc \in PCs
    /\ s.pc \in Scanning =>
          s.start \in Nat /\ s.len \in Nat \ {0} /\ s.i \in Nat
    /\ s.pc \in InScan => s.tp \in AnyTP
    /\ s.pc = "fetch" => Offset(s.at)
    /\ s.pc \in {"adjust", "record"} => Found(s.at)
    /\ s.pc = "resolve" => s.at = {} \/ Offset(s.at)
    /\ s.pc \in {"ensure", "enter", "join", "apply", "metadata"} =>
          s.topics \in Seq(Topics)
    /\ s.pc = "ensure" => s.todo \in Seq(Topics) /\ s.todo # << >>
    /\ s.pc \in {"apply", "metadata"} => s.list \in Seq(AnyTP)
    /\ s.pc = "metadata" =>
          /\ s.todo \in Seq(Topics) /\ s.todo # << >>
          /\ DOMAIN s = {"pc", "topics", "todo", "list"}
    /\ s.pc \in {"ensure", "enter", "join"} => UserOf[t] \in Grouped
    /\ s.pc = "seek" => s.tp \in AnyTP /\ s.at \in Int /\ "seek" \in Calls
    /\ s.pc \in {"leave", "clear"} => "unsubscribe" \in Calls
    /\ s.pc = "commit" => s.todo \in Seq(AnyTP \X Int) /\ s.todo # << >>

ThreadInv ==
    /\ DOMAIN thread = Threads
    /\ \A t \in Threads : ThreadOK(t, thread[t])

GhostInv ==
    /\ got \in [Consumers -> [AnyTP -> Seq(Nat)]]
    /\ bypassed \in [Consumers -> [AnyTP -> Nat]]
    /\ stray \in [Consumers -> [AnyTP -> Nat]]

(* Only a partition that has a message for the consumer is counted as      *)
(* bypassed.                                                               *)
ReadyInv ==
    \A c \in Consumers, tp \in AnyTP : bypassed[c][tp] # 0 => Ready(c, tp)

TypeInv ==
    /\ TopicsInv
    /\ clock \in Nat
    /\ GroupInv
    /\ OffsetMap(committed)
    /\ StateInv
    /\ ThreadInv
    /\ GhostInv
    /\ ReadyInv

-----------------------------------------------------------------------------
(* The partitions.                                                         *)

LEMMA NewBufferOK == BufferOK(NewBuffer(Config))
<1>1. PICK b : b = NewBuffer(Config) OBVIOUS
<1>2. b.log = << >> /\ b.next_offset = 0 /\ {"log", "next_offset"} \subseteq DOMAIN b
  BY <1>1 DEF NewBuffer
<1>3. << >> \in Seq(Nat) /\ Len(<< >>) = 0 BY EmptySeq
<1> QED BY <1>1, <1>2, <1>3 DEF BufferOK

(* b has become r: messages have been added at the end and removed in      *)
(* front.                                                                  *)
Grown(b, r) ==
    /\ b.next_offset <= r.next_offset
    /\ OldestRetained(b) <= OldestRetained(r)

LEMMA BufferAppend ==
    ASSUME NEW b, BufferOK(b), NEW created_at, NEW now, NEW r,
           r = Appended(b, "raw", 0, created_at, now)
    PROVE  BufferOK(r) /\ Grown(b, r)
<1>1. PICK M : b.log \in Seq(M) BY DEF BufferOK
<1>2. PICK msg : msg = StoredMessage("raw", 0, b.next_offset, created_at) OBVIOUS
<1>3. msg.offset = b.next_offset BY <1>2 DEF StoredMessage
<1>4. PICK full : full = Append(b.log, msg) OBVIOUS
<1>5. /\ DOMAIN r = DOMAIN b
      /\ r.next_offset = b.next_offset + 1
      /\ r.log \in Seq(M \cup {msg})
      /\ Len(r.log) <= Len(full)
      /\ \A i \in 1..Len(r.log) : r.log[i] = full[Len(full) - Len(r.log) + i]
  <2>1. EndKept(b, r, msg, M)
    BY <1>1, <1>2, AppendedKeepsTheEnd DEF BufferOK
  <2> QED BY <1>4, <2>1 DEF EndKept
<1>6. PICK n, k, l : n = b.next_offset /\ k = Len(b.log) /\ l = Len(r.log) OBVIOUS
<1>7. n \in Nat /\ k \in Nat /\ l \in Nat /\ k <= n /\ Len(full) = k + 1 /\ l <= k + 1
  <2>1. Len(full) = Len(b.log) + 1 BY <1>1, <1>4
  <2>2. Len(b.log) \in Nat /\ Len(r.log) \in Nat BY <1>1, <1>5
  <2> QED BY <1>5, <1>6, <2>1, <2>2 DEF BufferOK
<1>8. full[k + 1] = msg /\ \A i \in 1..k : full[i] = b.log[i]
  BY <1>1, <1>4, <1>6
<1>9. \A i \in 1..l : r.log[i] = full[(k + 1) - l + i]
  BY <1>5, <1>6, <1>7
<1>10. OldestRetained(b) = n - k /\ OldestRetained(r) = (n + 1) - l
  BY <1>5, <1>6 DEF OldestRetained
<1>11. \A j \in 1..k : b.log[j].offset = (n - k) + j - 1
  BY <1>6, <1>10 DEF BufferOK
<1>12. ASSUME NEW i \in 1..l PROVE r.log[i].offset = ((n + 1) - l) + i - 1
  <2>1. PICK j : j = (k + 1) - l + i OBVIOUS
  <2>2. j \in 1..(k + 1) /\ r.log[i] = full[j] BY <1>7, <1>9, <2>1
  <2>3. CASE j = k + 1
    <3>1. r.log[i].offset = n BY <1>3, <1>6, <1>8, <2>2, <2>3
    <3> QED BY <1>7, <2>1, <2>3, <3>1
  <2>4. CASE j # k + 1
    <3>1. j \in 1..k BY <1>7, <2>2, <2>4
    <3>2. r.log[i].offset = (n - k) + j - 1 BY <1>8, <1>11, <2>2, <3>1
    <3> QED BY <1>7, <2>1, <3>2
  <2> QED BY <2>3, <2>4
<1>13. BufferOK(r)
  <2>1. {"log", "next_offset"} \subseteq DOMAIN r BY <1>5 DEF BufferOK
  <2>2. r.next_offset \in Nat /\ Len(r.log) <= r.next_offset BY <1>5, <1>6, <1>7
  <2> QED BY <1>5, <1>6, <1>10, <1>12, <2>1, <2>2 DEF BufferOK
<1>14. Grown(b, r) BY <1>5, <1>6, <1>7, <1>10 DEF Grown
<1> QED BY <1>13, <1>14

(* What OldestRetained and the watermarks are.                             *)
LEMMA BufferBounds ==
    ASSUME NEW b, BufferOK(b)
    PROVE  /\ OldestRetained(b) \in 0..b.next_offset
           /\ watermarks(b).newest = b.next_offset - 1
           /\ watermarks(b).oldest \in 0..OldestRetained(b)
           /\ b.log # << >> => watermarks(b).oldest = OldestRetained(b)
           /\ b.log = << >> => /\ watermarks(b).oldest = 0
                               /\ OldestRetained(b) = b.next_offset
<1>1. PICK M : b.log \in Seq(M) BY DEF BufferOK
<1>2. Len(b.log) \in Nat /\ (b.log = << >> => Len(b.log) = 0)
  BY <1>1, LenProperties, EmptySeq
<1> QED BY <1>2 DEF BufferOK, OldestRetained, watermarks

(* What read_one answers.                                                  *)
LEMMA ReadOneAnswer ==
    ASSUME NEW b, BufferOK(b), NEW offset \in Int, NEW answer,
           answer = read_one(b, offset)
    PROVE  /\ ~ answer.ok => OffsetRejected(b, offset)
           /\ answer.ok /\ answer.messages = << >> =>
                 ~ OffsetRejected(b, offset) /\ AtEnd(b, offset)
           /\ answer.ok /\ answer.messages # << >> =>
                 /\ OldestRetained(b) <= offset /\ offset < b.next_offset
                 /\ answer.messages[1].offset = offset
<1>1. PICK M : b.log \in Seq(M) BY DEF BufferOK
<1>2. PICK n, k : n = b.next_offset /\ k = Len(b.log) OBVIOUS
<1>3. n \in Nat /\ k \in Nat /\ k <= n /\ OldestRetained(b) = n - k
  BY <1>1, <1>2, LenProperties DEF BufferOK, OldestRetained
<1>4. CASE OffsetRejected(b, offset)
  BY <1>4 DEF read_one, OutOfRange
<1>5. CASE ~ OffsetRejected(b, offset) /\ AtEnd(b, offset)
  BY <1>5 DEF read_one, Ok
<1>6. CASE ~ OffsetRejected(b, offset) /\ ~ AtEnd(b, offset)
  <2>1. n - k <= offset /\ offset < n
    BY <1>2, <1>3, <1>6 DEF OffsetRejected, AtEnd
  <2>2. PICK j : j = offset - (n - k) + 1 OBVIOUS
  <2>3. j \in 1..k BY <1>3, <2>1, <2>2
  <2>4. b.log[j].offset = (n - k) + j - 1 BY <1>2, <1>3, <2>3 DEF BufferOK
  <2>5. answer = Ok(<< b.log[j] >>)
    BY <1>3, <1>6, <2>2 DEF read_one
  <2>6. answer.ok /\ answer.messages = << b.log[j] >> BY <2>5 DEF Ok
  <2>7. answer.messages[1] = b.log[j] BY <2>6
  <2>8. b.log[j].offset = offset BY <1>3, <2>2, <2>4
  <2> QED BY <1>2, <1>3, <2>1, <2>6, <2>7, <2>8
<1> QED BY <1>4, <1>5, <1>6

(* No partition disappears, and none goes backwards.                       *)
TopicsGrow ==
    \A tp \in AnyTP : Known(tp) => Known(tp)' /\ Grown(Buffer(tp), Buffer(tp)')

LEMMA GrownSame ==
    ASSUME NEW b, BufferOK(b)
    PROVE  Grown(b, b)
BY BufferBounds DEF Grown, BufferOK

LEMMA TopicsSame ==
    ASSUME TopicsInv, topics' = topics
    PROVE  TopicsInv' /\ TopicsGrow
<1>1. TopicsInv' BY DEF TopicsInv
<1>2. ASSUME NEW tp \in AnyTP, Known(tp)
      PROVE  Known(tp)' /\ Grown(Buffer(tp), Buffer(tp)')
  <2>1. BufferOK(Buffer(tp))
    BY <1>2 DEF TopicsInv, Known, get_topic, get_partition, Buffer
  <2>2. Known(tp)' /\ Buffer(tp)' = Buffer(tp)
    BY <1>2 DEF Known, get_topic, get_partition, Buffer
  <2> QED BY <2>1, <2>2, GrownSame
<1> QED BY <1>1, <1>2 DEF TopicsGrow

LEMMA EnsuredTopics ==
    ASSUME TopicsInv, NEW ts, ts \subseteq Topics, NEW known,
           known = ensure_topic(ts)
    PROVE  /\ DOMAIN known = DOMAIN topics \cup ts
           /\ \A topic \in DOMAIN topics : known[topic] = topics[topic]
           /\ \A topic \in DOMAIN known :
                 /\ DOMAIN known[topic] = 0..(NumPartitions - 1)
                 /\ \A p \in 0..(NumPartitions - 1) : BufferOK(known[topic][p])
<1>1. DOMAIN known = DOMAIN topics \cup ts BY DEF ensure_topic
<1>2. \A topic \in DOMAIN topics : known[topic] = topics[topic]
  BY DEF ensure_topic, get_topic
<1>3. ASSUME NEW topic \in DOMAIN known, topic \notin DOMAIN topics
      PROVE  /\ DOMAIN known[topic] = 0..(NumPartitions - 1)
             /\ \A p \in 0..(NumPartitions - 1) : BufferOK(known[topic][p])
  <2>1. known[topic] = NewTopic BY <1>1, <1>3 DEF ensure_topic, get_topic
  <2> QED BY <2>1, NewBufferOK DEF NewTopic
<1> QED BY <1>1, <1>2, <1>3 DEF TopicsInv

LEMMA TopicsEnsured ==
    ASSUME TopicsInv, NEW ts, ts \subseteq Topics, topics' = ensure_topic(ts)
    PROVE  TopicsInv' /\ TopicsGrow
<1>1. PICK known : known = ensure_topic(ts) OBVIOUS
<1>2. /\ DOMAIN known = DOMAIN topics \cup ts
      /\ \A topic \in DOMAIN topics : known[topic] = topics[topic]
      /\ \A topic \in DOMAIN known :
            /\ DOMAIN known[topic] = 0..(NumPartitions - 1)
            /\ \A p \in 0..(NumPartitions - 1) : BufferOK(known[topic][p])
  BY <1>1, EnsuredTopics
<1>3. topics' = known BY <1>1
<1>4. TopicsInv' BY <1>2, <1>3 DEF TopicsInv
<1>5. ASSUME NEW tp \in AnyTP, Known(tp)
      PROVE  Known(tp)' /\ Grown(Buffer(tp), Buffer(tp)')
  <2>1. BufferOK(Buffer(tp))
    BY <1>5 DEF TopicsInv, Known, get_topic, get_partition, Buffer
  <2>2. Known(tp)' /\ Buffer(tp)' = Buffer(tp)
    BY <1>2, <1>3, <1>5 DEF Known, get_topic, get_partition, Buffer
  <2> QED BY <2>1, <2>2, GrownSame
<1> QED BY <1>4, <1>5 DEF TopicsGrow

LEMMA TopicsProduced ==
    ASSUME TopicsInv, NEW at \in AnyTP, NEW stall,
           at[2] \in DOMAIN ensure_topic({at[1]})[at[1]],
           topics' = backend_produce(ensure_topic({at[1]}), at, stall)
    PROVE  TopicsInv' /\ TopicsGrow
<1>1. PICK known : known = ensure_topic({at[1]}) OBVIOUS
<1>2. PICK topic, p : topic = at[1] /\ p = at[2] OBVIOUS
<1>3. topic \in Topics BY <1>2 DEF AnyTP
<1>4. /\ DOMAIN known = DOMAIN topics \cup {topic}
      /\ \A x \in DOMAIN topics : known[x] = topics[x]
      /\ \A x \in DOMAIN known :
            /\ DOMAIN known[x] = 0..(NumPartitions - 1)
            /\ \A q \in 0..(NumPartitions - 1) : BufferOK(known[x][q])
  <2>1. {topic} \subseteq Topics BY <1>3
  <2> QED BY <1>1, <1>2, <2>1, EnsuredTopics
<1>5. topic \in DOMAIN known /\ p \in DOMAIN known[topic]
  BY <1>1, <1>2, <1>4
<1>6. PICK b, r : b = known[topic][p] /\ r = Appended(b, "raw", 0, clock, clock + stall)
  OBVIOUS
<1>7. BufferOK(b) /\ BufferOK(r) /\ Grown(b, r)
  <2>1. BufferOK(b) BY <1>4, <1>5, <1>6
  <2> QED BY <1>6, <2>1, BufferAppend
<1>8. topics' = [known EXCEPT ![topic] = [@ EXCEPT ![p] = r]]
  BY <1>1, <1>2, <1>6 DEF backend_produce, topic_produce
<1>9. /\ DOMAIN topics' = DOMAIN known
      /\ \A x \in DOMAIN known : x # topic => topics'[x] = known[x]
      /\ DOMAIN topics'[topic] = DOMAIN known[topic]
      /\ topics'[topic][p] = r
      /\ \A q \in DOMAIN known[topic] : q # p => topics'[topic][q] = known[topic][q]
  BY <1>5, <1>8
<1>10. TopicsInv'
  <2>1. DOMAIN topics' \subseteq Topics BY <1>3, <1>4, <1>9 DEF TopicsInv
  <2>2. ASSUME NEW x \in DOMAIN topics'
        PROVE  /\ DOMAIN topics'[x] = 0..(NumPartitions - 1)
               /\ \A q \in 0..(NumPartitions - 1) : BufferOK(topics'[x][q])
    <3>1. CASE x # topic BY <1>4, <1>9, <2>2, <3>1
    <3>2. CASE x = topic
      <4>1. DOMAIN topics'[x] = 0..(NumPartitions - 1) BY <1>4, <1>5, <1>9, <3>2
      <4>2. ASSUME NEW q \in 0..(NumPartitions - 1) PROVE BufferOK(topics'[x][q])
        <5>1. CASE q = p BY <1>7, <1>9, <3>2, <5>1
        <5>2. CASE q # p BY <1>4, <1>5, <1>9, <3>2, <5>2
        <5> QED BY <5>1, <5>2
      <4> QED BY <4>1, <4>2
    <3> QED BY <3>1, <3>2
  <2> QED BY <2>1, <2>2 DEF TopicsInv
<1>11. ASSUME NEW tp \in AnyTP, Known(tp)
       PROVE  Known(tp)' /\ Grown(Buffer(tp), Buffer(tp)')
  <2>1. /\ tp[1] \in DOMAIN known /\ tp[2] \in DOMAIN known[tp[1]]
        /\ known[tp[1]][tp[2]] = Buffer(tp)
    BY <1>4, <1>11 DEF Known, get_topic, get_partition, Buffer
  <2>2. BufferOK(Buffer(tp)) BY <1>4, <2>1
  <2>3. Known(tp)' BY <1>9, <2>1 DEF Known, get_topic, get_partition
  <2>4. CASE tp[1] = topic /\ tp[2] = p
    <3>1. Buffer(tp) = b /\ Buffer(tp)' = r BY <1>6, <1>9, <2>1, <2>4 DEF Buffer
    <3> QED BY <1>7, <2>3, <3>1
  <2>5. CASE ~ (tp[1] = topic /\ tp[2] = p)
    <3>1. Buffer(tp)' = Buffer(tp) BY <1>9, <2>1, <2>5 DEF Buffer
    <3> QED BY <2>2, <2>3, <3>1, GrownSame
  <2> QED BY <2>4, <2>5
<1> QED BY <1>10, <1>11 DEF TopicsGrow

-----------------------------------------------------------------------------
(* What a step does to one thread, one consumer and one list.              *)

Goes(t, next) ==
    /\ thread'[t] = next
    /\ \A u \in Threads : u # t => thread'[u] = thread[u]

LEMMA ThreadGoes ==
    ASSUME ThreadInv, NEW t \in Threads, NEW next, Go(t, next), ThreadOK(t, next)
    PROVE  ThreadInv' /\ Goes(t, next)
<1>1. DOMAIN thread' = Threads BY DEF Go, ThreadInv
<1>2. Goes(t, next) BY DEF Go, Goes, ThreadInv
<1>3. \A u \in Threads : ThreadOK(u, thread'[u])
  BY <1>2 DEF Goes, ThreadInv
<1> QED BY <1>1, <1>2, <1>3 DEF ThreadInv

LEMMA ThreadStays ==
    ASSUME ThreadInv, NEW t \in Threads, thread' = thread
    PROVE  ThreadInv' /\ Goes(t, thread[t])
BY DEF ThreadInv, Goes

StateSet(t, new) ==
    /\ state'[UserOf[t]] = new
    /\ \A c \in Consumers : c # UserOf[t] => state'[c] = state[c]

StraySet(t, new) ==
    /\ \A tp \in AnyTP :
          stray'[UserOf[t]][tp] = IF Wanted(new, tp) THEN 0 ELSE stray[UserOf[t]][tp]
    /\ \A c \in Consumers : c # UserOf[t] => stray'[c] = stray[c]

LEMMA StateGoes ==
    ASSUME StateInv, NEW t \in Threads, NEW new, ConsumerOK(new),
           state' = [state EXCEPT ![UserOf[t]] = new]
    PROVE  StateInv' /\ StateSet(t, new)
<1>1. UserOf[t] \in Consumers BY ThreadsAssumption
<1>2. DOMAIN state' = Consumers /\ StateSet(t, new)
  BY <1>1 DEF StateInv, StateSet
<1>3. \A c \in Consumers : ConsumerOK(state'[c])
  BY <1>2 DEF StateInv, StateSet
<1> QED BY <1>2, <1>3 DEF StateInv

LEMMA SetStateGoes ==
    ASSUME StateInv, GhostInv, NEW t \in Threads, NEW new, ConsumerOK(new),
           SetState(t, new)
    PROVE  /\ StateInv' /\ StateSet(t, new) /\ StraySet(t, new)
           /\ stray' \in [Consumers -> [AnyTP -> Nat]]
<1>1. UserOf[t] \in Consumers BY ThreadsAssumption
<1>2. StateInv' /\ StateSet(t, new) BY StateGoes DEF SetState
<1>3. PICK f : f = [tp \in AnyTP |-> IF Wanted(new, tp) THEN 0 ELSE stray[UserOf[t]][tp]]
  OBVIOUS
<1>4. f \in [AnyTP -> Nat] BY <1>1, <1>3 DEF GhostInv
<1>5. stray' = [stray EXCEPT ![UserOf[t]] = f] BY <1>3 DEF SetState
<1>6. stray' \in [Consumers -> [AnyTP -> Nat]] BY <1>4, <1>5 DEF GhostInv
<1>7. stray'[UserOf[t]] = f /\ \A c \in Consumers : c # UserOf[t] => stray'[c] = stray[c]
  BY <1>1, <1>5 DEF GhostInv
<1>8. StraySet(t, new) BY <1>3, <1>7 DEF StraySet
<1> QED BY <1>2, <1>6, <1>8

LEMMA MovedOK ==
    ASSUME GhostInv, NEW t \in Threads, Moved(t)
    PROVE  bypassed' \in [Consumers -> [AnyTP -> Nat]]
BY ThreadsAssumption DEF GhostInv, Moved

LEMMA CountReset ==
    ASSUME GhostInv, NEW c \in Consumers, NEW tp \in AnyTP,
           bypassed' = [bypassed EXCEPT ![c][tp] = 0]
    PROVE  bypassed' \in [Consumers -> [AnyTP -> Nat]]
BY DEF GhostInv

(* What becomes of the counts of partitions bypassed: they end or stay.    *)
CountsEnd ==
    \A c \in Consumers, tp \in AnyTP : bypassed'[c][tp] \in {0, bypassed[c][tp]}

LEMMA Recounted ==
    ASSUME GhostInv, Recount
    PROVE  /\ ReadyInv' /\ CountsEnd
           /\ bypassed' \in [Consumers -> [AnyTP -> Nat]]
<1>1. \A c \in Consumers, tp \in AnyTP :
         bypassed'[c][tp] = IF Ready(c, tp)' THEN bypassed[c][tp] ELSE 0
  BY DEF Recount
<1>2. ReadyInv' BY <1>1 DEF ReadyInv
<1>3. CountsEnd BY <1>1 DEF CountsEnd
<1>4. ASSUME NEW c \in Consumers, NEW tp \in AnyTP
      PROVE  (IF Ready(c, tp)' THEN bypassed[c][tp] ELSE 0) \in Nat
  BY DEF GhostInv
<1>5. bypassed' \in [Consumers -> [AnyTP -> Nat]] BY <1>4 DEF Recount
<1> QED BY <1>2, <1>3, <1>5

LEMMA ReadySame ==
    ASSUME NEW c \in Consumers, NEW tp \in AnyTP, Ready(c, tp),
           state'[c].assigned_partitions = state[c].assigned_partitions,
           state'[c].paused = state[c].paused,
           (tp \in DOMAIN state'[c].position) <=> (tp \in DOMAIN state[c].position),
           tp \in DOMAIN state[c].position =>
              state'[c].position[tp] = state[c].position[tp],
           topics' = topics, committed' = committed, group'.exists = group.exists
    PROVE  Ready(c, tp)'
<1>1. Wanted(state[c], tp)' BY DEF Ready, Wanted
<1>2. Known(tp)' /\ Buffer(tp)' = Buffer(tp)
  BY DEF Ready, Retained, Known, get_topic, get_partition, Buffer
<1>3. Resumes(c, tp)' = Resumes(c, tp) BY DEF Resumes
<1>4. NextOffset(c, tp)' = NextOffset(c, tp) BY <1>2, <1>3 DEF NextOffset
<1>5. Retained(tp, NextOffset(c, tp))' BY <1>2, <1>4 DEF Ready, Retained
<1> QED BY <1>1, <1>5 DEF Ready

LEMMA CountsSame ==
    ASSUME ReadyInv, UNCHANGED << state, topics, committed, bypassed >>,
           group'.exists = group.exists
    PROVE  ReadyInv' /\ CountsEnd
<1>1. ReadyInv'
  <2> SUFFICES ASSUME NEW c \in Consumers, NEW tp \in AnyTP, bypassed[c][tp] # 0
               PROVE  Ready(c, tp)'
    BY DEF ReadyInv
  <2>1. Ready(c, tp) BY DEF ReadyInv
  <2> QED BY <2>1, ReadySame
<1> QED BY <1>1 DEF CountsEnd

LEMMA MovedCounts ==
    ASSUME GhostInv, ReadyInv, NEW t \in Threads, Moved(t), NEW new,
           StateSet(t, new), UNCHANGED broker
    PROVE  ReadyInv' /\ CountsEnd
<1>1. /\ \A tp \in AnyTP : bypassed'[UserOf[t]][tp] = 0
      /\ \A c \in Consumers : c # UserOf[t] => bypassed'[c] = bypassed[c]
  BY ThreadsAssumption DEF Moved, GhostInv
<1>2. topics' = topics /\ committed' = committed /\ group' = group BY DEF broker
<1>3. ASSUME NEW c \in Consumers, NEW tp \in AnyTP, bypassed'[c][tp] # 0
      PROVE  Ready(c, tp)'
  <2>1. c # UserOf[t] /\ bypassed[c][tp] # 0 BY <1>1, <1>3
  <2>2. Ready(c, tp) /\ state'[c] = state[c] BY <2>1 DEF ReadyInv, StateSet
  <2> QED BY <1>2, <2>2, ReadySame
<1>4. ReadyInv' BY <1>3 DEF ReadyInv
<1> QED BY <1>1, <1>4 DEF CountsEnd

LEMMA GhostsSame ==
    ASSUME GhostInv, UNCHANGED ghosts
    PROVE  GhostInv' /\ got' = got /\ bypassed' = bypassed /\ stray' = stray
BY DEF GhostInv, ghosts

(* The broker's part is unchanged.                                         *)
LEMMA BrokerSame ==
    ASSUME TypeInv, UNCHANGED broker, StateInv', ThreadInv', GhostInv', ReadyInv'
    PROVE  TypeInv' /\ TopicsGrow /\ committed' = committed
<1>1. /\ topics' = topics /\ clock' = clock /\ group' = group
      /\ committed' = committed
  BY DEF broker
<1>2. TopicsInv' /\ TopicsGrow BY <1>1, TopicsSame DEF TypeInv
<1> QED BY <1>1, <1>2 DEF TypeInv, GroupInv, OffsetMap

(* HashMap insert.                                                         *)
LEMMA InsertOK ==
    ASSUME NEW m, OffsetMap(m), NEW tp \in AnyTP, NEW o \in Int
    PROVE  OffsetMap(Group!Insert(m, tp, o))
BY DEF OffsetMap, Group!Insert

LEMMA EmptyMapOK == OffsetMap(Group!EmptyMap)
BY DEF OffsetMap, Group!EmptyMap

LEMMA RangeFacts ==
    ASSUME NEW S, NEW l \in Seq(S)
    PROVE  Range(l) \subseteq S /\ IsFiniteSet(Range(l))
<1>1. Len(l) \in Nat /\ l \in [1..Len(l) -> S] /\ DOMAIN l = 1..Len(l)
  BY LenProperties
<1>2. Range(l) \subseteq S BY <1>1 DEF Range
<1>3. IsFiniteSet(1..Len(l)) BY <1>1, FS_Interval
<1>4. l \in Surjection(1..Len(l), Range(l)) BY <1>1 DEF Surjection, Range
<1>5. PICK D, R : D = 1..Len(l) /\ R = Range(l) OBVIOUS
<1>6. IsFiniteSet(R)
  <2>1. l \in Surjection(D, R) /\ IsFiniteSet(D) BY <1>3, <1>4, <1>5
  <2> QED BY <2>1, FS_Surjection
<1> QED BY <1>2, <1>5, <1>6

(* Applications pass lists that are not empty.                             *)
LEMMA ShortListsOK ==
    ASSUME NEW S, NEW l \in ShortLists(S)
    PROVE  l \in Seq(S) /\ l # << >>
<1>1. PICK n \in 1..MaxList : l \in [1..n -> S] BY DEF ShortLists
<1>2. n \in Nat /\ 1 \in 1..n BY <1>1, BoundsAssumption
<1>3. l \in Seq(S) BY <1>1, <1>2, SeqDef
<1>4. DOMAIN l = 1..n /\ DOMAIN << >> = {} BY <1>1
<1> QED BY <1>2, <1>3, <1>4

LEMMA IdleOK == (\A t : ThreadOK(t, Idle)) /\ Idle.pc = "idle"
BY DEF ThreadOK, Idle, PCs, Scanning, InScan

LEMMA NewConsumerOK == ConsumerOK(NewConsumer) /\ NewConsumer.position = Group!EmptyMap
<1>1. << >> \in Seq(AnyTP) BY EmptySeq
<1> QED BY <1>1, EmptyMapOK DEF ConsumerOK, NewConsumer

-----------------------------------------------------------------------------
(* The steps of a poll.                                                    *)

Others(t) == \A u \in Threads : u # t => thread'[u] = thread[u]

(* The step changes nothing but where its thread is.                       *)
Quiet(t) ==
    /\ Others(t) /\ TopicsGrow
    /\ UNCHANGED << topics, group, committed, state, got, bypassed, stray >>

(* A poll ends, or moves on to the next element.                           *)
Ends(t) == thread'[t] = Idle

Passes(t) ==
    \/ Ends(t)
    \/ /\ thread'[t].pc = "look"
       /\ thread'[t].start = thread[t].start /\ thread'[t].len = thread[t].len
       /\ thread'[t].i = thread[t].i + 1 /\ thread'[t].i < thread[t].len

(* The thread goes on with the element it holds.                           *)
Keeps(t, pc) ==
    /\ thread'[t].pc = pc /\ thread'[t].tp = thread[t].tp
    /\ thread'[t].start = thread[t].start /\ thread'[t].len = thread[t].len
    /\ thread'[t].i = thread[t].i

LookGoes(t) ==
    /\ thread[t].pc = "look" /\ Quiet(t)
    /\ \/ Passes(t) /\ Skipped(state[UserOf[t]], thread[t])
       \/ LET c == state[UserOf[t]]  tp == thread'[t].tp
          IN  /\ thread'[t].pc = "resolve"
              /\ thread'[t].start = thread[t].start /\ thread'[t].len = thread[t].len
              /\ thread'[t].i = thread[t].i
              /\ tp = c.assigned_partitions[ScanIndex(thread[t]) + 1]
              /\ tp \in AnyTP /\ Wanted(c, tp)
              /\ thread'[t].at = IF tp \in DOMAIN c.position THEN {c.position[tp]} ELSE {}

ResolveGoes(t) ==
    LET s == thread[t]
    IN  /\ s.pc = "resolve" /\ Quiet(t)
        /\ \/ Ends(t)
           \/ Keeps(t, "fetch") /\ s.at # {} /\ thread'[t].at = s.at
           \/ /\ Keeps(t, "fetch") /\ s.at = {}
              /\ Resumes(UserOf[t], s.tp)
              /\ thread'[t].at = {committed[s.tp] + 1}
           \/ /\ Keeps(t, "oldest") /\ s.at = {}
              /\ ~ Resumes(UserOf[t], s.tp)

OldestGoes(t) ==
    LET s == thread[t]
    IN  /\ s.pc = "oldest" /\ Quiet(t)
        /\ \/ Passes(t) /\ (Ends(t) \/ ~ Known(s.tp))
           \/ /\ Keeps(t, "fetch") /\ Known(s.tp)
              /\ thread'[t].at = {watermarks(Buffer(s.tp)).oldest}

FetchGoes(t) ==
    LET s == thread[t]
    IN  /\ s.pc = "fetch" /\ Quiet(t)
        /\ \/ Passes(t) /\ (Ends(t) \/ ~ Known(s.tp))
           \/ /\ Known(s.tp)
              /\ \E o \in Int :
                    /\ s.at = {o}
                    /\ \/ /\ Passes(t) /\ AtEnd(Buffer(s.tp), o)
                          /\ ~ OffsetRejected(Buffer(s.tp), o)
                       \/ Keeps(t, "readjust") /\ OffsetRejected(Buffer(s.tp), o)
                       \/ /\ Keeps(t, "record") /\ Retained(s.tp, o)
                          /\ thread'[t].at = {o}

ReadjustGoes(t) ==
    LET s == thread[t]
    IN  /\ s.pc = "readjust" /\ Quiet(t)
        /\ \/ Passes(t) /\ (Ends(t) \/ ~ Known(s.tp))
           \/ /\ Keeps(t, "adjust") /\ Known(s.tp)
              /\ thread'[t].at = {watermarks(Buffer(s.tp)).oldest}

AdjustGoes(t) ==
    LET s == thread[t]  c == state[UserOf[t]]
    IN  /\ s.pc = "adjust" /\ Others(t) /\ Passes(t)
        /\ TopicsGrow /\ UNCHANGED << topics, group, committed, got >>
        /\ bypassed' = [bypassed EXCEPT ![UserOf[t]][s.tp] = 0]
        /\ \E o \in Nat :
              /\ s.at = {o}
              /\ StateSet(t, [c EXCEPT !.position = Group!Insert(@, s.tp, o)])
              /\ StraySet(t, [c EXCEPT !.position = Group!Insert(@, s.tp, o)])

RecordGoes(t) ==
    LET s == thread[t]  u == UserOf[t]  c == state[UserOf[t]]
    IN  /\ s.pc = "record" /\ Others(t) /\ Ends(t)
        /\ TopicsGrow /\ UNCHANGED << topics, group, committed >>
        /\ \E o \in Nat :
              /\ s.at = {o}
              /\ StateSet(t, Recorded(c, s, o))
              /\ got' = [got EXCEPT ![UserOf[t]][s.tp] = Append(@, o)]
              /\ bypassed' = [bypassed EXCEPT ![UserOf[t]] =
                    [q \in AnyTP |-> IF q # s.tp /\ Ready(u, q) THEN @[q] + 1 ELSE 0]]
              /\ stray' = IF Wanted(c, s.tp) THEN stray
                          ELSE [stray EXCEPT ![UserOf[t]][s.tp] = @ + 1]

MovesOn(s, next) ==
    \/ next = Idle
    \/ /\ next.pc = "look" /\ next.start = s.start /\ next.len = s.len
       /\ next.i = s.i + 1 /\ next.i < s.len

LEMMA ScanOK ==
    ASSUME NEW s, s.start \in Nat, s.len \in Nat \ {0}, s.i \in Nat
    PROVE  /\ \A t : ThreadOK(t, NextElement(s))
           /\ MovesOn(s, NextElement(s))
           /\ ScanIndex(s) \in 0..(s.len - 1)
<1>1. ScanIndex(s) \in 0..(s.len - 1)
  <2>1. PICK n, k : n = s.start + s.i /\ k = s.len OBVIOUS
  <2>2. n \in Nat /\ k \in Nat \ {0} BY <2>1
  <2>3. n % k \in 0..(k - 1) BY <2>2
  <2> QED BY <2>1, <2>3 DEF ScanIndex
<1>2. PICK next : next = Scan("look", s.start, s.len, s.i + 1, << >>, {}) OBVIOUS
<1>3. next.pc = "look" /\ next.start = s.start /\ next.len = s.len /\ next.i = s.i + 1
  BY <1>2 DEF Scan
<1>4. \A t : ThreadOK(t, next) BY <1>3 DEF ThreadOK, PCs, Scanning, InScan
<1> QED BY <1>1, <1>2, <1>3, <1>4, IdleOK DEF NextElement, MovesOn

SamePlace(s, next) ==
    next.start = s.start /\ next.len = s.len /\ next.i = s.i

LEMMA AtFields ==
    ASSUME NEW s, NEW pc, NEW tp, NEW at, NEW next, next = At(s, pc, tp, at)
    PROVE  /\ next.pc = pc /\ next.tp = tp /\ next.at = at
           /\ next.start = s.start /\ next.len = s.len /\ next.i = s.i
BY DEF At, Scan

LEMMA AtOK ==
    ASSUME NEW t, NEW s, s.start \in Nat, s.len \in Nat \ {0}, s.i \in Nat,
           NEW pc \in InScan, NEW tp \in AnyTP, NEW at,
           pc = "fetch" => Offset(at), pc \in {"adjust", "record"} => Found(at),
           pc = "resolve" => at = {} \/ Offset(at)
    PROVE  ThreadOK(t, At(s, pc, tp, at))
<1>1. PICK next : next = At(s, pc, tp, at) OBVIOUS
<1>2. /\ next.pc = pc /\ next.tp = tp /\ next.at = at
      /\ next.start = s.start /\ next.len = s.len /\ next.i = s.i
  BY <1>1, AtFields
<1> QED BY <1>1, <1>2 DEF ThreadOK, PCs, Scanning, InScan

(* The bookkeeping of the steps that change nothing but their thread.      *)
LEMMA QuietStep ==
    ASSUME TypeInv, NEW t \in Threads, NEW next, Go(t, next), ThreadOK(t, next),
           UNCHANGED << broker, state, ghosts >>
    PROVE  TypeInv' /\ Quiet(t) /\ thread'[t] = next
<1>1. ThreadInv' /\ Goes(t, next) BY ThreadGoes DEF TypeInv
<1>2. GhostInv' /\ UNCHANGED << got, bypassed, stray >> BY GhostsSame DEF TypeInv
<1>3. state' = state /\ UNCHANGED broker /\ topics' = topics BY DEF broker
<1>4. StateInv' BY <1>3 DEF TypeInv, StateInv
<1>5. group' = group /\ committed' = committed BY DEF broker
<1>6. ReadyInv' BY <1>2, <1>3, <1>5, CountsSame DEF TypeInv
<1>7. TypeInv' /\ TopicsGrow BY <1>1, <1>2, <1>3, <1>4, <1>6, BrokerSame
<1> QED BY <1>1, <1>2, <1>3, <1>5, <1>7 DEF Quiet, Others, Goes

LEMMA KnownBuffer ==
    ASSUME TopicsInv, NEW tp, Known(tp)
    PROVE  BufferOK(Buffer(tp))
BY DEF TopicsInv, Known, get_topic, get_partition, Buffer

LEMMA LookStep ==
    ASSUME TypeInv, NEW t \in Threads, Look(t)
    PROVE  TypeInv' /\ LookGoes(t)
<1>1. PICK c, s : c = state[UserOf[t]] /\ s = thread[t] OBVIOUS
<1>2. ConsumerOK(c) BY <1>1, ThreadsAssumption DEF TypeInv, StateInv
<1>3. /\ s.pc = "look" /\ s.start \in Nat /\ s.len \in Nat \ {0} /\ s.i \in Nat
  BY <1>1 DEF Look, TypeInv, ThreadInv, ThreadOK, Scanning
<1>4. ScanIndex(s) \in Nat /\ ThreadOK(t, NextElement(s)) /\ MovesOn(s, NextElement(s))
  BY <1>3, ScanOK
<1>5. UNCHANGED << broker, state, ghosts >> BY DEF Look
<1>6. CASE Skipped(c, s)
  <2>1. Go(t, NextElement(s)) BY <1>1, <1>6 DEF Look
  <2>2. TypeInv' /\ Quiet(t) /\ thread'[t] = NextElement(s)
    BY <1>4, <1>5, <2>1, QuietStep
  <2> QED BY <1>1, <1>3, <1>4, <1>6, <2>2 DEF LookGoes, Passes, MovesOn, Ends
<1>7. CASE ~ Skipped(c, s)
  <2>1. PICK tp, at : /\ tp = c.assigned_partitions[ScanIndex(s) + 1]
                      /\ at = IF tp \in DOMAIN c.position THEN {c.position[tp]} ELSE {}
    OBVIOUS
  <2>2. Go(t, At(s, "resolve", tp, at)) BY <1>1, <1>7, <2>1 DEF Look
  <2>3. /\ ScanIndex(s) + 1 \in 1..Len(c.assigned_partitions) /\ tp \notin c.paused
    <3>1. Len(c.assigned_partitions) \in Nat BY <1>2, LenProperties DEF ConsumerOK
    <3> QED BY <1>4, <1>7, <2>1, <3>1 DEF Skipped
  <2>4. tp \in AnyTP /\ Wanted(c, tp)
    <3>1. DOMAIN c.assigned_partitions = 1..Len(c.assigned_partitions)
      BY <1>2, LenProperties DEF ConsumerOK
    <3>2. tp \in AnyTP BY <1>2, <2>1, <2>3, ElementOfSeq DEF ConsumerOK
    <3> QED BY <2>1, <2>3, <3>1, <3>2 DEF Wanted, Range
  <2>5. at = {} \/ Offset(at) BY <1>2, <2>1 DEF ConsumerOK, OffsetMap, Offset
  <2>6. PICK next : next = At(s, "resolve", tp, at) OBVIOUS
  <2>7. ThreadOK(t, next) BY <1>3, <2>4, <2>5, <2>6, AtOK DEF InScan
  <2>8. TypeInv' /\ Quiet(t) /\ thread'[t] = next
    BY <1>5, <2>2, <2>6, <2>7, QuietStep
  <2>9. /\ next.pc = "resolve" /\ next.tp = tp /\ next.at = at
        /\ next.start = s.start /\ next.len = s.len /\ next.i = s.i
    BY <2>6, AtFields
  <2> QED BY <1>1, <1>3, <2>1, <2>4, <2>8, <2>9 DEF LookGoes
<1> QED BY <1>6, <1>7

LEMMA ResolveStep ==
    ASSUME TypeInv, NEW t \in Threads, Resolve(t)
    PROVE  TypeInv' /\ ResolveGoes(t)
<1>1. PICK s : s = thread[t] OBVIOUS
<1>2. /\ s.pc = "resolve" /\ s.start \in Nat /\ s.len \in Nat \ {0} /\ s.i \in Nat
      /\ s.tp \in AnyTP /\ (s.at = {} \/ Offset(s.at))
  BY <1>1 DEF Resolve, TypeInv, ThreadInv, ThreadOK, Scanning, InScan
<1>3. UNCHANGED << broker, state, ghosts >> BY DEF Resolve
<1>4. PICK resumes : resumes = Resumes(UserOf[t], s.tp)
  OBVIOUS
<1>5. CASE shut.broker
  <2>1. Go(t, Idle) BY <1>5 DEF Resolve
  <2>2. TypeInv' /\ Quiet(t) /\ thread'[t] = Idle BY <1>3, <2>1, IdleOK, QuietStep
  <2> QED BY <1>1, <1>2, <2>2, IdleOK DEF ResolveGoes, Ends
<1>6. CASE ~ shut.broker /\ s.at # {}
  <2>1. PICK next : next = At(s, "fetch", s.tp, s.at) OBVIOUS
  <2>2. Go(t, next) BY <1>1, <1>6, <2>1 DEF Resolve
  <2>3. ThreadOK(t, next) BY <1>2, <1>6, <2>1, AtOK DEF InScan
  <2>4. TypeInv' /\ Quiet(t) /\ thread'[t] = next BY <1>3, <2>2, <2>3, QuietStep
  <2>5. next.pc = "fetch" /\ next.tp = s.tp /\ next.at = s.at /\ SamePlace(s, next)
    BY <2>1, AtFields DEF SamePlace
  <2> QED BY <1>1, <1>2, <1>6, <2>4, <2>5 DEF ResolveGoes, Keeps, SamePlace
<1>7. CASE ~ shut.broker /\ s.at = {} /\ resumes
  <2>1. PICK at, next : at = {committed[s.tp] + 1} /\ next = At(s, "fetch", s.tp, at) OBVIOUS
  <2>2. Go(t, next) BY <1>1, <1>4, <1>7, <2>1 DEF Resolve
  <2>3. Offset(at)
    <3>1. committed[s.tp] \in Int BY <1>4, <1>7 DEF TypeInv, OffsetMap, Resumes
    <3>2. committed[s.tp] + 1 \in Int BY <3>1
    <3> QED BY <2>1, <3>2 DEF Offset
  <2>4. ThreadOK(t, next) BY <1>2, <2>1, <2>3, AtOK DEF InScan
  <2>5. TypeInv' /\ Quiet(t) /\ thread'[t] = next BY <1>3, <2>2, <2>4, QuietStep
  <2>6. next.pc = "fetch" /\ next.tp = s.tp /\ next.at = at /\ SamePlace(s, next)
    BY <2>1, AtFields DEF SamePlace
  <2> QED BY <1>1, <1>2, <1>4, <1>7, <2>1, <2>5, <2>6 DEF ResolveGoes, Keeps, SamePlace
<1>8. CASE ~ shut.broker /\ s.at = {} /\ ~ resumes
  <2>1. PICK next : next = At(s, "oldest", s.tp, {}) OBVIOUS
  <2>2. Go(t, next) BY <1>1, <1>4, <1>8, <2>1 DEF Resolve
  <2>3. ThreadOK(t, next) BY <1>2, <2>1, AtOK DEF InScan
  <2>4. TypeInv' /\ Quiet(t) /\ thread'[t] = next BY <1>3, <2>2, <2>3, QuietStep
  <2>5. next.pc = "oldest" /\ next.tp = s.tp /\ SamePlace(s, next)
    BY <2>1, AtFields DEF SamePlace
  <2> QED BY <1>1, <1>2, <1>4, <1>8, <2>4, <2>5 DEF ResolveGoes, Keeps, SamePlace
<1> QED BY <1>5, <1>6, <1>7, <1>8

(* A step that asks the backend ends the poll, passes the element or goes  *)
(* on with it.                                                             *)
AskedOK(t, s, next) ==
    \/ Passes(t) /\ (Ends(t) \/ ~ Known(s.tp))
    \/ thread'[t] = next /\ Known(s.tp)

LEMMA AskStep ==
    ASSUME TypeInv, NEW t \in Threads, thread[t].pc \in InScan, NEW next,
           Go(t, AskBackend(thread[t], next)), Known(thread[t].tp) => ThreadOK(t, next),
           UNCHANGED << broker, state, ghosts >>
    PROVE  /\ TypeInv' /\ Quiet(t)
           /\ AskedOK(t, thread[t], next)
<1>1. PICK s : s = thread[t] OBVIOUS
<1>2. s.start \in Nat /\ s.len \in Nat \ {0} /\ s.i \in Nat
  BY <1>1 DEF TypeInv, ThreadInv, ThreadOK, Scanning
<1>3. ThreadOK(t, NextElement(s)) /\ MovesOn(s, NextElement(s)) BY <1>2, ScanOK
<1>4. CASE shut.backend
  <2>1. Go(t, Idle) BY <1>4 DEF AskBackend
  <2>2. TypeInv' /\ Quiet(t) /\ thread'[t] = Idle BY <2>1, IdleOK, QuietStep
  <2> QED BY <2>2 DEF AskedOK, Passes, Ends
<1>5. CASE ~ shut.backend /\ ~ Known(s.tp)
  <2>1. Go(t, NextElement(s)) BY <1>1, <1>5 DEF AskBackend
  <2>2. TypeInv' /\ Quiet(t) /\ thread'[t] = NextElement(s) BY <1>3, <2>1, QuietStep
  <2> QED BY <1>1, <1>3, <1>5, <2>2 DEF AskedOK, Passes, Ends, MovesOn
<1>6. CASE ~ shut.backend /\ Known(s.tp)
  <2>1. Go(t, next) BY <1>1, <1>6 DEF AskBackend
  <2>2. TypeInv' /\ Quiet(t) /\ thread'[t] = next BY <1>1, <1>6, <2>1, QuietStep
  <2> QED BY <1>1, <1>6, <2>2 DEF AskedOK
<1> QED BY <1>4, <1>5, <1>6

LEMMA OldestStep ==
    ASSUME TypeInv, NEW t \in Threads, Oldest(t)
    PROVE  TypeInv' /\ OldestGoes(t)
<1>1. PICK s : s = thread[t] OBVIOUS
<1>2. /\ s.pc = "oldest" /\ s.pc \in InScan
      /\ s.start \in Nat /\ s.len \in Nat \ {0} /\ s.i \in Nat /\ s.tp \in AnyTP
  BY <1>1 DEF Oldest, TypeInv, ThreadInv, ThreadOK, Scanning, InScan
<1>3. PICK at, next : /\ at = {watermarks(Buffer(s.tp)).oldest}
                      /\ next = At(s, "fetch", s.tp, at)
  OBVIOUS
<1>4. ASSUME Known(s.tp) PROVE ThreadOK(t, next)
  <2>1. BufferOK(Buffer(s.tp)) BY <1>4, KnownBuffer DEF TypeInv
  <2>2. Offset(at)
    <3>1. PICK o : o = watermarks(Buffer(s.tp)).oldest OBVIOUS
    <3>2. o \in Nat BY <2>1, <3>1, BufferBounds DEF BufferOK
    <3> QED BY <1>3, <3>1, <3>2 DEF Offset
  <2> QED BY <1>2, <1>3, <2>2, AtOK DEF InScan
<1>5. Go(t, AskBackend(s, next)) /\ UNCHANGED << broker, state, ghosts >>
  BY <1>1, <1>3 DEF Oldest
<1>6. TypeInv' /\ Quiet(t) /\ AskedOK(t, s, next)
  BY <1>1, <1>2, <1>4, <1>5, AskStep
<1>7. next.pc = "fetch" /\ next.tp = s.tp /\ next.at = at /\ SamePlace(s, next)
  BY <1>3, AtFields DEF SamePlace
<1> QED BY <1>1, <1>2, <1>3, <1>6, <1>7 DEF OldestGoes, AskedOK, Keeps, SamePlace

LEMMA ReadjustStep ==
    ASSUME TypeInv, NEW t \in Threads, Readjust(t)
    PROVE  TypeInv' /\ ReadjustGoes(t)
<1>1. PICK s : s = thread[t] OBVIOUS
<1>2. /\ s.pc = "readjust" /\ s.pc \in InScan
      /\ s.start \in Nat /\ s.len \in Nat \ {0} /\ s.i \in Nat /\ s.tp \in AnyTP
  BY <1>1 DEF Readjust, TypeInv, ThreadInv, ThreadOK, Scanning, InScan
<1>3. PICK at, next : /\ at = {watermarks(Buffer(s.tp)).oldest}
                      /\ next = At(s, "adjust", s.tp, at)
  OBVIOUS
<1>4. ASSUME Known(s.tp) PROVE ThreadOK(t, next)
  <2>1. BufferOK(Buffer(s.tp)) BY <1>4, KnownBuffer DEF TypeInv
  <2>2. Found(at)
    <3>1. PICK o : o = watermarks(Buffer(s.tp)).oldest OBVIOUS
    <3>2. o \in Nat BY <2>1, <3>1, BufferBounds DEF BufferOK
    <3> QED BY <1>3, <3>1, <3>2 DEF Found
  <2> QED BY <1>2, <1>3, <2>2, AtOK DEF InScan
<1>5. Go(t, AskBackend(s, next)) /\ UNCHANGED << broker, state, ghosts >>
  BY <1>1, <1>3 DEF Readjust
<1>6. TypeInv' /\ Quiet(t) /\ AskedOK(t, s, next)
  BY <1>1, <1>2, <1>4, <1>5, AskStep
<1>7. next.pc = "adjust" /\ next.tp = s.tp /\ next.at = at /\ SamePlace(s, next)
  BY <1>3, AtFields DEF SamePlace
<1> QED BY <1>1, <1>2, <1>3, <1>6, <1>7 DEF ReadjustGoes, AskedOK, Keeps, SamePlace

LEMMA FetchStep ==
    ASSUME TypeInv, NEW t \in Threads, Fetch(t)
    PROVE  TypeInv' /\ FetchGoes(t)
<1>1. PICK s : s = thread[t] OBVIOUS
<1>2. /\ s.pc = "fetch" /\ s.pc \in InScan /\ Offset(s.at)
      /\ s.start \in Nat /\ s.len \in Nat \ {0} /\ s.i \in Nat /\ s.tp \in AnyTP
  BY <1>1 DEF Fetch, TypeInv, ThreadInv, ThreadOK, Scanning, InScan
<1>3. PICK o \in Int : s.at = {o} BY <1>2 DEF Offset
<1>4. (CHOOSE x \in s.at : TRUE) = o BY <1>3
<1>5. PICK b, answer, next :
         /\ b = Buffer(s.tp)
         /\ answer = read_one(b, o)
         /\ next = IF ~ answer.ok THEN At(s, "readjust", s.tp, {})
                   ELSE IF answer.messages = << >> THEN NextElement(s)
                   ELSE At(s, "record", s.tp, {answer.messages[1].offset})
  OBVIOUS
<1>6. Go(t, AskBackend(s, next)) /\ UNCHANGED << broker, state, ghosts >>
  BY <1>1, <1>4, <1>5 DEF Fetch
<1>7. Known(s.tp) => BufferOK(b) BY <1>5, KnownBuffer DEF TypeInv
<1>8. ASSUME Known(s.tp)
      PROVE  /\ ThreadOK(t, next)
             /\ \/ MovesOn(s, next) /\ ~ OffsetRejected(b, o) /\ AtEnd(b, o)
                \/ /\ next.pc = "readjust" /\ next.tp = s.tp /\ SamePlace(s, next)
                   /\ OffsetRejected(b, o)
                \/ /\ next.pc = "record" /\ next.tp = s.tp /\ next.at = {o}
                   /\ SamePlace(s, next) /\ Retained(s.tp, o)
  <2>1. /\ ~ answer.ok => OffsetRejected(b, o)
        /\ answer.ok /\ answer.messages = << >> =>
              ~ OffsetRejected(b, o) /\ AtEnd(b, o)
        /\ answer.ok /\ answer.messages # << >> =>
              /\ OldestRetained(b) <= o /\ o < b.next_offset
              /\ answer.messages[1].offset = o
    BY <1>5, <1>7, <1>8, ReadOneAnswer
  <2>2. CASE ~ answer.ok
    <3>1. next = At(s, "readjust", s.tp, {}) BY <1>5, <2>2
    <3>2. ThreadOK(t, next) BY <1>2, <3>1, AtOK DEF InScan
    <3>3. next.pc = "readjust" /\ next.tp = s.tp /\ SamePlace(s, next)
      BY <3>1, AtFields DEF SamePlace
    <3> QED BY <2>1, <2>2, <3>2, <3>3
  <2>3. CASE answer.ok /\ answer.messages = << >>
    <3>1. next = NextElement(s) BY <1>5, <2>3
    <3> QED BY <1>2, <2>1, <2>3, <3>1, ScanOK
  <2>4. CASE answer.ok /\ answer.messages # << >>
    <3>1. next = At(s, "record", s.tp, {o}) BY <1>5, <2>1, <2>4
    <3>2. Found({o})
      <4>1. OldestRetained(b) \in 0..b.next_offset BY <1>7, <1>8, BufferBounds
      <4>2. o \in Nat BY <2>1, <2>4, <4>1
      <4> QED BY <4>2 DEF Found
    <3>3. ThreadOK(t, next) BY <1>2, <3>1, <3>2, AtOK DEF InScan
    <3>4. next.pc = "record" /\ next.tp = s.tp /\ next.at = {o} /\ SamePlace(s, next)
      BY <3>1, AtFields DEF SamePlace
    <3>5. Retained(s.tp, o) BY <1>5, <1>8, <2>1, <2>4 DEF Retained
    <3> QED BY <3>3, <3>4, <3>5
  <2> QED BY <2>2, <2>3, <2>4
<1>9. TypeInv' /\ Quiet(t) /\ AskedOK(t, s, next)
  BY <1>1, <1>2, <1>6, <1>8, AskStep
<1>10. CASE thread'[t] = next /\ Known(s.tp)
  <2>1. CASE MovesOn(s, next) /\ ~ OffsetRejected(b, o) /\ AtEnd(b, o)
    <3>1. Passes(t) BY <1>1, <1>10, <2>1 DEF Passes, MovesOn, Ends
    <3> QED BY <1>1, <1>2, <1>3, <1>5, <1>9, <1>10, <2>1, <3>1 DEF FetchGoes
  <2>2. CASE /\ next.pc = "readjust" /\ next.tp = s.tp /\ SamePlace(s, next)
             /\ OffsetRejected(b, o)
    <3>1. Keeps(t, "readjust") BY <1>1, <1>10, <2>2 DEF Keeps, SamePlace
    <3> QED BY <1>1, <1>2, <1>3, <1>5, <1>9, <1>10, <2>2, <3>1 DEF FetchGoes
  <2>3. CASE /\ next.pc = "record" /\ next.tp = s.tp /\ next.at = {o}
             /\ SamePlace(s, next) /\ Retained(s.tp, o)
    <3>1. Keeps(t, "record") BY <1>1, <1>10, <2>3 DEF Keeps, SamePlace
    <3> QED BY <1>1, <1>2, <1>3, <1>9, <1>10, <2>3, <3>1 DEF FetchGoes
  <2> QED BY <1>8, <1>10, <2>1, <2>2, <2>3
<1> QED BY <1>1, <1>2, <1>9, <1>10 DEF FetchGoes, AskedOK

LEMMA PositionSet ==
    ASSUME NEW c, ConsumerOK(c), NEW tp \in AnyTP, NEW o \in Int, NEW new,
           new = [c EXCEPT !.position = Group!Insert(@, tp, o)]
    PROVE  /\ ConsumerOK(new)
           /\ new.position = Group!Insert(c.position, tp, o)
           /\ new.assigned_partitions = c.assigned_partitions /\ new.paused = c.paused
           /\ new.poll_start = c.poll_start
<1>1. OffsetMap(Group!Insert(c.position, tp, o)) BY InsertOK DEF ConsumerOK
<1> QED BY <1>1 DEF ConsumerOK

LEMMA RecordedFields ==
    ASSUME NEW c, ConsumerOK(c), NEW s, s.tp \in AnyTP, ScanIndex(s) \in Nat,
           NEW o \in Nat, NEW new, new = Recorded(c, s, o)
    PROVE  /\ ConsumerOK(new)
           /\ new.position = Group!Insert(c.position, s.tp, o + 1)
           /\ new.assigned_partitions = c.assigned_partitions /\ new.paused = c.paused
           /\ new.poll_start = ScanIndex(s) + 1
<1>1. OffsetMap(Group!Insert(c.position, s.tp, o + 1)) BY InsertOK DEF ConsumerOK
<1> QED BY <1>1 DEF ConsumerOK, Recorded

(* A new position of one partition leaves the others as they are.          *)
LEMMA ReadyElsewhere ==
    ASSUME NEW t \in Threads, NEW tp, NEW o, NEW new, StateSet(t, new),
           new.assigned_partitions = state[UserOf[t]].assigned_partitions,
           new.paused = state[UserOf[t]].paused,
           new.position = Group!Insert(state[UserOf[t]].position, tp, o),
           UNCHANGED broker, NEW c \in Consumers, NEW q \in AnyTP,
           c # UserOf[t] \/ q # tp, Ready(c, q)
    PROVE  Ready(c, q)'
<1>1. topics' = topics /\ committed' = committed /\ group'.exists = group.exists
  BY DEF broker
<1>2. CASE c # UserOf[t]
  <2>1. state'[c] = state[c] BY <1>2 DEF StateSet
  <2> QED BY <1>1, <2>1, ReadySame
<1>3. CASE c = UserOf[t] /\ q # tp
  <2>1. state'[c] = new BY <1>3 DEF StateSet
  <2>2. /\ q \in DOMAIN new.position <=> q \in DOMAIN state[c].position
        /\ q \in DOMAIN state[c].position => new.position[q] = state[c].position[q]
    BY <1>3 DEF Group!Insert
  <2> QED BY <1>1, <1>3, <2>1, <2>2, ReadySame
<1> QED BY <1>2, <1>3

LEMMA AdjustStep ==
    ASSUME TypeInv, NEW t \in Threads, Adjust(t)
    PROVE  TypeInv' /\ AdjustGoes(t)
<1>1. PICK s, c : s = thread[t] /\ c = state[UserOf[t]] OBVIOUS
<1>2. /\ s.pc = "adjust" /\ Found(s.at)
      /\ s.start \in Nat /\ s.len \in Nat \ {0} /\ s.i \in Nat /\ s.tp \in AnyTP
  BY <1>1 DEF Adjust, TypeInv, ThreadInv, ThreadOK, Scanning, InScan
<1>3. PICK o \in Nat : s.at = {o} BY <1>2 DEF Found
<1>4. (CHOOSE x \in s.at : TRUE) = o BY <1>3
<1>5. PICK new : new = [c EXCEPT !.position = Group!Insert(@, s.tp, o)] OBVIOUS
<1>6. ConsumerOK(c) /\ UserOf[t] \in Consumers
  BY <1>1, ThreadsAssumption DEF TypeInv, StateInv
<1>7. /\ ConsumerOK(new) /\ new.position = Group!Insert(c.position, s.tp, o)
      /\ new.assigned_partitions = c.assigned_partitions /\ new.paused = c.paused
  BY <1>2, <1>5, <1>6, PositionSet
<1>8. SetState(t, new) BY <1>1, <1>4, <1>5 DEF Adjust
<1>9. /\ StateInv' /\ StateSet(t, new) /\ StraySet(t, new)
      /\ stray' \in [Consumers -> [AnyTP -> Nat]]
  BY <1>7, <1>8, SetStateGoes DEF TypeInv
<1>10. bypassed' \in [Consumers -> [AnyTP -> Nat]]
  BY <1>1, <1>2, <1>6, CountReset DEF TypeInv, Adjust
<1>11. got' = got /\ UNCHANGED broker /\ topics' = topics /\ group' = group
  BY DEF Adjust, broker
<1>12. GhostInv' BY <1>9, <1>10, <1>11 DEF GhostInv, TypeInv
<1>13. ThreadOK(t, NextElement(s)) /\ MovesOn(s, NextElement(s)) BY <1>2, ScanOK
<1>14. ThreadInv' /\ Goes(t, NextElement(s))
  BY <1>1, <1>13, ThreadGoes DEF TypeInv, Adjust
<1>15. ReadyInv'
  <2> SUFFICES ASSUME NEW d \in Consumers, NEW q \in AnyTP, bypassed'[d][q] # 0
               PROVE  Ready(d, q)'
    BY DEF ReadyInv
  <2>1. (d # UserOf[t] \/ q # s.tp) /\ bypassed[d][q] # 0
    BY <1>1, <1>2, <1>6 DEF Adjust, TypeInv, GhostInv
  <2>2. Ready(d, q) BY <2>1 DEF TypeInv, ReadyInv
  <2> QED BY <1>1, <1>7, <1>9, <1>11, <2>1, <2>2, ReadyElsewhere
<1>16. TypeInv' /\ TopicsGrow /\ committed' = committed
  BY <1>9, <1>11, <1>12, <1>14, <1>15, BrokerSame
<1> QED BY <1>1, <1>2, <1>3, <1>5, <1>9, <1>11, <1>13, <1>14, <1>16
   DEF AdjustGoes, Goes, Others, Passes, MovesOn, Ends, Adjust

LEMMA RecordStep ==
    ASSUME TypeInv, NEW t \in Threads, Record(t)
    PROVE  TypeInv' /\ RecordGoes(t)
<1>1. PICK s, c, u : s = thread[t] /\ u = UserOf[t] /\ c = state[u] OBVIOUS
<1>2. /\ s.pc = "record" /\ Found(s.at)
      /\ s.start \in Nat /\ s.len \in Nat \ {0} /\ s.i \in Nat /\ s.tp \in AnyTP
  BY <1>1 DEF Record, TypeInv, ThreadInv, ThreadOK, Scanning, InScan
<1>3. PICK o \in Nat : s.at = {o} BY <1>2 DEF Found
<1>4. (CHOOSE x \in s.at : TRUE) = o BY <1>3
<1>5. PICK new : new = Recorded(c, s, o) OBVIOUS
<1>6. ConsumerOK(c) /\ u \in Consumers
  BY <1>1, ThreadsAssumption DEF TypeInv, StateInv
<1>7. ConsumerOK(new)
  <2>1. ScanIndex(s) \in Nat BY <1>2, ScanOK
  <2> QED BY <1>2, <1>5, <1>6, <2>1, RecordedFields
<1>8. state' = [state EXCEPT ![u] = new] BY <1>1, <1>4, <1>5 DEF Record
<1>9. StateInv' /\ StateSet(t, new) BY <1>1, <1>7, <1>8, StateGoes DEF TypeInv
<1>10. /\ got' = [got EXCEPT ![u][s.tp] = Append(@, o)]
       /\ bypassed' = [bypassed EXCEPT ![u] =
             [q \in AnyTP |-> IF q # s.tp /\ Ready(u, q) THEN @[q] + 1 ELSE 0]]
       /\ stray' = IF Wanted(c, s.tp) THEN stray
                   ELSE [stray EXCEPT ![u][s.tp] = @ + 1]
  BY <1>1, <1>4 DEF Record, Deliver
<1>11. got' \in [Consumers -> [AnyTP -> Seq(Nat)]]
  <2>1. Append(got[u][s.tp], o) \in Seq(Nat)
    BY <1>2, <1>6, AppendProperties DEF TypeInv, GhostInv
  <2> QED BY <1>2, <1>6, <1>10, <2>1 DEF TypeInv, GhostInv
<1>12. bypassed' \in [Consumers -> [AnyTP -> Nat]]
  BY <1>2, <1>6, <1>10 DEF TypeInv, GhostInv
<1>13. stray' \in [Consumers -> [AnyTP -> Nat]]
  BY <1>2, <1>6, <1>10 DEF TypeInv, GhostInv
<1>14. GhostInv' BY <1>11, <1>12, <1>13 DEF GhostInv
<1>15. ThreadInv' /\ Goes(t, Idle) BY IdleOK, ThreadGoes DEF TypeInv, Record
<1>16. UNCHANGED broker /\ topics' = topics /\ group' = group BY DEF Record, broker
<1>17. ReadyInv'
  <2> SUFFICES ASSUME NEW d \in Consumers, NEW q \in AnyTP, bypassed'[d][q] # 0
               PROVE  Ready(d, q)'
    BY DEF ReadyInv
  <2>1. (d # u \/ q # s.tp) /\ Ready(d, q)
    <3>1. CASE d = u BY <1>6, <1>10, <3>1 DEF TypeInv, GhostInv
    <3>2. CASE d # u BY <1>6, <1>10, <3>2 DEF TypeInv, GhostInv, ReadyInv
    <3> QED BY <3>1, <3>2
  <2>2. PICK next : next = o + 1 OBVIOUS
  <2>3. /\ new.position = Group!Insert(state[UserOf[t]].position, s.tp, next)
        /\ new.assigned_partitions = state[UserOf[t]].assigned_partitions
        /\ new.paused = state[UserOf[t]].paused
    BY <1>1, <1>5, <1>6, <2>2 DEF ConsumerOK, Recorded
  <2>4. d # UserOf[t] \/ q # s.tp BY <1>1, <2>1
  <2> QED BY <1>9, <1>16, <2>1, <2>3, <2>4, ReadyElsewhere
<1>18. TypeInv' /\ TopicsGrow /\ committed' = committed
  BY <1>9, <1>14, <1>15, <1>16, <1>17, BrokerSame
<1> QED BY <1>1, <1>2, <1>3, <1>5, <1>9, <1>10, <1>15, <1>16, <1>18
   DEF RecordGoes, Goes, Others, Ends

-----------------------------------------------------------------------------
(* All other steps of threads, by what they do to positions and commits.   *)

PositionGoes(t) ==
    \/ UNCHANGED << state, stray >>
    \/ \E new :
          /\ StateSet(t, new) /\ StraySet(t, new)
          /\ \/ new.position = state[UserOf[t]].position
             \/ /\ new.position = Group!EmptyMap
                /\ Calls \cap {"assign", "unsubscribe"} # {}
             \/ Calls \cap {"seek", "store_offset"} # {}

(* Where a consumer is in its list stays as it is.                         *)
SameRing(c, new) ==
    /\ new.assigned_partitions = c.assigned_partitions
    /\ new.poll_start = c.poll_start

(* Applications may commit offsets of messages they have not got.          *)
CommitsAnything == Calls \cap {"commit_message", "commit any"} # {}

CommittedGoes(t) ==
    \/ committed' = committed
    \/ LET first == Head(thread[t].todo)
       IN  /\ thread[t].pc = "commit"
           /\ committed' = Group!Insert(committed, first[1], first[2])

TodoGoes(t) ==
    thread'[t].pc = "commit" =>
       \/ /\ thread[t].pc = "commit" /\ thread[t].todo # << >>
          /\ thread'[t].todo = Tail(thread[t].todo)
       \/ UserOf[t] \in Grouped /\ Range(thread'[t].todo) \subseteq Consumed(UserOf[t])
       \/ CommitsAnything

(* No count goes up, and those of a consumer whose list changes are over.  *)
CountsGo(t) ==
    /\ CountsEnd
    /\ \/ Moved(t)
       \/ \A c \in Consumers : SameRing(state[c], state'[c])

(* A scan begins.                                                          *)
Begins(t) ==
    LET c == state[UserOf[t]]  s == thread'[t]
    IN  /\ UNCHANGED << state, bypassed >>
        /\ s.pc = "look" /\ s.i = 0 /\ s.len = Len(c.assigned_partitions)
        /\ s.start = c.poll_start % s.len

Other(t) ==
    /\ thread[t].pc \notin Scanning
    /\ thread'[t].pc \notin Scanning \/ Begins(t)
    /\ Others(t) /\ TopicsGrow /\ UNCHANGED got
    /\ PositionGoes(t) /\ CommittedGoes(t) /\ TodoGoes(t) /\ CountsGo(t)

(* A step that changes its thread only.                                    *)
LEMMA QuietOther ==
    ASSUME TypeInv, NEW t \in Threads, NEW next, Go(t, next), ThreadOK(t, next),
           UNCHANGED << broker, state, ghosts >>,
           thread[t].pc \notin Scanning, next.pc \notin Scanning,
           \/ next.pc # "commit"
           \/ UserOf[t] \in Grouped /\ Range(next.todo) \subseteq Consumed(UserOf[t])
           \/ CommitsAnything
    PROVE  TypeInv' /\ Other(t)
<1>1. TypeInv' /\ Quiet(t) /\ thread'[t] = next BY QuietStep
<1>2. CountsGo(t) BY <1>1 DEF Quiet, CountsGo, CountsEnd, SameRing
<1> QED BY <1>1, <1>2 DEF Quiet, Other, PositionGoes, CommittedGoes, TodoGoes

(* A step that also sets the consumer's state.                             *)
LEMMA SetOther ==
    ASSUME TypeInv, NEW t \in Threads, NEW next, ThreadInv', Goes(t, next),
           thread[t].pc \notin Scanning, next.pc \notin Scanning, next.pc # "commit",
           NEW new, SetState(t, new), ConsumerOK(new),
           \/ Moved(t)
           \/ Recount /\ SameRing(state[UserOf[t]], new),
           got' = got,
           UNCHANGED broker,
           \/ new.position = state[UserOf[t]].position
           \/ /\ new.position = Group!EmptyMap
              /\ Calls \cap {"assign", "unsubscribe"} # {}
           \/ Calls \cap {"seek", "store_offset"} # {}
    PROVE  TypeInv' /\ Other(t)
<1>1. /\ StateInv' /\ StateSet(t, new) /\ StraySet(t, new)
      /\ stray' \in [Consumers -> [AnyTP -> Nat]]
  BY SetStateGoes DEF TypeInv
<1>2. ReadyInv' /\ CountsEnd /\ bypassed' \in [Consumers -> [AnyTP -> Nat]]
  <2>1. CASE Moved(t) BY <1>1, <2>1, MovedOK, MovedCounts DEF TypeInv
  <2>2. CASE Recount BY <2>2, Recounted DEF TypeInv
  <2> QED BY <2>1, <2>2
<1>3. GhostInv' BY <1>1, <1>2 DEF GhostInv, TypeInv
<1>4. TypeInv' /\ TopicsGrow /\ committed' = committed
  BY <1>1, <1>2, <1>3, BrokerSame
<1>5. PositionGoes(t) BY <1>1 DEF PositionGoes
<1>6. CountsGo(t)
  <2>1. CASE Moved(t) BY <1>2, <2>1 DEF CountsGo
  <2>2. CASE SameRing(state[UserOf[t]], new)
    BY <1>1, <1>2, <2>2 DEF CountsGo, StateSet, SameRing
  <2> QED BY <2>1, <2>2
<1> QED BY <1>4, <1>5, <1>6 DEF Other, Others, Goes, CommittedGoes, TodoGoes

(* A step that makes topics or the group appear.                           *)
LEMMA AppearOther ==
    ASSUME TypeInv, NEW t \in Threads, NEW next, Go(t, next), ThreadOK(t, next),
           thread[t].pc \notin Scanning, next.pc \notin Scanning, next.pc # "commit",
           TopicsInv', TopicsGrow, GroupInv',
           UNCHANGED << clock, committed, state, got, stray >>, Recount
    PROVE  TypeInv' /\ Other(t)
<1>1. ThreadInv' /\ Goes(t, next) BY ThreadGoes DEF TypeInv
<1>2. ReadyInv' /\ CountsEnd /\ bypassed' \in [Consumers -> [AnyTP -> Nat]]
  BY Recounted DEF TypeInv
<1>3. /\ clock' = clock /\ committed' = committed /\ state' = state /\ got' = got
      /\ stray' = stray
  OBVIOUS
<1>4. GhostInv' BY <1>2, <1>3 DEF GhostInv, TypeInv
<1>5. OffsetMap(committed)' /\ StateInv' /\ clock' \in Nat
  BY <1>3 DEF TypeInv, OffsetMap, StateInv
<1>6. TypeInv' BY <1>1, <1>2, <1>4, <1>5 DEF TypeInv
<1>7. CountsGo(t) BY <1>2, <1>3 DEF CountsGo, SameRing
<1> QED BY <1>1, <1>3, <1>6, <1>7
   DEF Other, Others, Goes, PositionGoes, CommittedGoes, TodoGoes

LEMMA CalledIdle ==
    ASSUME NEW t \in Threads, NEW name, Call(t, name)
    PROVE  /\ thread[t] = Idle /\ name \in Calls
           /\ thread[t].pc = "idle" /\ thread[t].pc \notin Scanning
BY IdleOK DEF Call, Scanning, InScan

LEMMA UserState ==
    ASSUME TypeInv, NEW t \in Threads
    PROVE  /\ UserOf[t] \in Consumers /\ ConsumerOK(state[UserOf[t]])
           /\ ThreadOK(t, thread[t])
BY ThreadsAssumption DEF TypeInv, StateInv, ThreadInv

LEMMA BeginPollStep ==
    ASSUME TypeInv, NEW t \in Threads, BeginPoll(t)
    PROVE  TypeInv' /\ Other(t)
<1>1. PICK c, len : c = state[UserOf[t]] /\ len = Len(c.assigned_partitions) OBVIOUS
<1>2. PICK next : next = Scan("look", c.poll_start % len, len, 0, << >>, {}) OBVIOUS
<1>3. /\ thread[t] = Idle /\ len > 0 /\ Go(t, next)
      /\ UNCHANGED << broker, state, ghosts >>
  BY <1>1, <1>2 DEF BeginPoll
<1>4. ConsumerOK(c) BY <1>1, UserState
<1>5. len \in Nat \ {0} /\ c.poll_start \in Nat
  BY <1>1, <1>3, <1>4, LenProperties DEF ConsumerOK
<1>6. c.poll_start % len \in Nat BY <1>5
<1>7. /\ next.pc = "look" /\ next.start = c.poll_start % len /\ next.len = len
      /\ next.i = 0
  BY <1>2 DEF Scan
<1>8. ThreadOK(t, next) BY <1>5, <1>6, <1>7 DEF ThreadOK, PCs, Scanning, InScan
<1>9. TypeInv' /\ Quiet(t) /\ thread'[t] = next BY <1>3, <1>8, QuietStep
<1>10. thread[t].pc \notin Scanning BY <1>3, IdleOK DEF Scanning, InScan
<1>11. Begins(t) BY <1>1, <1>7, <1>9 DEF Begins, Quiet
<1>12. CountsGo(t) BY <1>9 DEF Quiet, CountsGo, CountsEnd, SameRing
<1> QED BY <1>7, <1>9, <1>10, <1>11, <1>12
   DEF Quiet, Other, PositionGoes, CommittedGoes, TodoGoes

LEMMA EnsuredOK ==
    ASSUME NEW t, UserOf[t] \in Grouped, NEW ts \in Seq(Topics),
           NEW todo \in Seq(Topics), NEW next, next = Ensured(ts, todo)
    PROVE  ThreadOK(t, next) /\ next.pc \notin Scanning /\ next.pc # "commit"
<1>1. CASE todo = << >>
  <2>1. next.pc = "enter" /\ next.topics = ts BY <1>1 DEF Ensured
  <2> QED BY <2>1 DEF ThreadOK, PCs, Scanning, InScan
<1>2. CASE todo # << >>
  <2>1. next.pc = "ensure" /\ next.topics = ts /\ next.todo = todo
    BY <1>2 DEF Ensured
  <2> QED BY <1>2, <2>1 DEF ThreadOK, PCs, Scanning, InScan
<1> QED BY <1>1, <1>2

LEMMA SubscribeJoinStep ==
    ASSUME TypeInv, NEW t \in Threads, NEW ts \in ShortLists(Topics),
           subscribe_join(t, ts)
    PROVE  TypeInv' /\ Other(t)
<1>1. PICK next : next = Ensured(ts, Tail(ts)) OBVIOUS
<1>2. /\ Call(t, "subscribe") /\ UserOf[t] \in Grouped
      /\ topics' = ensure_topic({Head(ts)}) /\ group' = group /\ Go(t, next)
      /\ UNCHANGED << clock, committed, state, got, stray >> /\ Recount
  BY <1>1 DEF subscribe_join
<1>3. ts \in Seq(Topics) /\ ts # << >> BY ShortListsOK
<1>4. Head(ts) \in Topics /\ Tail(ts) \in Seq(Topics)
  BY <1>3, HeadTailProperties
<1>5. TopicsInv' /\ TopicsGrow
  <2>1. {Head(ts)} \subseteq Topics BY <1>4
  <2> QED BY <1>2, <2>1, TopicsEnsured DEF TypeInv
<1>6. ThreadOK(t, next) /\ next.pc \notin Scanning /\ next.pc # "commit"
  BY <1>1, <1>2, <1>3, <1>4, EnsuredOK
<1>7. GroupInv' BY <1>2 DEF TypeInv, GroupInv
<1>8. thread[t].pc \notin Scanning BY <1>2, CalledIdle
<1> QED BY <1>2, <1>5, <1>6, <1>7, <1>8, AppearOther

LEMMA EnsureTopicStep ==
    ASSUME TypeInv, NEW t \in Threads, EnsureTopic(t)
    PROVE  TypeInv' /\ Other(t)
<1>1. PICK s : s = thread[t] OBVIOUS
<1>2. /\ s.pc = "ensure" /\ group' = group /\ Recount
      /\ UNCHANGED << clock, committed, state, got, stray >>
      /\ \/ topics' = topics /\ Go(t, Idle)
         \/ /\ topics' = ensure_topic({Head(s.todo)})
            /\ Go(t, Ensured(s.topics, Tail(s.todo)))
  BY <1>1 DEF EnsureTopic
<1>3. /\ s.topics \in Seq(Topics) /\ s.todo \in Seq(Topics) /\ s.todo # << >>
      /\ UserOf[t] \in Grouped
  BY <1>1, <1>2, UserState DEF ThreadOK
<1>4. Head(s.todo) \in Topics /\ Tail(s.todo) \in Seq(Topics)
  BY <1>3, HeadTailProperties
<1>5. GroupInv' BY <1>2 DEF TypeInv, GroupInv
<1>6. thread[t].pc \notin Scanning BY <1>1, <1>2 DEF Scanning, InScan
<1>7. CASE topics' = topics /\ Go(t, Idle)
  <2>1. TopicsInv' /\ TopicsGrow BY <1>7, TopicsSame DEF TypeInv
  <2>2. ThreadOK(t, Idle) /\ Idle.pc \notin Scanning /\ Idle.pc # "commit"
    BY IdleOK DEF Scanning, InScan
  <2> QED BY <1>2, <1>5, <1>6, <1>7, <2>1, <2>2, AppearOther
<1>8. CASE /\ topics' = ensure_topic({Head(s.todo)})
           /\ Go(t, Ensured(s.topics, Tail(s.todo)))
  <2>1. PICK next : next = Ensured(s.topics, Tail(s.todo)) OBVIOUS
  <2>2. TopicsInv' /\ TopicsGrow
    <3>1. {Head(s.todo)} \subseteq Topics BY <1>4
    <3> QED BY <1>8, <3>1, TopicsEnsured DEF TypeInv
  <2>3. ThreadOK(t, next) /\ next.pc \notin Scanning /\ next.pc # "commit"
    BY <1>3, <1>4, <2>1, EnsuredOK
  <2> QED BY <1>2, <1>5, <1>6, <1>8, <2>1, <2>2, <2>3, AppearOther
<1> QED BY <1>2, <1>7, <1>8

LEMMA EnterGroupStep ==
    ASSUME TypeInv, NEW t \in Threads, EnterGroup(t)
    PROVE  TypeInv' /\ Other(t)
<1>1. PICK next : next = [pc |-> "join", topics |-> thread[t].topics] OBVIOUS
<1>2. /\ thread[t].pc = "enter" /\ group' = [group EXCEPT !.exists = TRUE]
      /\ Go(t, next) /\ topics' = topics /\ Recount
      /\ UNCHANGED << clock, committed, state, got, stray >>
  BY <1>1 DEF EnterGroup
<1>3. thread[t].topics \in Seq(Topics) /\ UserOf[t] \in Grouped
  BY <1>2, UserState DEF ThreadOK
<1>4. next.pc = "join" /\ next.topics = thread[t].topics BY <1>1
<1>5. ThreadOK(t, next) BY <1>3, <1>4 DEF ThreadOK, PCs, Scanning, InScan
<1>6. TopicsInv' /\ TopicsGrow BY <1>2, TopicsSame DEF TypeInv
<1>7. GroupInv' BY <1>2 DEF TypeInv, GroupInv
<1>8. /\ thread[t].pc \notin Scanning /\ next.pc \notin Scanning
      /\ next.pc # "commit"
  BY <1>2, <1>4 DEF Scanning, InScan
<1> QED BY <1>2, <1>5, <1>6, <1>7, <1>8, AppearOther

LEMMA SubscribeDirectStep ==
    ASSUME TypeInv, NEW t \in Threads, NEW ts \in ShortLists(Topics),
           subscribe_direct(t, ts)
    PROVE  TypeInv' /\ Other(t)
<1>1. PICK next : next = [pc |-> "metadata", topics |-> ts, todo |-> ts, list |-> << >>]
  OBVIOUS
<1>2. /\ Call(t, "subscribe") /\ Go(t, next) /\ UNCHANGED << broker, state, ghosts >>
  BY <1>1 DEF subscribe_direct
<1>3. ts \in Seq(Topics) /\ ts # << >> BY ShortListsOK
<1>4. /\ next.pc = "metadata" /\ next.topics = ts /\ next.todo = ts /\ next.list = << >>
      /\ DOMAIN next = {"pc", "topics", "todo", "list"}
  BY <1>1
<1>5. << >> \in Seq(AnyTP) BY EmptySeq
<1>6. ThreadOK(t, next) BY <1>3, <1>4, <1>5 DEF ThreadOK, PCs, Scanning, InScan
<1>7. next.pc \notin Scanning /\ next.pc # "commit" BY <1>4 DEF Scanning, InScan
<1> QED BY <1>2, <1>6, <1>7, CalledIdle, QuietOther

LEMMA AscendingOK ==
    ASSUME NEW topic \in Topics
    PROVE  Ascending(topic) \in Seq(AnyTP)
<1>1. NumPartitions \in Nat BY BoundsAssumption
<1>2. \A i \in 1..NumPartitions : << topic, i - 1 >> \in AnyTP BY <1>1 DEF AnyTP
<1>3. Ascending(topic) \in [1..NumPartitions -> AnyTP] BY <1>2 DEF Ascending
<1> QED BY <1>1, <1>3, SeqDef

LEMMA TopicMetadataStep ==
    ASSUME TypeInv, NEW t \in Threads, TopicMetadata(t)
    PROVE  TypeInv' /\ Other(t)
<1>1. PICK s : s = thread[t] OBVIOUS
<1>2. PICK list : list = IF ~ shut.broker /\ ~ shut.backend /\ get_topic(Head(s.todo))
                         THEN s.list \o Ascending(Head(s.todo)) ELSE s.list
  OBVIOUS
<1>3. PICK next : next = IF Tail(s.todo) = << >>
                         THEN [pc |-> "apply", topics |-> s.topics, list |-> list]
                         ELSE [s EXCEPT !.todo = Tail(@), !.list = list]
  OBVIOUS
<1>4. s.pc = "metadata" /\ Go(t, next) /\ UNCHANGED << broker, state, ghosts >>
  BY <1>1, <1>2, <1>3 DEF TopicMetadata
<1>5. /\ s.topics \in Seq(Topics) /\ s.list \in Seq(AnyTP)
      /\ s.todo \in Seq(Topics) /\ s.todo # << >>
      /\ DOMAIN s = {"pc", "topics", "todo", "list"}
  BY <1>1, <1>4, UserState DEF ThreadOK
<1>6. Head(s.todo) \in Topics /\ Tail(s.todo) \in Seq(Topics)
  BY <1>5, HeadTailProperties
<1>7. list \in Seq(AnyTP)
  <2>1. Ascending(Head(s.todo)) \in Seq(AnyTP) BY <1>6, AscendingOK
  <2> QED BY <1>2, <1>5, <2>1, ConcatProperties
<1>8. ThreadOK(t, next) /\ next.pc \in {"apply", "metadata"}
  <2>1. CASE Tail(s.todo) = << >>
    <3>1. next.pc = "apply" /\ next.topics = s.topics /\ next.list = list
      BY <1>3, <2>1
    <3> QED BY <1>5, <1>7, <3>1 DEF ThreadOK, PCs, Scanning, InScan
  <2>2. CASE Tail(s.todo) # << >>
    <3>1. /\ next.pc = "metadata" /\ next.topics = s.topics /\ next.list = list
          /\ next.todo = Tail(s.todo) /\ DOMAIN next = DOMAIN s
      BY <1>3, <1>4, <1>5, <2>2
    <3> QED BY <1>5, <1>6, <1>7, <2>2, <3>1 DEF ThreadOK, PCs, Scanning, InScan
  <2> QED BY <2>1, <2>2
<1>9. next.pc \notin Scanning /\ next.pc # "commit" /\ thread[t].pc \notin Scanning
  BY <1>1, <1>4, <1>8 DEF Scanning, InScan
<1> QED BY <1>4, <1>8, <1>9, QuietOther

LEMMA ApplyStep ==
    ASSUME TypeInv, NEW t \in Threads, ApplyAssignment(t)
    PROVE  TypeInv' /\ Other(t)
<1>1. PICK s, c : s = thread[t] /\ c = state[UserOf[t]] OBVIOUS
<1>2. PICK new : new = [c EXCEPT !.subscribed_topics = s.topics,
                                 !.assigned_partitions = s.list]
  OBVIOUS
<1>3. /\ s.pc = "apply" /\ SetState(t, new) /\ Moved(t) /\ Go(t, Idle)
      /\ UNCHANGED << broker, got >>
  BY <1>1, <1>2 DEF ApplyAssignment
<1>4. s.list \in Seq(AnyTP) /\ ConsumerOK(c) BY <1>1, <1>3, UserState DEF ThreadOK
<1>5. ConsumerOK(new) /\ new.position = c.position
  BY <1>2, <1>4 DEF ConsumerOK
<1>6. ThreadInv' /\ Goes(t, Idle) BY <1>3, IdleOK, ThreadGoes DEF TypeInv
<1>7. thread[t].pc \notin Scanning /\ Idle.pc \notin Scanning /\ Idle.pc # "commit"
  BY <1>1, <1>3, IdleOK DEF Scanning, InScan
<1> QED BY <1>1, <1>3, <1>5, <1>6, <1>7, SetOther

LEMMA UnsubscribeStep ==
    ASSUME TypeInv, NEW t \in Threads, unsubscribe(t)
    PROVE  TypeInv' /\ Other(t)
<1>1. /\ Call(t, "unsubscribe") /\ UNCHANGED << broker, state, ghosts >>
      /\ \/ Go(t, [pc |-> "leave", known |-> DOMAIN topics])
         \/ Go(t, [pc |-> "clear"])
  BY DEF unsubscribe
<1>2. PICK next : Go(t, next) /\ next.pc \in {"leave", "clear"}
  <2>1. CASE Go(t, [pc |-> "leave", known |-> DOMAIN topics])
    <3>1. PICK x : x = [pc |-> "leave", known |-> DOMAIN topics] OBVIOUS
    <3>2. Go(t, x) /\ x.pc = "leave" BY <2>1, <3>1
    <3> QED BY <3>2
  <2>2. CASE Go(t, [pc |-> "clear"])
    <3>1. PICK x : x = [pc |-> "clear"] OBVIOUS
    <3>2. Go(t, x) /\ x.pc = "clear" BY <2>2, <3>1
    <3> QED BY <3>2
  <2> QED BY <1>1, <2>1, <2>2
<1>3. "unsubscribe" \in Calls BY <1>1, CalledIdle
<1>4. ThreadOK(t, next) BY <1>2, <1>3 DEF ThreadOK, PCs, Scanning, InScan
<1>5. next.pc \notin Scanning /\ next.pc # "commit" BY <1>2 DEF Scanning, InScan
<1> QED BY <1>1, <1>2, <1>4, <1>5, CalledIdle, QuietOther

LEMMA ClearStep ==
    ASSUME TypeInv, NEW t \in Threads, ClearState(t)
    PROVE  TypeInv' /\ Other(t)
<1>1. PICK c : c = state[UserOf[t]] OBVIOUS
<1>2. PICK new : new = [NewConsumer EXCEPT !.poll_start = c.poll_start] OBVIOUS
<1>3. /\ thread[t].pc = "clear" /\ SetState(t, new) /\ Moved(t) /\ Go(t, Idle)
      /\ UNCHANGED << broker, got >>
  BY <1>1, <1>2 DEF ClearState
<1>4. ConsumerOK(c) /\ "unsubscribe" \in Calls BY <1>1, <1>3, UserState DEF ThreadOK
<1>5. ConsumerOK(new) /\ new.position = Group!EmptyMap
  BY <1>2, <1>4, NewConsumerOK DEF ConsumerOK
<1>6. ThreadInv' /\ Goes(t, Idle) BY <1>3, IdleOK, ThreadGoes DEF TypeInv
<1>7. thread[t].pc \notin Scanning /\ Idle.pc \notin Scanning /\ Idle.pc # "commit"
  BY <1>3, IdleOK DEF Scanning, InScan
<1>8. Calls \cap {"assign", "unsubscribe"} # {} BY <1>4
<1> QED BY <1>3, <1>5, <1>6, <1>7, <1>8, SetOther

(* A call that sets the state at once.                                     *)
LEMMA SetCall ==
    ASSUME TypeInv, NEW t \in Threads, NEW name, Call(t, name),
           NEW new, SetState(t, new), ConsumerOK(new),
           \/ Moved(t)
           \/ Recount /\ SameRing(state[UserOf[t]], new),
           UNCHANGED << broker, thread, got >>,
           \/ new.position = state[UserOf[t]].position
           \/ /\ new.position = Group!EmptyMap
              /\ Calls \cap {"assign", "unsubscribe"} # {}
           \/ Calls \cap {"seek", "store_offset"} # {}
    PROVE  TypeInv' /\ Other(t)
<1>1. thread[t] = Idle /\ thread[t].pc \notin Scanning BY CalledIdle
<1>2. ThreadInv' /\ Goes(t, Idle) BY <1>1, ThreadStays DEF TypeInv
<1>3. Idle.pc \notin Scanning /\ Idle.pc # "commit" BY IdleOK DEF Scanning, InScan
<1>4. UNCHANGED broker /\ got' = got OBVIOUS
<1> QED BY <1>1, <1>2, <1>3, <1>4, SetOther

LEMMA AssignStep ==
    ASSUME TypeInv, NEW t \in Threads, NEW list \in ShortLists(AnyTP) \cup {<< >>},
           assign(t, list)
    PROVE  TypeInv' /\ Other(t)
<1>1. PICK c : c = state[UserOf[t]] OBVIOUS
<1>2. PICK new : new = [c EXCEPT !.assigned_partitions = list,
                                 !.position = Group!EmptyMap]
  OBVIOUS
<1>3. /\ Call(t, "assign") /\ SetState(t, new) /\ Moved(t)
      /\ UNCHANGED << broker, thread, got >>
  BY <1>1, <1>2 DEF assign
<1>4. list \in Seq(AnyTP) BY ShortListsOK, EmptySeq
<1>5. ConsumerOK(c) BY <1>1, UserState
<1>6. ConsumerOK(new) /\ new.position = Group!EmptyMap
  BY <1>2, <1>4, <1>5, EmptyMapOK DEF ConsumerOK
<1>7. "assign" \in Calls BY <1>3, CalledIdle
<1>8. Calls \cap {"assign", "unsubscribe"} # {} BY <1>7
<1> QED BY <1>3, <1>6, <1>8, SetCall

LEMMA StoreOffsetStep ==
    ASSUME TypeInv, NEW t \in Threads, NEW tp \in AnyTP,
           NEW offset \in Offsets, store_offset(t, tp, offset)
    PROVE  TypeInv' /\ Other(t)
<1>1. PICK c : c = state[UserOf[t]] OBVIOUS
<1>2. PICK new : new = [c EXCEPT !.position = Group!Insert(@, tp, offset)] OBVIOUS
<1>3. /\ Call(t, "store_offset") /\ SetState(t, new) /\ Recount
      /\ UNCHANGED << broker, thread, got >>
  BY <1>1, <1>2 DEF store_offset, SetPosition
<1>4. ConsumerOK(c) /\ offset \in Int BY <1>1, UserState, OffsetsAssumption
<1>5. ConsumerOK(new) /\ SameRing(c, new) BY <1>2, <1>4, PositionSet DEF SameRing
<1>6. "store_offset" \in Calls BY <1>3, CalledIdle
<1>7. Calls \cap {"seek", "store_offset"} # {} BY <1>6
<1> QED BY <1>1, <1>3, <1>5, <1>7, SetCall

LEMMA PauseStep ==
    ASSUME TypeInv, NEW t \in Threads, NEW tp \in AnyTP, pause(t, {tp})
    PROVE  TypeInv' /\ Other(t)
<1>1. PICK c : c = state[UserOf[t]] OBVIOUS
<1>2. PICK new : new = [c EXCEPT !.paused = @ \cup {tp}] OBVIOUS
<1>3. /\ Call(t, "pause") /\ SetState(t, new) /\ Recount
      /\ UNCHANGED << broker, thread, got >>
  BY <1>1, <1>2 DEF pause
<1>4. ConsumerOK(c) BY <1>1, UserState
<1>5. ConsumerOK(new) /\ new.position = c.position BY <1>2, <1>4 DEF ConsumerOK
<1>6. SameRing(c, new) BY <1>2, <1>4 DEF ConsumerOK, SameRing
<1> QED BY <1>1, <1>3, <1>5, <1>6, SetCall

LEMMA ResumeStep ==
    ASSUME TypeInv, NEW t \in Threads, NEW tp \in AnyTP, resume(t, {tp})
    PROVE  TypeInv' /\ Other(t)
<1>1. PICK c : c = state[UserOf[t]] OBVIOUS
<1>2. PICK new : new = [c EXCEPT !.paused = @ \ {tp}] OBVIOUS
<1>3. /\ Call(t, "resume") /\ SetState(t, new) /\ Recount
      /\ UNCHANGED << broker, thread, got >>
  BY <1>1, <1>2 DEF resume
<1>4. ConsumerOK(c) BY <1>1, UserState
<1>5. ConsumerOK(new) /\ new.position = c.position BY <1>2, <1>4 DEF ConsumerOK
<1>6. SameRing(c, new) BY <1>2, <1>4 DEF ConsumerOK, SameRing
<1> QED BY <1>1, <1>3, <1>5, <1>6, SetCall

(* What a member is given are partitions of its own topics.                *)
LEMMA JoinedFacts ==
    ASSUME NEW g, {"members", "member_topics", "assignments"} \subseteq DOMAIN g,
           NEW c, NEW ts, NEW joined,
           joined = Group!Joined(g, c, ts, [topic \in ts |-> NumPartitions])
    PROVE  /\ {"members", "member_topics", "assignments"} \subseteq DOMAIN joined
           /\ joined.members = g.members \cup {c}
           /\ joined.assignments[c] \subseteq ts \X (0..(NumPartitions - 1))
<1>1. PICK counts, g1 : /\ counts = [topic \in ts |-> NumPartitions]
                        /\ g1 = [g EXCEPT !.members = @ \cup {c},
                                          !.member_topics = Group!Insert(@, c, ts)]
  OBVIOUS
<1>2. /\ {"members", "member_topics", "assignments"} \subseteq DOMAIN g1
      /\ g1.members = g.members \cup {c}
      /\ g1.member_topics = Group!Insert(g.member_topics, c, ts)
  BY <1>1
<1>3. joined = [g1 EXCEPT !.assignments = Group!assign(g1.member_topics, counts)]
  BY <1>1, <1>2 DEF Group!Joined, Group!rebalance
<1>4. /\ {"members", "member_topics", "assignments"} \subseteq DOMAIN joined
      /\ joined.members = g1.members
      /\ joined.assignments = Group!assign(g1.member_topics, counts)
  BY <1>2, <1>3
<1>5. PICK mt : mt = g1.member_topics OBVIOUS
<1>6. c \in DOMAIN mt /\ mt[c] = ts BY <1>2, <1>5 DEF Group!Insert
<1>7. Group!assign(mt, counts)[c] =
         UNION {{<< t, p >> : p \in {q \in 0..(counts[t] - 1) :
                                 Group!GetsPartition(mt, c, t, q)}}
                : t \in mt[c] \cap DOMAIN counts}
  BY <1>6 DEF Group!assign
<1>8. \A t \in ts : counts[t] = NumPartitions BY <1>1
<1>9. joined.assignments[c] \subseteq ts \X (0..(NumPartitions - 1))
  BY <1>4, <1>5, <1>6, <1>7, <1>8
<1> QED BY <1>2, <1>4, <1>9

LEMMA ListsOK ==
    ASSUME NEW ts \in Seq(Topics), NEW S,
           S \subseteq Range(ts) \X (0..(NumPartitions - 1)), NEW list \in ListsOf(S)
    PROVE  list \in Seq(AnyTP)
<1>1. NumPartitions \in Nat BY BoundsAssumption
<1>2. Range(ts) \subseteq Topics /\ IsFiniteSet(Range(ts)) BY RangeFacts
<1>3. PICK R, P : R = Range(ts) /\ P = 0..(NumPartitions - 1) OBVIOUS
<1>4. IsFiniteSet(R) /\ IsFiniteSet(P) BY <1>1, <1>2, <1>3, FS_Interval
<1>5. IsFiniteSet(R \X P) BY <1>4, FS_Product
<1>6. S \in SUBSET (R \X P) BY <1>3
<1>7. IsFiniteSet(S) BY <1>5, <1>6, FS_Subset
<1>8. Cardinality(S) \in Nat BY <1>7, FS_CardinalityType
<1>9. S \subseteq AnyTP BY <1>1, <1>2, <1>3, <1>6 DEF AnyTP
<1>10. list \in [1..Cardinality(S) -> S] BY DEF ListsOf
<1>11. list \in [1..Cardinality(S) -> AnyTP] BY <1>9, <1>10
<1> QED BY <1>8, <1>11, SeqDef

LEMMA JoinGroupStep ==
    ASSUME TypeInv, NEW t \in Threads, JoinGroup(t)
    PROVE  TypeInv' /\ Other(t)
<1>1. PICK s, c, ts : s = thread[t] /\ c = UserOf[t] /\ ts = Range(s.topics) OBVIOUS
<1>2. PICK joined : joined = Group!Joined(group.state, c, ts,
                                          [topic \in ts |-> NumPartitions])
  OBVIOUS
<1>3. /\ s.pc = "join" /\ UNCHANGED << topics, clock, committed, state, ghosts >>
      /\ IF shut.backend
         THEN UNCHANGED group /\ Go(t, Idle)
         ELSE /\ group' = [group EXCEPT !.state = joined]
              /\ \E list \in ListsOf(joined.assignments[c]) :
                    Go(t, [pc |-> "apply", topics |-> s.topics, list |-> list])
  BY <1>1, <1>2 DEF JoinGroup
<1>4. s.topics \in Seq(Topics) BY <1>1, <1>3, UserState DEF ThreadOK
<1>5. s.pc \notin Scanning BY <1>3 DEF Scanning, InScan
<1>6. CASE shut.backend
  <2>2. ThreadInv' /\ Goes(t, Idle) BY <1>3, <1>6, IdleOK, ThreadGoes DEF TypeInv
  <2>3. GhostInv' /\ UNCHANGED << got, bypassed, stray >> BY <1>3, GhostsSame DEF TypeInv
  <2>4. TopicsInv' /\ TopicsGrow BY <1>3, TopicsSame DEF TypeInv
  <2>5. GroupInv' /\ OffsetMap(committed)' /\ StateInv' /\ clock' \in Nat
    BY <1>3, <1>6 DEF TypeInv, GroupInv, OffsetMap, StateInv
  <2>6. group'.exists = group.exists BY <1>3, <1>6
  <2>7. ReadyInv' /\ CountsEnd BY <1>3, <2>3, <2>6, CountsSame DEF TypeInv
  <2>8. TypeInv' BY <2>2, <2>3, <2>4, <2>5, <2>7 DEF TypeInv
  <2>9. CountsGo(t) BY <1>3, <2>7 DEF CountsGo, SameRing
  <2> QED BY <1>1, <1>3, <1>5, <2>2, <2>3, <2>4, <2>8, <2>9, IdleOK
     DEF Other, Others, Goes, PositionGoes, CommittedGoes, TodoGoes, Scanning, InScan
<1>7. CASE ~ shut.backend
  <2>1. /\ {"members", "member_topics", "assignments"} \subseteq DOMAIN joined
        /\ joined.members = group.state.members \cup {c}
        /\ joined.assignments[c] \subseteq ts \X (0..(NumPartitions - 1))
    BY <1>2, JoinedFacts DEF TypeInv, GroupInv
  <2>2. PICK list \in ListsOf(joined.assignments[c]) :
           Go(t, [pc |-> "apply", topics |-> s.topics, list |-> list])
    BY <1>3, <1>7
  <2>3. list \in Seq(AnyTP) BY <1>1, <1>4, <2>1, ListsOK
  <2>4. PICK next : next = [pc |-> "apply", topics |-> s.topics, list |-> list]
    OBVIOUS
  <2>5. next.pc = "apply" /\ next.topics = s.topics /\ next.list = list BY <2>4
  <2>6. ThreadOK(t, next) BY <1>4, <2>3, <2>5 DEF ThreadOK, PCs, Scanning, InScan
  <2>7. ThreadInv' /\ Goes(t, next) BY <2>2, <2>4, <2>6, ThreadGoes DEF TypeInv
  <2>8. GhostInv' /\ UNCHANGED << got, bypassed, stray >> BY <1>3, GhostsSame DEF TypeInv
  <2>9. TopicsInv' /\ TopicsGrow BY <1>3, TopicsSame DEF TypeInv
  <2>10. c \in Grouped
    BY <1>1, <1>3, UserState DEF ThreadOK
  <2>11. GroupInv'
    <3>1. {"exists", "state"} \subseteq DOMAIN group' /\ group'.state = joined
      BY <1>3, <1>7 DEF TypeInv, GroupInv
    <3> QED BY <2>1, <2>10, <3>1 DEF TypeInv, GroupInv
  <2>12. OffsetMap(committed)' /\ StateInv' /\ clock' \in Nat
    BY <1>3 DEF TypeInv, OffsetMap, StateInv
  <2>13. group'.exists = group.exists BY <1>3, <1>7 DEF TypeInv, GroupInv
  <2>14. ReadyInv' /\ CountsEnd BY <1>3, <2>8, <2>13, CountsSame DEF TypeInv
  <2>15. TypeInv' BY <2>7, <2>8, <2>9, <2>11, <2>12, <2>14 DEF TypeInv
  <2>16. CountsGo(t) BY <1>3, <2>14 DEF CountsGo, SameRing
  <2> QED BY <1>1, <1>3, <1>5, <2>5, <2>7, <2>8, <2>9, <2>15, <2>16
     DEF Other, Others, Goes, PositionGoes, CommittedGoes, TodoGoes, Scanning, InScan
<1> QED BY <1>6, <1>7

LEMMA LeaveStep ==
    ASSUME TypeInv, NEW t \in Threads, LeaveGroup(t)
    PROVE  TypeInv' /\ Other(t)
<1>1. PICK next, left :
         /\ next = [pc |-> "clear"]
         /\ left = Group!Left(group.state, UserOf[t],
                              [topic \in thread[t].known |-> NumPartitions])
  OBVIOUS
<1>2. /\ thread[t].pc = "leave" /\ group' = [group EXCEPT !.state = left]
      /\ Go(t, next) /\ UNCHANGED << topics, clock, committed, state, ghosts >>
  BY <1>1 DEF LeaveGroup
<1>3. /\ {"members", "member_topics", "assignments"} \subseteq DOMAIN left
      /\ left.members \subseteq group.state.members
  <2>1. PICK rest : rest = [group.state EXCEPT
                               !.members = @ \ {UserOf[t]},
                               !.member_topics = Group!Remove(@, UserOf[t]),
                               !.assignments = Group!Remove(@, UserOf[t])]
    OBVIOUS
  <2>2. /\ {"members", "member_topics", "assignments"} \subseteq DOMAIN rest
        /\ rest.members \subseteq group.state.members
    BY <2>1 DEF TypeInv, GroupInv
  <2>3. left = rest \/ \E x : left = [rest EXCEPT !.assignments = x]
    BY <1>1, <2>1 DEF Group!Left, Group!rebalance
  <2> QED BY <2>2, <2>3
<1>4. "unsubscribe" \in Calls BY <1>2, UserState DEF ThreadOK
<1>5. next.pc = "clear" BY <1>1
<1>6. ThreadOK(t, next) BY <1>4, <1>5 DEF ThreadOK, PCs, Scanning, InScan
<1>7. ThreadInv' /\ Goes(t, next) BY <1>2, <1>6, ThreadGoes DEF TypeInv
<1>8. GhostInv' /\ UNCHANGED << got, bypassed, stray >> BY <1>2, GhostsSame DEF TypeInv
<1>9. TopicsInv' /\ TopicsGrow BY <1>2, TopicsSame DEF TypeInv
<1>10. GroupInv'
  <2>1. {"exists", "state"} \subseteq DOMAIN group' /\ group'.state = left
    BY <1>2 DEF TypeInv, GroupInv
  <2> QED BY <1>3, <2>1 DEF TypeInv, GroupInv
<1>11. OffsetMap(committed)' /\ StateInv' /\ clock' \in Nat
  BY <1>2 DEF TypeInv, OffsetMap, StateInv
<1>12. group'.exists = group.exists BY <1>2 DEF TypeInv, GroupInv
<1>13. ReadyInv' /\ CountsEnd BY <1>2, <1>8, <1>12, CountsSame DEF TypeInv
<1>14. TypeInv' BY <1>7, <1>8, <1>9, <1>10, <1>11, <1>13 DEF TypeInv
<1>15. CountsGo(t) BY <1>2, <1>13 DEF CountsGo, SameRing
<1> QED BY <1>2, <1>5, <1>7, <1>8, <1>9, <1>14, <1>15
   DEF Other, Others, Goes, PositionGoes, CommittedGoes, TodoGoes, Scanning, InScan

LEMMA SeekStep ==
    ASSUME TypeInv, NEW t \in Threads, NEW tp \in AnyTP, NEW where \in SeekTargets,
           seek(t, tp, where)
    PROVE  TypeInv' /\ Other(t)
<1>1. PICK at, next : /\ at = SeekTarget(UserOf[t], tp, where)
                      /\ next = [pc |-> "seek", tp |-> tp, at |-> at]
  OBVIOUS
<1>2. /\ Call(t, "seek") /\ SeekAllowed(UserOf[t], tp, where) /\ Go(t, next)
      /\ UNCHANGED << broker, state, ghosts >>
  BY <1>1 DEF seek
<1>3. /\ where.kind \in {"Beginning", "End", "Stored", "Offset", "OffsetTail"}
      /\ where.n \in Int
  <2>1. CASE where \in [kind : {"Beginning", "End", "Stored"}, n : {0}] BY <2>1
  <2>2. CASE where \in [kind : {"Offset", "OffsetTail"}, n : Offsets]
    BY <2>2, OffsetsAssumption
  <2> QED BY <2>1, <2>2 DEF SeekTargets
<1>4. at \in Int
  <2>1. CASE where.kind \in {"Beginning", "End", "OffsetTail"}
    <3>1. Known(tp) BY <1>2, <2>1 DEF SeekAllowed
    <3>2. PICK b : b = Buffer(tp) OBVIOUS
    <3>3. BufferOK(b) BY <3>1, <3>2, KnownBuffer DEF TypeInv
    <3>4. watermarks(b).oldest \in Int /\ watermarks(b).newest + 1 \in Int
      BY <3>3, BufferBounds DEF BufferOK
    <3>5. TailOffset(watermarks(b).newest + 1, where.n) \in Int
      BY <1>3, <3>4 DEF TailOffset
    <3>6. CASE where.kind = "Beginning" BY <1>1, <3>2, <3>4, <3>6 DEF SeekTarget
    <3>7. CASE where.kind = "End" BY <1>1, <3>2, <3>4, <3>7 DEF SeekTarget
    <3>8. CASE where.kind = "OffsetTail" BY <1>1, <3>2, <3>5, <3>8 DEF SeekTarget
    <3> QED BY <2>1, <3>6, <3>7, <3>8
  <2>2. CASE where.kind = "Stored" BY <1>1, <2>2 DEF SeekTarget, TypeInv, OffsetMap
  <2>3. CASE where.kind = "Offset" BY <1>1, <1>3, <2>3 DEF SeekTarget
  <2> QED BY <1>3, <2>1, <2>2, <2>3
<1>5. next.pc = "seek" /\ next.tp = tp /\ next.at = at BY <1>1
<1>6. "seek" \in Calls BY <1>2, CalledIdle
<1>7. ThreadOK(t, next) BY <1>4, <1>5, <1>6 DEF ThreadOK, PCs, Scanning, InScan
<1>8. next.pc \notin Scanning /\ next.pc # "commit" BY <1>5 DEF Scanning, InScan
<1> QED BY <1>2, <1>7, <1>8, CalledIdle, QuietOther

LEMMA SeekToStep ==
    ASSUME TypeInv, NEW t \in Threads, SeekTo(t)
    PROVE  TypeInv' /\ Other(t)
<1>1. PICK s, c : s = thread[t] /\ c = state[UserOf[t]] OBVIOUS
<1>2. PICK new : new = [c EXCEPT !.position = Group!Insert(@, s.tp, s.at)] OBVIOUS
<1>3. /\ s.pc = "seek" /\ SetState(t, new) /\ Recount /\ Go(t, Idle)
      /\ UNCHANGED << broker, got >>
  BY <1>1, <1>2 DEF SeekTo, SetPosition
<1>4. ConsumerOK(c) /\ s.tp \in AnyTP /\ s.at \in Int /\ "seek" \in Calls
  BY <1>1, <1>3, UserState DEF ThreadOK
<1>5. ConsumerOK(new) /\ SameRing(c, new) BY <1>2, <1>4, PositionSet DEF SameRing
<1>6. ThreadInv' /\ Goes(t, Idle) BY <1>3, IdleOK, ThreadGoes DEF TypeInv
<1>7. thread[t].pc \notin Scanning /\ Idle.pc \notin Scanning /\ Idle.pc # "commit"
  BY <1>1, <1>3, IdleOK DEF Scanning, InScan
<1>8. Calls \cap {"seek", "store_offset"} # {} BY <1>4
<1> QED BY <1>1, <1>3, <1>5, <1>6, <1>7, <1>8, SetOther

LEMMA ConsumedOK ==
    ASSUME TypeInv, NEW c \in Consumers
    PROVE  Consumed(c) \subseteq AnyTP \X Nat
<1>1. \A tp \in AnyTP : Range(got[c][tp]) \subseteq Nat
  BY RangeFacts DEF TypeInv, GhostInv
<1> QED BY <1>1 DEF Consumed

LEMMA CommitStep ==
    ASSUME TypeInv, NEW t \in Threads, NEW list \in ShortLists(Committable(UserOf[t])),
           commit(t, list)
    PROVE  TypeInv' /\ Other(t)
<1>1. PICK next : next = [pc |-> "commit", todo |-> list] OBVIOUS
<1>2. /\ Call(t, "commit") /\ UserOf[t] \in Grouped /\ Go(t, next)
      /\ UNCHANGED << broker, state, ghosts >>
  BY <1>1 DEF commit
<1>3. list \in Seq(Committable(UserOf[t])) /\ list # << >> BY ShortListsOK
<1>4. list \in Seq(AnyTP \X Int)
  <2>1. Committable(UserOf[t]) \subseteq AnyTP \X Int
    <3>1. Consumed(UserOf[t]) \subseteq AnyTP \X Nat BY UserState, ConsumedOK
    <3>2. AnyTP \X Nat \subseteq AnyTP \X Int OBVIOUS
    <3>3. AnyTP \X Offsets \subseteq AnyTP \X Int BY OffsetsAssumption
    <3> QED BY <3>1, <3>2, <3>3 DEF Committable
  <2> QED BY <1>3, <2>1, SeqMonotonic
<1>5. next.pc = "commit" /\ next.todo = list BY <1>1
<1>6. ThreadOK(t, next) BY <1>3, <1>4, <1>5 DEF ThreadOK, PCs, Scanning, InScan
<1>7. Range(next.todo) \subseteq Consumed(UserOf[t]) \/ CommitsAnything
  BY <1>3, <1>5, RangeFacts DEF Committable, CommitsAnything
<1>8. next.pc \notin Scanning BY <1>5 DEF Scanning, InScan
<1> QED BY <1>2, <1>6, <1>7, <1>8, CalledIdle, QuietOther

LEMMA CommitMessageStep ==
    ASSUME TypeInv, NEW t \in Threads, NEW tp \in AnyTP,
           NEW offset \in Range(got[UserOf[t]][tp]), commit_message(t, tp, offset)
    PROVE  TypeInv' /\ Other(t)
<1>1. PICK list, next : /\ list = << << tp, offset + 1 >> >>
                        /\ next = [pc |-> "commit", todo |-> list]
  OBVIOUS
<1>2. /\ Call(t, "commit_message") /\ Go(t, next) /\ UNCHANGED << broker, state, ghosts >>
  BY <1>1 DEF commit_message
<1>3. offset \in Nat BY UserState, RangeFacts DEF TypeInv, GhostInv
<1>4. list \in Seq(AnyTP \X Int) /\ list # << >>
  <2>1. PICK x : x = << tp, offset + 1 >> OBVIOUS
  <2>2. x \in AnyTP \X Int BY <1>3, <2>1
  <2> QED BY <1>1, <2>1, <2>2
<1>5. next.pc = "commit" /\ next.todo = list BY <1>1
<1>6. ThreadOK(t, next) BY <1>4, <1>5 DEF ThreadOK, PCs, Scanning, InScan
<1>7. next.pc \notin Scanning BY <1>5 DEF Scanning, InScan
<1>8. CommitsAnything BY <1>2, CalledIdle DEF CommitsAnything
<1> QED BY <1>2, <1>6, <1>7, <1>8, CalledIdle, QuietOther

LEMMA CommitNextStep ==
    ASSUME TypeInv, NEW t \in Threads, CommitNext(t)
    PROVE  TypeInv' /\ Other(t)
<1>1. PICK s, first : s = thread[t] /\ first = Head(s.todo) OBVIOUS
<1>2. /\ s.pc = "commit" /\ UNCHANGED << topics, clock, group, state, got, stray >>
      /\ Recount
      /\ \/ UNCHANGED committed /\ Go(t, Idle)
         \/ /\ committed' = Group!Insert(committed, first[1], first[2])
            /\ Go(t, IF Tail(s.todo) = << >> THEN Idle
                     ELSE [pc |-> "commit", todo |-> Tail(s.todo)])
  BY <1>1 DEF CommitNext, commit_offset
<1>3. s.todo \in Seq(AnyTP \X Int) /\ s.todo # << >>
  BY <1>1, <1>2, UserState DEF ThreadOK
<1>4. first \in AnyTP \X Int /\ Tail(s.todo) \in Seq(AnyTP \X Int)
  BY <1>1, <1>3, HeadTailProperties
<1>5. OffsetMap(committed)' /\ CommittedGoes(t)
  <2>1. CASE committed' = committed BY <2>1 DEF TypeInv, OffsetMap, CommittedGoes
  <2>2. CASE committed' = Group!Insert(committed, first[1], first[2])
    <3>1. first[1] \in AnyTP /\ first[2] \in Int BY <1>4
    <3>2. OffsetMap(committed') BY <2>2, <3>1, InsertOK DEF TypeInv
    <3>3. CommittedGoes(t) BY <1>1, <1>2, <2>2 DEF CommittedGoes
    <3> QED BY <3>2, <3>3 DEF OffsetMap
  <2> QED BY <1>2, <2>1, <2>2
<1>6. PICK next : /\ Go(t, next) /\ ThreadOK(t, next) /\ next.pc \notin Scanning
                  /\ next.pc = "commit" => next.todo = Tail(s.todo)
  <2>1. CASE Go(t, Idle) BY <2>1, IdleOK DEF Scanning, InScan
  <2>2. CASE Tail(s.todo) # << >> /\ Go(t, [pc |-> "commit", todo |-> Tail(s.todo)])
    <3>1. PICK x : x = [pc |-> "commit", todo |-> Tail(s.todo)] OBVIOUS
    <3>2. x.pc = "commit" /\ x.todo = Tail(s.todo) BY <3>1
    <3>3. ThreadOK(t, x) BY <1>4, <2>2, <3>2 DEF ThreadOK, PCs, Scanning, InScan
    <3> QED BY <2>2, <3>1, <3>2, <3>3 DEF Scanning, InScan
  <2> QED BY <1>2, <2>1, <2>2
<1>7. ThreadInv' /\ Goes(t, next) BY <1>6, ThreadGoes DEF TypeInv
<1>8. ReadyInv' /\ CountsEnd /\ GhostInv'
  BY <1>2, Recounted DEF TypeInv, GhostInv
<1>9. TopicsInv' /\ TopicsGrow BY <1>2, TopicsSame DEF TypeInv
<1>10. GroupInv' /\ StateInv' /\ clock' \in Nat
  BY <1>2 DEF TypeInv, GroupInv, StateInv
<1>11. TypeInv' BY <1>5, <1>7, <1>8, <1>9, <1>10 DEF TypeInv
<1>12. CountsGo(t) BY <1>2, <1>8 DEF CountsGo, SameRing
<1>13. TodoGoes(t) BY <1>1, <1>2, <1>3, <1>6, <1>7 DEF TodoGoes, Goes
<1> QED BY <1>1, <1>2, <1>5, <1>6, <1>7, <1>8, <1>9, <1>11, <1>12, <1>13
   DEF Other, Others, Goes, PositionGoes, Scanning, InScan

-----------------------------------------------------------------------------
(* The whole next-state relation.                                          *)

(* Steps of producers, the clock and shutdown.                             *)
Outside ==
    TopicsGrow /\ UNCHANGED << committed, state, thread, got, stray >> /\ CountsEnd

LEMMA OutsideStep ==
    ASSUME TypeInv, TopicsInv', TopicsGrow, clock' \in Nat,
           UNCHANGED << group, committed, state, thread, got, stray >>,
           ReadyInv', CountsEnd, bypassed' \in [Consumers -> [AnyTP -> Nat]]
    PROVE  TypeInv' /\ Outside
<1>1. /\ group' = group /\ committed' = committed /\ state' = state
      /\ thread' = thread /\ got' = got /\ stray' = stray
  OBVIOUS
<1>2. GroupInv' /\ OffsetMap(committed)' /\ StateInv' /\ ThreadInv' /\ GhostInv'
  BY <1>1 DEF TypeInv, GroupInv, OffsetMap, StateInv, ThreadInv, GhostInv
<1> QED BY <1>1, <1>2 DEF TypeInv, Outside

(* Nothing but the clock and the flags changes.                            *)
LEMMA OutsideQuiet ==
    ASSUME TypeInv, clock' \in Nat,
           UNCHANGED << topics, group, committed, state, thread, ghosts >>
    PROVE  TypeInv' /\ Outside
<1>1. TopicsInv' /\ TopicsGrow BY TopicsSame DEF TypeInv
<1>2. /\ UNCHANGED << got, stray >> /\ UNCHANGED << state, topics, committed, bypassed >>
      /\ group'.exists = group.exists
  BY DEF ghosts
<1>3. ReadyInv' /\ CountsEnd BY <1>2, CountsSame DEF TypeInv
<1>4. bypassed' \in [Consumers -> [AnyTP -> Nat]] BY <1>2 DEF TypeInv, GhostInv
<1> QED BY <1>1, <1>2, <1>3, <1>4, OutsideStep

LEMMA ProduceStep ==
    ASSUME TypeInv, NEW tp \in AnyTP, NEW stall \in 0..1, produce(tp, stall)
    PROVE  TypeInv' /\ Outside
<1>1. UNCHANGED << group, committed, state, thread, got, stray >> /\ Recount
  BY DEF produce
<1>2. TopicsInv' /\ TopicsGrow
  <2>1. CASE /\ tp[2] \in DOMAIN ensure_topic({tp[1]})[tp[1]]
             /\ topics' = backend_produce(ensure_topic({tp[1]}), tp, stall)
    BY <2>1, TopicsProduced DEF TypeInv
  <2>2. CASE topics' = ensure_topic({tp[1]})
    <3>1. {tp[1]} \subseteq Topics BY DEF AnyTP
    <3> QED BY <2>2, <3>1, TopicsEnsured DEF TypeInv
  <2> QED BY <2>1, <2>2 DEF produce
<1>3. clock' \in Nat BY DEF produce, TypeInv
<1>4. ReadyInv' /\ CountsEnd /\ bypassed' \in [Consumers -> [AnyTP -> Nat]]
  BY <1>1, Recounted DEF TypeInv
<1> QED BY <1>1, <1>2, <1>3, <1>4, OutsideStep

LEMMA TickStep ==
    ASSUME TypeInv, Tick
    PROVE  TypeInv' /\ Outside
BY OutsideQuiet DEF Tick, TypeInv

LEMMA ShutdownStep ==
    ASSUME TypeInv, shutdown
    PROVE  TypeInv' /\ Outside
BY OutsideQuiet DEF shutdown, TypeInv

PollGoes(t) ==
    \/ LookGoes(t)
    \/ ResolveGoes(t)
    \/ OldestGoes(t)
    \/ FetchGoes(t)
    \/ ReadjustGoes(t)
    \/ AdjustGoes(t)
    \/ RecordGoes(t)

(* Every step is of one of these kinds.                                    *)
StepGoes == Outside \/ \E t \in Threads : PollGoes(t) \/ Other(t)

LEMMA StepKinds ==
    ASSUME TypeInv, [Next]_vars
    PROVE  TypeInv' /\ StepGoes
<1>1. CASE UNCHANGED vars
  <2>1. UNCHANGED << topics, group, committed, state, thread, ghosts >>
    BY <1>1 DEF vars, ghosts
  <2>2. clock' \in Nat BY <1>1 DEF vars, TypeInv
  <2> QED BY <2>1, <2>2, OutsideQuiet DEF StepGoes
<1>2. ASSUME NEW t \in Threads, poll(t) PROVE TypeInv' /\ StepGoes
  <2>1. TypeInv' /\ (PollGoes(t) \/ Other(t))
    <3>1. CASE BeginPoll(t) BY <3>1, BeginPollStep
    <3>2. CASE Look(t) BY <3>2, LookStep DEF PollGoes
    <3>3. CASE Resolve(t) BY <3>3, ResolveStep DEF PollGoes
    <3>4. CASE Oldest(t) BY <3>4, OldestStep DEF PollGoes
    <3>5. CASE Fetch(t) BY <3>5, FetchStep DEF PollGoes
    <3>6. CASE Readjust(t) BY <3>6, ReadjustStep DEF PollGoes
    <3>7. CASE Adjust(t) BY <3>7, AdjustStep DEF PollGoes
    <3>8. CASE Record(t) BY <3>8, RecordStep DEF PollGoes
    <3> QED BY <1>2, <3>1, <3>2, <3>3, <3>4, <3>5, <3>6, <3>7, <3>8 DEF poll
  <2> QED BY <2>1 DEF StepGoes
<1>3. ASSUME NEW t \in Threads, Continue(t) PROVE TypeInv' /\ StepGoes
  <2>1. TypeInv' /\ Other(t)
    BY <1>3, EnsureTopicStep, EnterGroupStep, JoinGroupStep, TopicMetadataStep, ApplyStep, LeaveStep, ClearStep,
       SeekToStep, CommitNextStep DEF Continue
  <2> QED BY <2>1 DEF StepGoes
<1>4. ASSUME NEW t \in Threads, Start(t) PROVE TypeInv' /\ StepGoes
  <2>1. TypeInv' /\ Other(t)
    <3>1. ASSUME NEW ts \in ShortLists(Topics), subscribe_join(t, ts)
          PROVE  TypeInv' /\ Other(t)
      BY <3>1, SubscribeJoinStep
    <3>2. ASSUME NEW ts \in ShortLists(Topics), subscribe_direct(t, ts)
          PROVE  TypeInv' /\ Other(t)
      BY <3>2, SubscribeDirectStep
    <3>3. ASSUME NEW list \in ShortLists(AnyTP) \cup {<< >>}, assign(t, list)
          PROVE  TypeInv' /\ Other(t)
      BY <3>3, AssignStep
    <3>4. ASSUME NEW tp \in AnyTP, NEW where \in SeekTargets, seek(t, tp, where)
          PROVE  TypeInv' /\ Other(t)
      BY <3>4, SeekStep
    <3>5. ASSUME NEW tp \in AnyTP, NEW offset \in Offsets,
                 store_offset(t, tp, offset)
          PROVE  TypeInv' /\ Other(t)
      BY <3>5, StoreOffsetStep
    <3>6. ASSUME NEW tp \in AnyTP, pause(t, {tp}) PROVE TypeInv' /\ Other(t)
      BY <3>6, PauseStep
    <3>7. ASSUME NEW tp \in AnyTP, resume(t, {tp}) PROVE TypeInv' /\ Other(t)
      BY <3>7, ResumeStep
    <3>8. ASSUME NEW list \in ShortLists(Committable(UserOf[t])), commit(t, list)
          PROVE  TypeInv' /\ Other(t)
      BY <3>8, CommitStep
    <3>9. ASSUME NEW tp \in AnyTP, NEW offset \in Range(got[UserOf[t]][tp]),
                 commit_message(t, tp, offset)
          PROVE  TypeInv' /\ Other(t)
      BY <3>9, CommitMessageStep
    <3>10. CASE unsubscribe(t) BY <3>10, UnsubscribeStep
    <3> QED BY <1>4, <3>1, <3>2, <3>3, <3>4, <3>5, <3>6, <3>7, <3>8, <3>9, <3>10
       DEF Start
  <2> QED BY <2>1 DEF StepGoes
<1>5. ASSUME NEW tp \in AnyTP, NEW stall \in 0..1, produce(tp, stall)
      PROVE  TypeInv' /\ StepGoes
  BY <1>5, ProduceStep DEF StepGoes
<1>6. CASE Tick BY <1>6, TickStep DEF StepGoes
<1>7. CASE shutdown BY <1>7, ShutdownStep DEF StepGoes
<1> QED BY <1>1, <1>2, <1>3, <1>4, <1>5, <1>6, <1>7 DEF Next

LEMMA InitTypeInv == Init => TypeInv
<1> SUFFICES ASSUME Init PROVE TypeInv
  OBVIOUS
<1>1. TopicsInv BY DEF Init, TopicsInv, Group!EmptyMap
<1>2. clock \in Nat BY DEF Init
<1>3. GroupInv BY DEF Init, GroupInv, Group!NewGroup
<1>4. OffsetMap(committed) BY EmptyMapOK DEF Init
<1>5. StateInv BY NewConsumerOK DEF Init, StateInv
<1>6. ThreadInv BY IdleOK DEF Init, ThreadInv
<1>7. GhostInv
  <2>1. << >> \in Seq(Nat) BY EmptySeq
  <2> QED BY <2>1 DEF Init, GhostInv, PerPair
<1>8. ReadyInv BY DEF Init, ReadyInv, PerPair
<1> QED BY <1>1, <1>2, <1>3, <1>4, <1>5, <1>6, <1>7, <1>8 DEF TypeInv

(* The consumers, the group and the threads keep the types TypeInv gives   *)
(* them, through every interleaving of calls.                              *)
LEMMA ConsumerTypeInv == Spec => []TypeInv
<1>1. TypeInv /\ [Next]_vars => TypeInv' BY StepKinds
<1> QED BY <1>1, InitTypeInv, PTL DEF Spec

(* TypeOK: lists and positions name topic-partitions, positions and        *)
(* committed offsets are integers, negative ones included, a scan never    *)
(* starts before the list, and only consumers with a group.id are members, *)
(* whatever calls the threads make with whatever offsets.                  *)
THEOREM ConsumerTypeOK == Spec => []TypeOK
<1>1. TypeInv => TypeOK
  BY DEF TypeInv, TypeOK, TopicsInv, OffsetMap, GroupInv, StateInv, ConsumerOK
<1> QED BY <1>1, ConsumerTypeInv, PTL
=============================================================================
