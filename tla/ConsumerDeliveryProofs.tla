----------------------- MODULE ConsumerDeliveryProofs ------------------------
(***************************************************************************)
(* What consumers are given, for any number of consumers, threads, topics  *)
(* and partitions and for any eviction.  Each result has an inductive      *)
(* invariant of its own, shown for the kinds of steps BaseConsumerProofs   *)
(* distinguishes:                                                          *)
(*                                                                         *)
(*   StopInv     what a stopped partition may still deliver                *)
(*   CoverInv    nothing retained lies behind an offset unless delivered   *)
(*   OrderInv    the next offset is beyond the last one delivered          *)
(*   RingInv     where a partition that waits is in the round              *)
(***************************************************************************)
EXTENDS BaseConsumerProofs

(* One application thread per consumer.                                    *)
OneCaller == \A t, u \in Threads : UserOf[t] = UserOf[u] => t = u

-----------------------------------------------------------------------------
(* After a partition was taken from a consumer: the deliveries made since, *)
(* and those threads may still make that had passed the test of the        *)
(* consumer's list and pauses, are fewer than its threads.  The call that  *)
(* takes the partition away occupies one thread.                           *)

Callers(c) == {t \in Threads : UserOf[t] = c}

Holding == {"resolve", "oldest", "fetch", "record"}

Holders(c, tp) ==
    {t \in Callers(c) : thread[t].pc \in Holding /\ thread[t].tp = tp}

StopOK(c, tp) ==
    IF Wanted(state[c], tp) \/ Callers(c) = {} THEN stray[c][tp] = 0
    ELSE stray[c][tp] + Cardinality(Holders(c, tp)) < Cardinality(Callers(c))

StopInv == \A c \in Consumers, tp \in AnyTP : StopOK(c, tp)

LEMMA CallersFinite ==
    ASSUME NEW c
    PROVE  /\ IsFiniteSet(Callers(c)) /\ Cardinality(Callers(c)) \in Nat
           /\ Callers(c) # {} => Cardinality(Callers(c)) > 0
<1>1. Callers(c) \in SUBSET Threads BY DEF Callers
<1>2. IsFiniteSet(Callers(c)) BY <1>1, ThreadsAssumption, FS_Subset
<1> QED BY <1>2, FS_CardinalityType, FS_EmptySet

LEMMA HoldersFinite ==
    ASSUME NEW c, NEW tp
    PROVE  /\ IsFiniteSet(Holders(c, tp)) /\ Cardinality(Holders(c, tp)) \in Nat
           /\ IsFiniteSet(Holders(c, tp)') /\ Cardinality(Holders(c, tp)') \in Nat
<1>1. Holders(c, tp) \in SUBSET Callers(c) BY DEF Holders
<1>2. Holders(c, tp)' \in SUBSET Callers(c) BY DEF Holders, Callers
<1>3. IsFiniteSet(Holders(c, tp)) BY <1>1, CallersFinite, FS_Subset
<1>4. IsFiniteSet(Holders(c, tp)') BY <1>2, CallersFinite, FS_Subset
<1> QED BY <1>3, <1>4, FS_CardinalityType

LEMMA FewerHolders ==
    ASSUME NEW c \in Consumers, NEW tp \in AnyTP, TypeInv, StopOK(c, tp),
           Wanted(state'[c], tp) <=> Wanted(state[c], tp),
           stray'[c][tp] = stray[c][tp],
           ~ Wanted(state[c], tp) => Holders(c, tp)' \subseteq Holders(c, tp)
    PROVE  StopOK(c, tp)'
<1>1. Callers(c)' = Callers(c) BY DEF Callers
<1>2. CASE Wanted(state[c], tp) \/ Callers(c) = {} BY <1>1, <1>2 DEF StopOK
<1>3. CASE ~ Wanted(state[c], tp) /\ Callers(c) # {}
  <2>1. PICK H, K, n, s : /\ H = Holders(c, tp) /\ K = Holders(c, tp)'
                          /\ n = Cardinality(Callers(c)) /\ s = stray[c][tp]
    OBVIOUS
  <2>2. K \in SUBSET H /\ IsFiniteSet(H) BY <1>3, <2>1, HoldersFinite
  <2>3. Cardinality(K) <= Cardinality(H) BY <2>2, FS_Subset
  <2>4. Cardinality(K) \in Nat /\ Cardinality(H) \in Nat /\ n \in Nat /\ s \in Nat
    BY <2>1, HoldersFinite, CallersFinite DEF TypeInv, GhostInv
  <2>5. s + Cardinality(H) < n BY <1>3, <2>1 DEF StopOK
  <2>6. s + Cardinality(K) < n BY <2>3, <2>4, <2>5
  <2> QED BY <1>1, <1>3, <2>1, <2>6 DEF StopOK
<1> QED BY <1>2, <1>3

(* Of the threads, t alone has moved, and it holds no element it did not   *)
(* hold before.                                                            *)
LEMMA NoNewHolder ==
    ASSUME NEW t \in Threads, Others(t), NEW c, NEW tp,
           ~ (thread'[t].pc \in Holding /\ thread'[t].tp = tp /\ UserOf[t] = c)
              \/ (thread[t].pc \in Holding /\ thread[t].tp = tp)
    PROVE  Holders(c, tp)' \subseteq Holders(c, tp)
BY DEF Others, Holders, Callers

LEMMA PassesHoldsNone ==
    ASSUME NEW t \in Threads, Passes(t)
    PROVE  thread'[t].pc \notin Holding
BY IdleOK DEF Passes, Ends, Holding

LEMMA StopPoll ==
    ASSUME TypeInv, TypeInv', StopInv, NEW t \in Threads, PollGoes(t)
    PROVE  StopInv'
<1> SUFFICES ASSUME NEW c \in Consumers, NEW tp \in AnyTP PROVE StopOK(c, tp)'
  BY DEF StopInv
<1>1. StopOK(c, tp) BY DEF StopInv
<1>2. ASSUME Quiet(t),
             ~ Wanted(state[c], tp) => Holders(c, tp)' \subseteq Holders(c, tp)
      PROVE  StopOK(c, tp)'
  BY <1>1, <1>2, FewerHolders DEF Quiet
<1>3. CASE LookGoes(t)
  <2>1. ASSUME ~ Wanted(state[c], tp)
        PROVE  ~ (thread'[t].pc \in Holding /\ thread'[t].tp = tp /\ UserOf[t] = c)
    BY <1>3, <2>1, PassesHoldsNone DEF LookGoes
  <2>2. Quiet(t) /\ Others(t) BY <1>3 DEF LookGoes, Quiet
  <2> QED BY <1>2, <2>1, <2>2, NoNewHolder
<1>4. CASE ResolveGoes(t) \/ OldestGoes(t) \/ FetchGoes(t)
  <2>1. Quiet(t) /\ Others(t) /\ thread[t].pc \in Holding
    BY <1>4 DEF ResolveGoes, OldestGoes, FetchGoes, Quiet, Holding
  <2>2. thread'[t].pc \notin Holding \/ thread'[t].tp = thread[t].tp
    <3>1. CASE ResolveGoes(t)
      <4>1. Ends(t) => thread'[t].pc \notin Holding BY IdleOK DEF Ends, Holding
      <4> QED BY <3>1, <4>1 DEF ResolveGoes, Keeps
    <3>2. CASE OldestGoes(t) BY <3>2, PassesHoldsNone DEF OldestGoes, Keeps
    <3>3. CASE FetchGoes(t) BY <3>3, PassesHoldsNone DEF FetchGoes, Keeps
    <3> QED BY <1>4, <3>1, <3>2, <3>3
  <2> QED BY <1>2, <2>1, <2>2, NoNewHolder
<1>5. CASE ReadjustGoes(t)
  <2>1. Quiet(t) /\ Others(t) BY <1>5 DEF ReadjustGoes, Quiet
  <2>2. thread'[t].pc \notin Holding
    BY <1>5, PassesHoldsNone DEF ReadjustGoes, Keeps, Holding
  <2> QED BY <1>2, <2>1, <2>2, NoNewHolder
<1>6. CASE AdjustGoes(t)
  <2>1. PICK s, d : s = thread[t] /\ d = state[UserOf[t]] OBVIOUS
  <2>2. s.pc = "adjust" /\ s.tp \in AnyTP /\ ConsumerOK(d) /\ UserOf[t] \in Consumers
    BY <1>6, <2>1, UserState DEF AdjustGoes, ThreadOK, Scanning, InScan
  <2>3. PICK o \in Nat : /\ s.at = {o}
                         /\ StateSet(t, [d EXCEPT !.position = Group!Insert(@, s.tp, o)])
                         /\ StraySet(t, [d EXCEPT !.position = Group!Insert(@, s.tp, o)])
    BY <1>6, <2>1 DEF AdjustGoes
  <2>4. PICK new : new = [d EXCEPT !.position = Group!Insert(@, s.tp, o)] OBVIOUS
  <2>5. new.assigned_partitions = d.assigned_partitions /\ new.paused = d.paused
    BY <2>2, <2>4, PositionSet
  <2>6. \A q : Wanted(new, q) <=> Wanted(d, q) BY <2>5 DEF Wanted
  <2>7. Wanted(state'[c], tp) <=> Wanted(state[c], tp)
    BY <2>1, <2>3, <2>4, <2>6 DEF StateSet
  <2>8. Holders(c, tp)' \subseteq Holders(c, tp)
    BY <1>6, PassesHoldsNone, NoNewHolder DEF AdjustGoes
  <2>9. stray'[c][tp] = stray[c][tp]
    <3>1. CASE c # UserOf[t] BY <2>3, <3>1 DEF StraySet
    <3>2. CASE c = UserOf[t]
      BY <1>1, <2>1, <2>3, <2>4, <2>6, <3>2 DEF StraySet, StopOK
    <3> QED BY <3>1, <3>2
  <2> QED BY <1>1, <2>7, <2>8, <2>9, FewerHolders
<1>7. CASE RecordGoes(t)
  <2>1. PICK s, u, d : s = thread[t] /\ u = UserOf[t] /\ d = state[u] OBVIOUS
  <2>2. /\ s.pc = "record" /\ s.tp \in AnyTP /\ ConsumerOK(d) /\ u \in Consumers
        /\ s.start \in Nat /\ s.len \in Nat \ {0} /\ s.i \in Nat
    BY <1>7, <2>1, UserState DEF RecordGoes, ThreadOK, Scanning, InScan
  <2>3. PICK o \in Nat :
           /\ s.at = {o}
           /\ StateSet(t, Recorded(d, s, o))
           /\ stray' = IF Wanted(d, s.tp) THEN stray
                       ELSE [stray EXCEPT ![u][s.tp] = @ + 1]
    BY <1>7, <2>1 DEF RecordGoes
  <2>4. PICK new : new = Recorded(d, s, o) OBVIOUS
  <2>5. new.assigned_partitions = d.assigned_partitions /\ new.paused = d.paused
    BY <2>2, <2>4 DEF ConsumerOK, Recorded
  <2>6. \A q : Wanted(new, q) <=> Wanted(d, q) BY <2>5 DEF Wanted
  <2>7. Wanted(state'[c], tp) <=> Wanted(state[c], tp)
    BY <2>1, <2>3, <2>4, <2>6 DEF StateSet
  <2>8. thread'[t].pc \notin Holding BY <1>7, IdleOK DEF RecordGoes, Ends, Holding
  <2>9. CASE ~ (c = u /\ tp = s.tp /\ ~ Wanted(d, s.tp))
    <3>1. stray'[c][tp] = stray[c][tp] BY <2>2, <2>3, <2>9 DEF TypeInv, GhostInv
    <3>2. Holders(c, tp)' \subseteq Holders(c, tp)
      BY <1>7, <2>8, NoNewHolder DEF RecordGoes
    <3> QED BY <1>1, <2>7, <3>1, <3>2, FewerHolders
  <2>10. CASE c = u /\ tp = s.tp /\ ~ Wanted(d, s.tp)
    <3>1. PICK H, K, n, k : /\ H = Holders(c, tp) /\ K = Holders(c, tp)'
                            /\ n = Cardinality(Callers(c)) /\ k = stray[c][tp]
      OBVIOUS
    <3>2. t \in H /\ t \in Callers(c)
      BY <2>1, <2>2, <2>10, <3>1 DEF Holders, Callers, Holding
    <3>3. K = H \ {t}
      BY <1>7, <2>8, <3>1 DEF RecordGoes, Others, Holders, Callers
    <3>4. IsFiniteSet(H) /\ Cardinality(H) \in Nat /\ n \in Nat /\ k \in Nat
      BY <3>1, HoldersFinite, CallersFinite DEF TypeInv, GhostInv
    <3>5. Cardinality(K) = Cardinality(H) - 1 BY <3>2, <3>3, <3>4, FS_RemoveElement
    <3>6. stray'[c][tp] = k + 1 BY <2>2, <2>3, <2>10, <3>1 DEF TypeInv, GhostInv
    <3>7. k + Cardinality(H) < n BY <1>1, <2>1, <2>10, <3>1, <3>2 DEF StopOK
    <3>8. (k + 1) + Cardinality(K) < n BY <3>4, <3>5, <3>7
    <3>9. ~ Wanted(state'[c], tp) BY <2>1, <2>7, <2>10
    <3>10. Callers(c)' = Callers(c) BY DEF Callers
    <3> QED BY <3>1, <3>2, <3>6, <3>8, <3>9, <3>10 DEF StopOK
  <2> QED BY <2>9, <2>10
<1> QED BY <1>3, <1>4, <1>5, <1>6, <1>7 DEF PollGoes

LEMMA StopOther ==
    ASSUME TypeInv, TypeInv', StopInv, NEW t \in Threads, Other(t)
    PROVE  StopInv'
<1> SUFFICES ASSUME NEW c \in Consumers, NEW tp \in AnyTP PROVE StopOK(c, tp)'
  BY DEF StopInv
<1>1. StopOK(c, tp) BY DEF StopInv
<1>2. thread[t].pc \notin Holding /\ thread'[t].pc \notin Holding /\ Others(t)
  BY DEF Other, Begins, Scanning, InScan, Holding
<1>3. Holders(c, tp)' \subseteq Holders(c, tp) BY <1>2, NoNewHolder
<1>4. CASE UNCHANGED << state, stray >> BY <1>1, <1>3, <1>4, FewerHolders
<1>5. ASSUME NEW new, StateSet(t, new), StraySet(t, new) PROVE StopOK(c, tp)'
  <2>1. CASE c # UserOf[t]
    <3>1. state'[c] = state[c] /\ stray'[c] = stray[c]
      BY <1>5, <2>1 DEF StateSet, StraySet
    <3> QED BY <1>1, <1>3, <3>1, FewerHolders
  <2>2. CASE c = UserOf[t]
    <3>1. /\ state'[c] = new
          /\ stray'[c][tp] = IF Wanted(new, tp) THEN 0 ELSE stray[c][tp]
      BY <1>5, <2>2 DEF StateSet, StraySet
    <3>2. CASE Wanted(new, tp) BY <3>1, <3>2 DEF StopOK
    <3>3. CASE ~ Wanted(new, tp) /\ ~ Wanted(state[c], tp)
      BY <1>1, <1>3, <3>1, <3>3, FewerHolders
    <3>4. CASE ~ Wanted(new, tp) /\ Wanted(state[c], tp)
      <4>1. stray'[c][tp] = 0 BY <1>1, <3>1, <3>4 DEF StopOK
      <4>2. PICK K, C : K = Holders(c, tp)' /\ C = Callers(c) OBVIOUS
      <4>3. t \in C /\ K \subseteq C \ {t}
        BY <1>2, <2>2, <4>2 DEF Holders, Callers
      <4>4. IsFiniteSet(C) /\ Cardinality(C) \in Nat /\ Cardinality(K) \in Nat
        BY <4>2, CallersFinite, HoldersFinite
      <4>5. IsFiniteSet(C \ {t}) /\ Cardinality(C \ {t}) = Cardinality(C) - 1
        BY <4>3, <4>4, FS_RemoveElement
      <4>6. Cardinality(K) <= Cardinality(C \ {t}) BY <4>3, <4>5, FS_Subset
      <4>7. 0 + Cardinality(K) < Cardinality(C) BY <4>4, <4>5, <4>6
      <4>8. Callers(c)' = Callers(c) BY DEF Callers
      <4> QED BY <3>1, <3>4, <4>1, <4>2, <4>3, <4>7, <4>8 DEF StopOK
    <3> QED BY <3>2, <3>3, <3>4
  <2> QED BY <2>1, <2>2
<1> QED BY <1>4, <1>5 DEF Other, PositionGoes

LEMMA StopStep ==
    ASSUME TypeInv, StopInv, [Next]_vars
    PROVE  StopInv'
<1>1. TypeInv' /\ StepGoes BY StepKinds
<1>2. CASE Outside
  <2>1. state' = state /\ thread' = thread /\ stray' = stray BY <1>2 DEF Outside
  <2> QED BY <2>1 DEF StopInv, StopOK, Holders, Callers
<1> QED BY <1>1, <1>2, StopPoll, StopOther DEF StepGoes

LEMMA StopInit == Init => StopInv
<1> SUFFICES ASSUME Init, NEW c \in Consumers, NEW tp \in AnyTP PROVE StopOK(c, tp)
  BY DEF StopInv
<1>1. stray[c][tp] = 0 BY DEF Init, PerPair
<1>2. Holders(c, tp) = {}
  BY IdleOK DEF Init, Holders, Callers, Holding
<1>3. Cardinality(Holders(c, tp)) = 0 BY <1>2, FS_EmptySet
<1>4. Cardinality(Callers(c)) \in Nat /\ (Callers(c) # {} => Cardinality(Callers(c)) > 0)
  BY CallersFinite
<1> QED BY <1>1, <1>3, <1>4 DEF StopOK

(* StopTakesHold: once pause, assign, subscribe or unsubscribe has taken a *)
(* partition from a consumer, each other thread in the middle of a poll    *)
(* delivers at most one more of its messages, and the poll that a thread   *)
(* starts afterwards none, however many threads share the consumer.        *)
THEOREM ConsumerStopTakesHold == Spec => []StopTakesHold
<1>1. TypeInv /\ StopInv => StopTakesHold
  <2> SUFFICES ASSUME TypeInv, StopInv, NEW c \in Consumers, NEW tp \in AnyTP
               PROVE  stray[c][tp] = 0 \/ stray[c][tp] < Cardinality(Callers(c))
    BY DEF StopTakesHold, Callers
  <2>1. /\ stray[c][tp] \in Nat /\ Cardinality(Holders(c, tp)) \in Nat
        /\ Cardinality(Callers(c)) \in Nat
    BY HoldersFinite, CallersFinite DEF TypeInv, GhostInv
  <2>2. StopOK(c, tp) BY DEF StopInv
  <2> QED BY <2>1, <2>2 DEF StopOK
<1>2. TypeInv /\ StopInv /\ [Next]_vars => StopInv' BY StopStep
<1> QED BY <1>1, <1>2, StopInit, ConsumerTypeInv, PTL DEF Spec

-----------------------------------------------------------------------------
(* Nothing is skipped.  Every offset from which a consumer may go on -     *)
(* position, offset held by a thread, committed offset or one about to be  *)
(* committed - has behind it only messages that were delivered or evicted. *)

(* To the consumer itself, or to any member of its group.                  *)
Delivered(c, tp) ==
    IF c \in Grouped THEN UNION {Range(got[d][tp]) : d \in Grouped}
    ELSE Range(got[c][tp])

Covered(c, tp, offset) ==
    /\ offset = 0 \/ (Known(tp) /\ offset <= Buffer(tp).next_offset)
    /\ \A x \in 0..(offset - 1) : Retained(tp, x) => x \in Delivered(c, tp)

GotCovered(c) ==
    \A tp \in AnyTP : \A i \in DOMAIN got[c][tp] : Covered(c, tp, got[c][tp][i] + 1)

PositionCovered(c) ==
    \A tp \in DOMAIN state[c].position : Covered(c, tp, state[c].position[tp])

ThreadCovered(t) ==
    /\ thread[t].pc \in {"resolve", "fetch", "adjust", "record"} =>
          \A o \in thread[t].at : Covered(UserOf[t], thread[t].tp, o)
    /\ thread[t].pc = "record" =>
          \A o \in thread[t].at : /\ Known(thread[t].tp)
                                  /\ o < Buffer(thread[t].tp).next_offset

CommitsCovered(c) == \A tp \in DOMAIN committed : Covered(c, tp, committed[tp] + 1)

TodoCovered(c, t) ==
    thread[t].pc = "commit" =>
       \A i \in DOMAIN thread[t].todo :
          Covered(c, thread[t].todo[i][1], thread[t].todo[i][2] + 1)

(* Committed offsets say nothing if applications commit what they have not *)
(* got; commit_message commits one offset too many.                        *)
Tracked(c) == c \notin Grouped \/ ~ CommitsAnything

CoverInv ==
    /\ \A c \in Consumers : Tracked(c) => GotCovered(c) /\ PositionCovered(c)
    /\ \A t \in Threads : Tracked(UserOf[t]) => ThreadCovered(t)
    /\ ~ CommitsAnything =>
          \A c \in Grouped : /\ CommitsCovered(c)
                             /\ \A t \in Threads : TodoCovered(c, t)

GotGrows ==
    \A c \in Consumers, tp \in AnyTP : Range(got[c][tp]) \subseteq Range(got'[c][tp])

Growing == TypeInv /\ TypeInv' /\ TopicsGrow /\ GotGrows

LEMMA KnownGrows ==
    ASSUME Growing, NEW tp \in AnyTP, Known(tp)
    PROVE  /\ Known(tp)' /\ BufferOK(Buffer(tp)) /\ BufferOK(Buffer(tp)')
           /\ Buffer(tp).next_offset \in Nat /\ Buffer(tp)'.next_offset \in Nat
           /\ Buffer(tp).next_offset <= Buffer(tp)'.next_offset
           /\ OldestRetained(Buffer(tp)) \in 0..Buffer(tp).next_offset
           /\ OldestRetained(Buffer(tp)') \in 0..Buffer(tp)'.next_offset
           /\ OldestRetained(Buffer(tp)) <= OldestRetained(Buffer(tp)')
<1>1. Known(tp)' /\ Grown(Buffer(tp), Buffer(tp)') BY DEF Growing, TopicsGrow
<1>2. PICK b, r : b = Buffer(tp) /\ r = Buffer(tp)' OBVIOUS
<1>3. BufferOK(b) BY <1>2, KnownBuffer DEF Growing, TypeInv
<1>4. BufferOK(r)
  BY <1>1, <1>2 DEF Growing, TypeInv, TopicsInv, Known, get_topic, get_partition, Buffer
<1>5. b.next_offset \in Nat /\ r.next_offset \in Nat BY <1>3, <1>4 DEF BufferOK
<1>6. OldestRetained(b) \in 0..b.next_offset /\ OldestRetained(r) \in 0..r.next_offset
  BY <1>3, <1>4, BufferBounds
<1>7. b.next_offset <= r.next_offset /\ OldestRetained(b) <= OldestRetained(r)
  BY <1>1, <1>2 DEF Grown
<1> QED BY <1>1, <1>2, <1>3, <1>4, <1>5, <1>6, <1>7

LEMMA CoveredStays ==
    ASSUME Growing, NEW c \in Consumers, NEW tp \in AnyTP, NEW o \in Int,
           Covered(c, tp, o)
    PROVE  Covered(c, tp, o)'
<1>1. Delivered(c, tp) \subseteq Delivered(c, tp)'
  <2>1. CASE c \notin Grouped BY <2>1 DEF Growing, GotGrows, Delivered
  <2>2. CASE c \in Grouped
    <3>1. \A d \in Grouped : Range(got[d][tp]) \subseteq Range(got'[d][tp])
      BY ConsumersAssumption DEF Growing, GotGrows
    <3> QED BY <2>2, <3>1 DEF Delivered
  <2> QED BY <2>1, <2>2
<1>2. CASE o = 0 BY <1>2 DEF Covered
<1>3. CASE o # 0
  <2>1. Known(tp) /\ o <= Buffer(tp).next_offset BY <1>3 DEF Covered
  <2>2. PICK b, r : b = Buffer(tp) /\ r = Buffer(tp)' OBVIOUS
  <2>3. /\ Known(tp)' /\ b.next_offset \in Nat /\ r.next_offset \in Nat
        /\ b.next_offset <= r.next_offset
        /\ OldestRetained(b) \in Nat /\ OldestRetained(r) \in Nat
        /\ OldestRetained(b) <= OldestRetained(r)
    BY <2>1, <2>2, KnownGrows
  <2>4. o <= r.next_offset BY <2>1, <2>2, <2>3
  <2>5. ASSUME NEW x \in 0..(o - 1), Retained(tp, x)' PROVE x \in Delivered(c, tp)'
    <3>1. OldestRetained(r) <= x BY <2>2, <2>5 DEF Retained
    <3>2. OldestRetained(b) <= x /\ x < b.next_offset
      BY <2>1, <2>2, <2>3, <3>1
    <3>3. Retained(tp, x) BY <2>1, <2>2, <3>2 DEF Retained
    <3> QED BY <1>1, <3>3 DEF Covered
  <2> QED BY <2>2, <2>3, <2>4, <2>5 DEF Covered
<1> QED BY <1>2, <1>3

LEMMA GotCoveredStays ==
    ASSUME Growing, NEW c \in Consumers, GotCovered(c), NEW tp \in AnyTP,
           NEW i \in DOMAIN got[c][tp], NEW o, o = got[c][tp][i]
    PROVE  Covered(c, tp, o + 1)'
<1>1. got[c][tp] \in Seq(Nat) BY DEF Growing, TypeInv, GhostInv
<1>2. o \in Nat BY <1>1
<1>3. o + 1 \in Nat /\ Covered(c, tp, o + 1) BY <1>2 DEF GotCovered
<1> QED BY <1>3, CoveredStays

LEMMA GotSame ==
    ASSUME Growing, NEW c \in Consumers, GotCovered(c), got' = got
    PROVE  GotCovered(c)'
<1> SUFFICES ASSUME NEW tp \in AnyTP, NEW i \in DOMAIN got[c][tp]
             PROVE  Covered(c, tp, got[c][tp][i] + 1)'
  BY DEF GotCovered
<1>1. PICK o : o = got[c][tp][i] OBVIOUS
<1>2. Covered(c, tp, o + 1)' BY <1>1, GotCoveredStays
<1> QED BY <1>1, <1>2

LEMMA PositionCoveredStays ==
    ASSUME Growing, NEW c \in Consumers, PositionCovered(c),
           state'[c].position = state[c].position
    PROVE  PositionCovered(c)'
<1> SUFFICES ASSUME NEW tp \in DOMAIN state[c].position
             PROVE  Covered(c, tp, state[c].position[tp])'
  BY DEF PositionCovered
<1>1. PICK o : o = state[c].position[tp] OBVIOUS
<1>2. o \in Int /\ tp \in AnyTP
  BY <1>1 DEF Growing, TypeInv, StateInv, ConsumerOK, OffsetMap
<1>3. Covered(c, tp, o)' BY <1>1, <1>2, CoveredStays DEF PositionCovered
<1>4. state'[c].position[tp] = o BY <1>1
<1> QED BY <1>3, <1>4

LEMMA ThreadCoveredStays ==
    ASSUME Growing, NEW t \in Threads, ThreadCovered(t), thread'[t] = thread[t]
    PROVE  ThreadCovered(t)'
<1>1. PICK s, u : s = thread[t] /\ u = UserOf[t] OBVIOUS
<1>2. s = thread'[t] /\ u \in Consumers /\ ThreadOK(t, s)
  BY <1>1, UserState DEF Growing
<1>3. ASSUME s.pc \in {"resolve", "fetch", "adjust", "record"}, NEW o \in s.at
      PROVE  Covered(u, s.tp, o)'
  <2>1. s.tp \in AnyTP /\ o \in Int BY <1>2, <1>3 DEF ThreadOK, InScan, Offset, Found
  <2>2. Covered(u, s.tp, o) BY <1>1, <1>3 DEF ThreadCovered
  <2> QED BY <1>2, <2>1, <2>2, CoveredStays
<1>4. ASSUME s.pc = "record", NEW o \in s.at
      PROVE  Known(s.tp)' /\ o < Buffer(s.tp)'.next_offset
  <2>1. s.tp \in AnyTP /\ o \in Int BY <1>2, <1>4 DEF ThreadOK, InScan, Offset, Found
  <2>2. Known(s.tp) /\ o < Buffer(s.tp).next_offset BY <1>1, <1>4 DEF ThreadCovered
  <2>3. /\ Known(s.tp)' /\ Buffer(s.tp).next_offset <= Buffer(s.tp)'.next_offset
        /\ Buffer(s.tp).next_offset \in Nat /\ Buffer(s.tp)'.next_offset \in Nat
    BY <2>1, <2>2, KnownGrows
  <2> QED BY <2>1, <2>2, <2>3
<1>5. \A x : Known(s.tp)' /\ x < Buffer(s.tp)'.next_offset =>
         Known(thread[t].tp)' /\ x < (Buffer(thread[t].tp).next_offset)'
  BY <1>1, <1>2 DEF Known, get_topic, get_partition, Buffer
<1>6. \A x : Covered(u, s.tp, x)' => Covered(UserOf[t], thread[t].tp, x)'
  BY <1>1, <1>2
<1> QED BY <1>1, <1>2, <1>3, <1>4, <1>5, <1>6 DEF ThreadCovered

LEMMA CommitsCoveredStay ==
    ASSUME Growing, NEW c \in Grouped, CommitsCovered(c), committed' = committed
    PROVE  CommitsCovered(c)'
<1> SUFFICES ASSUME NEW tp \in DOMAIN committed
             PROVE  Covered(c, tp, committed[tp] + 1)'
  BY DEF CommitsCovered
<1>1. PICK o : o = committed[tp] + 1 OBVIOUS
<1>2. o \in Int /\ tp \in AnyTP /\ c \in Consumers
  BY <1>1, ConsumersAssumption DEF Growing, TypeInv, OffsetMap
<1>3. Covered(c, tp, o) BY <1>1 DEF CommitsCovered
<1>4. Covered(c, tp, o)' BY <1>2, <1>3, CoveredStays
<1> QED BY <1>1, <1>4

LEMMA TodoCoveredStays ==
    ASSUME Growing, NEW c \in Grouped, NEW t \in Threads, TodoCovered(c, t),
           NEW i \in DOMAIN thread[t].todo, thread[t].pc = "commit",
           NEW tp, NEW o, tp = thread[t].todo[i][1], o = thread[t].todo[i][2]
    PROVE  Covered(c, tp, o + 1)'
<1>1. thread[t].todo \in Seq(AnyTP \X Int) BY UserState DEF Growing, ThreadOK
<1>2. thread[t].todo[i] \in AnyTP \X Int BY <1>1
<1>3. tp \in AnyTP /\ o + 1 \in Int /\ c \in Consumers
  BY <1>2, ConsumersAssumption
<1>4. Covered(c, tp, o + 1) BY DEF TodoCovered
<1> QED BY <1>3, <1>4, CoveredStays

LEMMA TodoSame ==
    ASSUME Growing, NEW c \in Grouped, NEW t \in Threads, TodoCovered(c, t),
           thread'[t] = thread[t]
    PROVE  TodoCovered(c, t)'
<1>1. PICK s : s = thread[t] /\ s = thread'[t] OBVIOUS
<1>2. ASSUME s.pc = "commit", NEW i \in DOMAIN s.todo
      PROVE  Covered(c, s.todo[i][1], s.todo[i][2] + 1)'
  <2>1. PICK tp, o : tp = s.todo[i][1] /\ o = s.todo[i][2] OBVIOUS
  <2>2. Covered(c, tp, o + 1)' BY <1>1, <1>2, <2>1, TodoCoveredStays
  <2>3. Covered(c, s.todo[i][1], s.todo[i][2] + 1)' BY <2>1, <2>2
  <2> QED BY <2>3
<1>3. TodoCovered(c, t)' = (s.pc = "commit" =>
         \A i \in DOMAIN s.todo : Covered(c, s.todo[i][1], s.todo[i][2] + 1)')
  BY <1>1 DEF TodoCovered
<1> QED BY <1>2, <1>3

(* What a step has to show when it leaves positions, deliveries and        *)
(* commits alone: that its own thread is covered.                          *)
LEMMA CoverQuiet ==
    ASSUME TypeInv, TypeInv', CoverInv, NEW t \in Threads, Quiet(t),
           thread'[t].pc # "commit",
           Tracked(UserOf[t]) => ThreadCovered(t)'
    PROVE  CoverInv'
<1>1. /\ TopicsGrow /\ Others(t) /\ committed' = committed /\ state' = state
      /\ got' = got
  BY DEF Quiet
<1>2. Growing BY <1>1 DEF Growing, GotGrows
<1>3. ASSUME NEW c \in Consumers, Tracked(c) PROVE (GotCovered(c) /\ PositionCovered(c))'
  <2>1. GotCovered(c)' BY <1>1, <1>2, <1>3, GotSame DEF CoverInv
  <2>2. PositionCovered(c)' BY <1>1, <1>2, <1>3, PositionCoveredStays DEF CoverInv
  <2> QED BY <2>1, <2>2
<1>4. ASSUME NEW u \in Threads, Tracked(UserOf[u]) PROVE ThreadCovered(u)'
  BY <1>1, <1>2, <1>4, ThreadCoveredStays DEF CoverInv, Others
<1>5. ASSUME ~ CommitsAnything, NEW c \in Grouped
      PROVE  /\ CommitsCovered(c)'
             /\ \A u \in Threads : TodoCovered(c, u)'
  <2>1. CommitsCovered(c)' BY <1>1, <1>2, <1>5, CommitsCoveredStay DEF CoverInv
  <2>2. ASSUME NEW u \in Threads, u # t PROVE TodoCovered(c, u)'
    BY <1>1, <1>2, <1>5, <2>2, TodoSame DEF CoverInv, Others
  <2>3. TodoCovered(c, t)' BY DEF TodoCovered
  <2> QED BY <2>1, <2>2, <2>3
<1> QED BY <1>3, <1>4, <1>5 DEF CoverInv, Tracked

(* The oldest offset of a partition is covered.                            *)
LEMMA OldestCovered ==
    ASSUME TypeInv, NEW c \in Consumers, NEW tp, Known(tp), NEW o,
           o = watermarks(Buffer(tp)).oldest
    PROVE  Covered(c, tp, o) /\ o \in Nat
<1>1. PICK b : b = Buffer(tp) OBVIOUS
<1>2. BufferOK(b) BY <1>1, KnownBuffer DEF TypeInv
<1>3. /\ OldestRetained(b) \in 0..b.next_offset /\ o \in 0..OldestRetained(b)
      /\ b.next_offset \in Nat
  BY <1>1, <1>2, BufferBounds DEF BufferOK
<1>4. o \in Nat /\ o <= b.next_offset BY <1>3
<1>5. ASSUME NEW x \in 0..(o - 1), Retained(tp, x) PROVE FALSE
  <2>1. OldestRetained(b) <= x BY <1>1, <1>5 DEF Retained
  <2> QED BY <1>3, <2>1
<1> QED BY <1>1, <1>4, <1>5 DEF Covered

(* The thread of a quiet step: what it holds now is covered.               *)
LEMMA NewlyCovered ==
    ASSUME TypeInv, TypeInv', NEW t \in Threads, Quiet(t), NEW tp \in AnyTP,
           NEW o \in Int, Covered(UserOf[t], tp, o),
           thread'[t].pc \in {"resolve", "fetch", "adjust", "record"},
           thread'[t].tp = tp, thread'[t].at = {o},
           thread'[t].pc = "record" => Retained(tp, o)
    PROVE  ThreadCovered(t)'
<1>1. PICK s, u : s = thread'[t] /\ u = UserOf[t] OBVIOUS
<1>2. TopicsGrow /\ got' = got /\ topics' = topics BY DEF Quiet
<1>3. Growing BY <1>2 DEF Growing, GotGrows
<1>4. u \in Consumers BY <1>1, UserState
<1>5. Covered(u, tp, o)' BY <1>1, <1>3, <1>4, CoveredStays
<1>6. s.pc = "record" => (Known(tp) /\ o < Buffer(tp).next_offset)'
  BY <1>1, <1>2 DEF Retained, Known, get_topic, get_partition, Buffer
<1>7. ThreadCovered(t)' =
         (/\ s.pc \in {"resolve", "fetch", "adjust", "record"} =>
                \A x \in s.at : Covered(u, s.tp, x)'
          /\ s.pc = "record" =>
                \A x \in s.at : (Known(s.tp) /\ x < Buffer(s.tp).next_offset)')
  BY <1>1 DEF ThreadCovered, Known, get_topic, get_partition, Buffer
<1> QED BY <1>1, <1>5, <1>6, <1>7

LEMMA PassesCovered ==
    ASSUME NEW t \in Threads, Passes(t)
    PROVE  ThreadCovered(t)' /\ thread'[t].pc # "commit"
<1>1. thread'[t].pc \in {"idle", "look"} BY IdleOK DEF Passes, Ends
<1> QED BY <1>1 DEF ThreadCovered

LEMMA CoverFind ==
    ASSUME TypeInv, TypeInv', CoverInv, NEW t \in Threads,
           \/ LookGoes(t)
           \/ ResolveGoes(t)
           \/ OldestGoes(t)
           \/ FetchGoes(t)
           \/ ReadjustGoes(t)
    PROVE  CoverInv'
<1>1. PICK s, u, c : s = thread[t] /\ u = UserOf[t] /\ c = state[u] OBVIOUS
<1>2. u \in Consumers /\ ConsumerOK(c) /\ ThreadOK(t, s) BY <1>1, UserState
<1>3. Quiet(t)
  BY DEF LookGoes, ResolveGoes, OldestGoes, FetchGoes, ReadjustGoes
<1>4. ASSUME Passes(t) PROVE CoverInv'
  BY <1>3, <1>4, PassesCovered, CoverQuiet
<1>5. CASE LookGoes(t)
  <2>1. ASSUME thread'[t].pc = "resolve", NEW tp \in AnyTP, tp = thread'[t].tp,
               thread'[t].at = IF tp \in DOMAIN c.position THEN {c.position[tp]} ELSE {}
        PROVE  CoverInv'
    <3>1. CASE tp \notin DOMAIN c.position
      <4>1. ThreadCovered(t)' BY <2>1, <3>1 DEF ThreadCovered
      <4> QED BY <1>3, <2>1, <4>1, CoverQuiet
    <3>2. CASE tp \in DOMAIN c.position
      <4>1. PICK o : o = c.position[tp] OBVIOUS
      <4>2. o \in Int BY <1>2, <3>2, <4>1 DEF ConsumerOK, OffsetMap
      <4>3. Tracked(u) => Covered(u, tp, o)
        BY <1>1, <1>2, <3>2, <4>1 DEF CoverInv, PositionCovered
      <4>4. Tracked(u) => ThreadCovered(t)'
        BY <1>1, <1>3, <2>1, <3>2, <4>1, <4>2, <4>3, NewlyCovered
      <4> QED BY <1>1, <1>3, <2>1, <4>4, CoverQuiet
    <3> QED BY <3>1, <3>2
  <2> QED BY <1>1, <1>4, <1>5, <2>1 DEF LookGoes
<1>6. CASE ResolveGoes(t)
  <2>1. s.pc = "resolve" /\ s.tp \in AnyTP
    BY <1>1, <1>2, <1>6 DEF ResolveGoes, ThreadOK, InScan
  <2>2. CASE Ends(t) BY <1>4, <2>2 DEF Passes
  <2>3. CASE Keeps(t, "fetch") /\ s.at # {} /\ thread'[t].at = s.at
    <3>1. PICK o \in Int : s.at = {o}
      BY <1>2, <2>1, <2>3 DEF ThreadOK, Offset
    <3>2. Tracked(u) => Covered(u, s.tp, o)
      BY <1>1, <2>1, <3>1 DEF CoverInv, ThreadCovered
    <3>3. thread'[t].pc = "fetch" /\ thread'[t].tp = s.tp BY <1>1, <2>3 DEF Keeps
    <3>4. Tracked(u) => ThreadCovered(t)'
      BY <1>1, <1>3, <2>1, <2>3, <3>1, <3>2, <3>3, NewlyCovered
    <3> QED BY <1>1, <1>3, <3>3, <3>4, CoverQuiet
  <2>4. CASE /\ Keeps(t, "fetch")
             /\ Resumes(u, s.tp)
             /\ thread'[t].at = {committed[s.tp] + 1}
    <3>1. PICK o : o = committed[s.tp] + 1 OBVIOUS
    <3>2. o \in Int BY <2>4, <3>1 DEF Resumes, TypeInv, OffsetMap
    <3>3. Tracked(u) => Covered(u, s.tp, o)
      BY <2>4, <3>1 DEF Resumes, CoverInv, Tracked, CommitsCovered
    <3>4. thread'[t].pc = "fetch" /\ thread'[t].tp = s.tp BY <1>1, <2>4 DEF Keeps
    <3>5. Tracked(u) => ThreadCovered(t)'
      BY <1>1, <1>3, <2>1, <2>4, <3>1, <3>2, <3>3, <3>4, NewlyCovered
    <3> QED BY <1>1, <1>3, <3>4, <3>5, CoverQuiet
  <2>5. CASE Keeps(t, "oldest")
    <3>1. thread'[t].pc = "oldest" BY <2>5 DEF Keeps
    <3>2. ThreadCovered(t)' BY <3>1 DEF ThreadCovered
    <3> QED BY <1>3, <3>1, <3>2, CoverQuiet
  <2> QED BY <1>1, <1>6, <2>2, <2>3, <2>4, <2>5 DEF ResolveGoes
<1>7. ASSUME NEW pc \in {"fetch", "adjust"}, Keeps(t, pc), Known(s.tp), s.tp \in AnyTP,
             thread'[t].at = {watermarks(Buffer(s.tp)).oldest}
      PROVE  CoverInv'
  <2>1. PICK o : o = watermarks(Buffer(s.tp)).oldest OBVIOUS
  <2>2. Covered(u, s.tp, o) /\ o \in Int BY <1>2, <1>7, <2>1, OldestCovered
  <2>3. thread'[t].pc = pc /\ thread'[t].tp = s.tp BY <1>1, <1>7 DEF Keeps
  <2>4. ThreadCovered(t)'
    BY <1>1, <1>3, <1>7, <2>1, <2>2, <2>3, NewlyCovered
  <2> QED BY <1>3, <2>3, <2>4, CoverQuiet
<1>8. CASE OldestGoes(t)
  <2>1. s.tp \in AnyTP BY <1>1, <1>2, <1>8 DEF OldestGoes, ThreadOK, InScan
  <2> QED BY <1>1, <1>4, <1>7, <1>8, <2>1 DEF OldestGoes
<1>9. CASE ReadjustGoes(t)
  <2>1. s.tp \in AnyTP BY <1>1, <1>2, <1>9 DEF ReadjustGoes, ThreadOK, InScan
  <2> QED BY <1>1, <1>4, <1>7, <1>9, <2>1 DEF ReadjustGoes
<1>10. CASE FetchGoes(t)
  <2>1. s.pc = "fetch" /\ s.tp \in AnyTP
    BY <1>1, <1>2, <1>10 DEF FetchGoes, ThreadOK, InScan
  <2>2. ASSUME Keeps(t, "readjust") PROVE CoverInv'
    <3>1. thread'[t].pc = "readjust" BY <2>2 DEF Keeps
    <3>2. ThreadCovered(t)' BY <3>1 DEF ThreadCovered
    <3> QED BY <1>3, <3>1, <3>2, CoverQuiet
  <2>3. ASSUME NEW o \in Int, s.at = {o}, Keeps(t, "record"), Retained(s.tp, o),
               thread'[t].at = {o}
        PROVE  CoverInv'
    <3>1. Tracked(u) => Covered(u, s.tp, o)
      BY <1>1, <2>1, <2>3 DEF CoverInv, ThreadCovered
    <3>2. thread'[t].pc = "record" /\ thread'[t].tp = s.tp BY <1>1, <2>3 DEF Keeps
    <3>3. Tracked(u) => ThreadCovered(t)'
      BY <1>1, <1>3, <2>1, <2>3, <3>1, <3>2, NewlyCovered
    <3> QED BY <1>1, <1>3, <3>2, <3>3, CoverQuiet
  <2> QED BY <1>1, <1>4, <1>10, <2>2, <2>3 DEF FetchGoes
<1> QED BY <1>5, <1>6, <1>8, <1>9, <1>10

(* What a step has to show when it sets a consumer's position or delivers. *)
LEMMA CoverSet ==
    ASSUME Growing, CoverInv, NEW t \in Threads, Others(t),
           thread'[t].pc \in {"idle", "look"}, committed' = committed, NEW new,
           StateSet(t, new),
           \A c \in Consumers : c # UserOf[t] => got'[c] = got[c],
           Tracked(UserOf[t]) => GotCovered(UserOf[t])' /\ PositionCovered(UserOf[t])'
    PROVE  CoverInv'
<1>1. ASSUME NEW c \in Consumers, Tracked(c) PROVE (GotCovered(c) /\ PositionCovered(c))'
  <2>1. CASE c = UserOf[t]
    <3>1. GotCovered(UserOf[t])' /\ PositionCovered(UserOf[t])' BY <1>1, <2>1
    <3> QED BY <2>1, <3>1
  <2>2. CASE c # UserOf[t]
    <3>1. state'[c] = state[c] /\ got'[c] = got[c] BY <2>2 DEF StateSet
    <3>2. PositionCovered(c)' BY <1>1, <3>1, PositionCoveredStays DEF CoverInv
    <3>3. ASSUME NEW tp \in AnyTP, NEW i \in DOMAIN got'[c][tp]
          PROVE  Covered(c, tp, got[c][tp][i] + 1)'
      <4>1. PICK o : o = got[c][tp][i] /\ o = got'[c][tp][i] BY <3>1
      <4>2. Covered(c, tp, o + 1)' BY <1>1, <3>1, <3>3, <4>1, GotCoveredStays DEF CoverInv
      <4> QED BY <4>1, <4>2
    <3>4. GotCovered(c)' BY <3>3 DEF GotCovered
    <3> QED BY <3>2, <3>4
  <2> QED BY <2>1, <2>2
<1>2. ASSUME NEW u \in Threads, Tracked(UserOf[u]) PROVE ThreadCovered(u)'
  <2>1. CASE u # t
    BY <1>2, <2>1, ThreadCoveredStays DEF CoverInv, Others
  <2>2. CASE u = t BY <2>2 DEF ThreadCovered
  <2> QED BY <2>1, <2>2
<1>3. ASSUME ~ CommitsAnything, NEW c \in Grouped
      PROVE  /\ CommitsCovered(c)'
             /\ \A u \in Threads : TodoCovered(c, u)'
  <2>1. CommitsCovered(c)' BY <1>3, CommitsCoveredStay DEF CoverInv
  <2>2. ASSUME NEW u \in Threads, u # t PROVE TodoCovered(c, u)'
    BY <1>3, <2>2, TodoSame DEF CoverInv, Others
  <2>3. TodoCovered(c, t)' BY DEF TodoCovered
  <2> QED BY <2>1, <2>2, <2>3
<1> QED BY <1>1, <1>2, <1>3 DEF CoverInv, Tracked

(* The position after an insertion.                                        *)
LEMMA InsertCovered ==
    ASSUME Growing, NEW c \in Consumers, PositionCovered(c), NEW tp, NEW o,
           state'[c].position = Group!Insert(state[c].position, tp, o),
           Covered(c, tp, o)'
    PROVE  PositionCovered(c)'
<1> SUFFICES ASSUME NEW q \in DOMAIN state'[c].position
             PROVE  Covered(c, q, state[c].position[q])'
  BY DEF PositionCovered
<1>1. PICK x : x = state'[c].position[q] OBVIOUS
<1>2. CASE q = tp
  <2>1. x = o BY <1>1, <1>2 DEF Group!Insert
  <2> QED BY <1>1, <1>2, <2>1
<1>3. CASE q # tp
  <2>1. q \in DOMAIN state[c].position /\ x = state[c].position[q]
    BY <1>1, <1>3 DEF Group!Insert
  <2>2. x \in Int /\ q \in AnyTP
    BY <2>1 DEF Growing, TypeInv, StateInv, ConsumerOK, OffsetMap
  <2>3. Covered(c, q, x)' BY <2>1, <2>2, CoveredStays DEF PositionCovered
  <2> QED BY <1>1, <2>3
<1> QED BY <1>2, <1>3

LEMMA CoverAdjust ==
    ASSUME TypeInv, TypeInv', CoverInv, NEW t \in Threads, AdjustGoes(t)
    PROVE  CoverInv'
<1>1. PICK s, u, c : s = thread[t] /\ u = UserOf[t] /\ c = state[u] OBVIOUS
<1>2. u \in Consumers /\ ConsumerOK(c) /\ s.tp \in AnyTP /\ s.pc = "adjust"
  BY <1>1, UserState DEF AdjustGoes, ThreadOK, InScan
<1>3. PICK o \in Nat : /\ s.at = {o}
                       /\ StateSet(t, [c EXCEPT !.position = Group!Insert(@, s.tp, o)])
  BY <1>1 DEF AdjustGoes
<1>4. PICK new : new = [c EXCEPT !.position = Group!Insert(@, s.tp, o)] OBVIOUS
<1>5. new.position = Group!Insert(c.position, s.tp, o) BY <1>2, <1>4, PositionSet
<1>6. /\ Others(t) /\ TopicsGrow /\ committed' = committed /\ got' = got
      /\ thread'[t].pc \in {"idle", "look"}
  BY IdleOK DEF AdjustGoes, Passes, Ends
<1>7. Growing BY <1>6 DEF Growing, GotGrows
<1>8. ASSUME Tracked(u) PROVE GotCovered(u)' /\ PositionCovered(u)'
  <2>1. GotCovered(u)' BY <1>2, <1>6, <1>7, <1>8, GotSame DEF CoverInv
  <2>2. Covered(u, s.tp, o) BY <1>1, <1>2, <1>3, <1>8 DEF CoverInv, ThreadCovered
  <2>3. Covered(u, s.tp, o)' BY <1>2, <1>7, <2>2, CoveredStays
  <2>4. state'[u].position = Group!Insert(state[u].position, s.tp, o)
    BY <1>1, <1>3, <1>4, <1>5 DEF StateSet
  <2>5. PositionCovered(u)' BY <1>2, <1>7, <1>8, <2>3, <2>4, InsertCovered DEF CoverInv
  <2> QED BY <2>1, <2>5
<1>9. \A d \in Consumers : d # UserOf[t] => got'[d] = got[d] BY <1>6
<1>10. Tracked(UserOf[t]) => GotCovered(UserOf[t])' /\ PositionCovered(UserOf[t])'
  BY <1>1, <1>8
<1> QED BY <1>3, <1>6, <1>7, <1>9, <1>10, CoverSet

LEMMA AppendFacts ==
    ASSUME NEW g \in Seq(Nat), NEW o, NEW h, h = Append(g, o)
    PROVE  /\ DOMAIN h = 1..(Len(g) + 1) /\ DOMAIN g = 1..Len(g) /\ Len(g) \in Nat
           /\ h[Len(g) + 1] = o /\ Len(h) = Len(g) + 1
           /\ \A i \in 1..Len(g) : h[i] = g[i]
           /\ Range(h) = Range(g) \cup {o}
<1>1. /\ DOMAIN h = 1..(Len(g) + 1) /\ DOMAIN g = 1..Len(g) /\ Len(g) \in Nat
      /\ h[Len(g) + 1] = o /\ \A i \in 1..Len(g) : h[i] = g[i]
      /\ Len(h) = Len(g) + 1
  OBVIOUS
<1>2. Range(h) \subseteq Range(g) \cup {o}
  <2> SUFFICES ASSUME NEW i \in DOMAIN h PROVE h[i] \in Range(g) \cup {o}
    BY DEF Range
  <2>1. i \in 1..Len(g) \/ i = Len(g) + 1 BY <1>1
  <2> QED BY <1>1, <2>1 DEF Range
<1>3. Range(g) \subseteq Range(h)
  <2> SUFFICES ASSUME NEW i \in DOMAIN g PROVE g[i] \in Range(h)
    BY DEF Range
  <2>1. i \in 1..Len(g) /\ i \in DOMAIN h BY <1>1
  <2> QED BY <1>1, <2>1 DEF Range
<1>4. o \in Range(h)
  <2>1. Len(g) + 1 \in DOMAIN h BY <1>1
  <2> QED BY <1>1, <2>1 DEF Range
<1> QED BY <1>1, <1>2, <1>3, <1>4

(* What a delivery adds to what consumers got.                             *)
LEMMA RecordGrows ==
    ASSUME TypeInv, TypeInv', NEW t \in Threads, RecordGoes(t), NEW u, u = UserOf[t],
           NEW tp, tp = thread[t].tp
    PROVE  /\ Growing
           /\ \A d \in Consumers, q \in AnyTP : d # u \/ q # tp => got'[d][q] = got[d][q]
           /\ \A d \in Consumers : d # u => got'[d] = got[d]
<1>1. u \in Consumers /\ tp \in AnyTP BY UserState DEF RecordGoes, ThreadOK, InScan
<1>2. PICK o \in Nat : /\ thread[t].at = {o}
                       /\ got' = [got EXCEPT ![u][tp] = Append(@, o)]
  BY DEF RecordGoes
<1>3. PICK g, h : g = got[u][tp] /\ h = Append(g, o) OBVIOUS
<1>4. g \in Seq(Nat) BY <1>1, <1>3 DEF TypeInv, GhostInv
<1>5. /\ got'[u][tp] = h
      /\ \A d \in Consumers, q \in AnyTP : d # u \/ q # tp => got'[d][q] = got[d][q]
      /\ \A d \in Consumers : d # u => got'[d] = got[d]
  BY <1>1, <1>2, <1>3 DEF TypeInv, GhostInv
<1>6. Range(h) = Range(g) \cup {o}
  <2>1. h = Append(g, o) BY <1>3
  <2> QED BY <1>4, <2>1, AppendFacts
<1>7. GotGrows BY <1>3, <1>5, <1>6 DEF GotGrows
<1>8. TopicsGrow BY DEF RecordGoes
<1> QED BY <1>2, <1>3, <1>5, <1>7, <1>8 DEF Growing

LEMMA CoverRecord ==
    ASSUME TypeInv, TypeInv', CoverInv, NEW t \in Threads, RecordGoes(t)
    PROVE  CoverInv'
<1>1. PICK s, u, c : s = thread[t] /\ u = UserOf[t] /\ c = state[u] OBVIOUS
<1>2. u \in Consumers /\ ConsumerOK(c) /\ s.tp \in AnyTP /\ s.pc = "record"
  BY <1>1, UserState DEF RecordGoes, ThreadOK, InScan
<1>3. PICK o \in Nat : /\ s.at = {o} /\ StateSet(t, Recorded(c, s, o))
                       /\ got' = [got EXCEPT ![u][s.tp] = Append(@, o)]
  BY <1>1 DEF RecordGoes
<1>4. PICK new : new = Recorded(c, s, o) OBVIOUS
<1>5. new.position = Group!Insert(c.position, s.tp, o + 1)
  BY <1>2, <1>4 DEF ConsumerOK, Recorded
<1>6. /\ Others(t) /\ TopicsGrow /\ committed' = committed /\ topics' = topics
      /\ thread'[t].pc \in {"idle", "look"}
  BY IdleOK DEF RecordGoes, Ends
<1>7. PICK g : g = got[u][s.tp] OBVIOUS
<1>8. g \in Seq(Nat) BY <1>2, <1>7 DEF TypeInv, GhostInv
<1>9. /\ got'[u][s.tp] = Append(g, o)
      /\ \A d \in Consumers, tp \in AnyTP :
            d # u \/ tp # s.tp => got'[d][tp] = got[d][tp]
      /\ \A d \in Consumers : d # u => got'[d] = got[d]
  BY <1>2, <1>3, <1>7 DEF TypeInv, GhostInv
<1>10. /\ DOMAIN Append(g, o) = 1..(Len(g) + 1) /\ DOMAIN g = 1..Len(g)
       /\ Len(g) \in Nat /\ Append(g, o)[Len(g) + 1] = o
       /\ \A i \in 1..Len(g) : Append(g, o)[i] = g[i]
  BY <1>8
<1>11. Range(Append(g, o)) = Range(g) \cup {o} BY <1>8, AppendFacts
<1>12. Growing BY RecordGrows
<1>13. ASSUME Tracked(u) PROVE GotCovered(u)' /\ PositionCovered(u)'
  <2>1. Covered(u, s.tp, o) /\ Known(s.tp) /\ o < Buffer(s.tp).next_offset
    BY <1>1, <1>2, <1>3, <1>13 DEF CoverInv, ThreadCovered
  <2>2. Covered(u, s.tp, o)' BY <1>2, <1>12, <2>1, CoveredStays
  <2>3. Known(s.tp)' /\ Buffer(s.tp)' = Buffer(s.tp)
    BY <1>6, <2>1 DEF Known, get_topic, get_partition, Buffer
  <2>4. o \in Delivered(u, s.tp)'
    <3>1. o \in Range(got'[u][s.tp]) BY <1>9, <1>11
    <3> QED BY <3>1 DEF Delivered
  <2>5. Covered(u, s.tp, o + 1)'
    <3>1. Buffer(s.tp).next_offset \in Nat
      BY <2>1, KnownBuffer DEF TypeInv, BufferOK
    <3>2. o + 1 <= Buffer(s.tp)'.next_offset BY <2>1, <2>3, <3>1
    <3>3. ASSUME NEW x \in 0..((o + 1) - 1), Retained(s.tp, x)'
          PROVE  x \in Delivered(u, s.tp)'
      <4>1. x = o \/ x \in 0..(o - 1) OBVIOUS
      <4> QED BY <2>2, <2>4, <3>3, <4>1 DEF Covered
    <3> QED BY <2>3, <3>2, <3>3 DEF Covered
  <2>6. state'[u].position = Group!Insert(state[u].position, s.tp, o + 1)
    BY <1>1, <1>3, <1>4, <1>5 DEF StateSet
  <2>7. PositionCovered(u)'
    <3>1. PICK n : n = o + 1 OBVIOUS
    <3>2. Covered(u, s.tp, n)' BY <2>5, <3>1
    <3>3. state'[u].position = Group!Insert(state[u].position, s.tp, n) BY <2>6, <3>1
    <3> QED BY <1>2, <1>12, <1>13, <3>2, <3>3, InsertCovered DEF CoverInv
  <2>8. ASSUME NEW tp \in AnyTP, NEW i \in DOMAIN got'[u][tp]
        PROVE  Covered(u, tp, got[u][tp][i] + 1)'
    <3>1. PICK x : x = got'[u][tp][i] OBVIOUS
    <3>2. CASE tp = s.tp /\ i = Len(g) + 1
      <4>1. x = o BY <1>9, <1>10, <3>1, <3>2
      <4> QED BY <2>5, <3>1, <3>2, <4>1
    <3>3. CASE ~ (tp = s.tp /\ i = Len(g) + 1)
      <4>1. i \in DOMAIN got[u][tp] /\ x = got[u][tp][i]
        <5>1. CASE tp # s.tp BY <1>2, <1>9, <2>8, <3>1, <5>1
        <5>2. CASE tp = s.tp
          <6>1. i \in 1..(Len(g) + 1) BY <1>9, <1>10, <2>8, <5>2
          <6>2. i \in 1..Len(g) BY <1>10, <3>3, <5>2, <6>1
          <6> QED BY <1>7, <1>9, <1>10, <3>1, <5>2, <6>2
        <5> QED BY <5>1, <5>2
      <4>2. Covered(u, tp, x + 1)'
        BY <1>2, <1>12, <1>13, <4>1, GotCoveredStays DEF CoverInv
      <4> QED BY <3>1, <4>2
    <3> QED BY <3>2, <3>3
  <2>9. GotCovered(u)' BY <2>8 DEF GotCovered
  <2> QED BY <2>7, <2>9
<1>14. Tracked(UserOf[t]) => GotCovered(UserOf[t])' /\ PositionCovered(UserOf[t])'
  BY <1>1, <1>13
<1>15. \A d \in Consumers : d # UserOf[t] => got'[d] = got[d] BY <1>1, <1>9
<1> QED BY <1>3, <1>6, <1>12, <1>14, <1>15, CoverSet

(* The other calls: positions are kept or forgotten, and what is committed *)
(* was delivered.                                                          *)
LEMMA CoverOther ==
    ASSUME TypeInv, TypeInv', CoverInv, NEW t \in Threads, Other(t),
           Calls \cap {"seek", "store_offset"} = {}
    PROVE  CoverInv'
<1>1. Others(t) /\ TopicsGrow /\ got' = got /\ thread'[t].pc \notin InScan
  BY DEF Other, Begins, Scanning, InScan
<1>2. Growing BY <1>1 DEF Growing, GotGrows
<1>3. ASSUME NEW c \in Consumers, Tracked(c) PROVE (GotCovered(c) /\ PositionCovered(c))'
  <2>1. GotCovered(c)' BY <1>1, <1>2, <1>3, GotSame DEF CoverInv
  <2>2. \/ state'[c].position = state[c].position
        \/ state'[c].position = Group!EmptyMap
    BY DEF Other, PositionGoes, StateSet
  <2>3. CASE state'[c].position = state[c].position
    BY <1>2, <1>3, <2>1, <2>3, PositionCoveredStays DEF CoverInv
  <2>4. CASE state'[c].position = Group!EmptyMap
    <3>1. DOMAIN state'[c].position = {} BY <2>4 DEF Group!EmptyMap
    <3> QED BY <2>1, <3>1 DEF PositionCovered
  <2> QED BY <2>2, <2>3, <2>4
<1>4. ASSUME NEW u \in Threads, Tracked(UserOf[u]) PROVE ThreadCovered(u)'
  <2>1. CASE u # t BY <1>1, <1>2, <1>4, <2>1, ThreadCoveredStays DEF CoverInv, Others
  <2>2. CASE u = t BY <1>1, <2>2 DEF ThreadCovered, InScan
  <2> QED BY <2>1, <2>2
<1>5. ASSUME ~ CommitsAnything, NEW c \in Grouped
      PROVE  /\ CommitsCovered(c)'
             /\ \A u \in Threads : TodoCovered(c, u)'
  <2>1. CommitsCovered(c) /\ \A u \in Threads : TodoCovered(c, u)
    BY <1>5 DEF CoverInv
  <2>2. CommitsCovered(c)'
    <3>1. CASE committed' = committed BY <1>2, <2>1, <3>1, CommitsCoveredStay
    <3>2. CASE committed' # committed
      <4>1. PICK todo, first : todo = thread[t].todo /\ first = Head(todo) OBVIOUS
      <4>2. thread[t].pc = "commit" /\ committed' = Group!Insert(committed, first[1], first[2])
        BY <3>2, <4>1 DEF Other, CommittedGoes
      <4>3. todo \in Seq(AnyTP \X Int) /\ todo # << >>
        BY <4>1, <4>2, UserState DEF ThreadOK
      <4>4. 1 \in DOMAIN todo /\ first = todo[1] BY <4>1, <4>3
      <4>5. PICK tp, o : tp = first[1] /\ o = first[2] OBVIOUS
      <4>6. Covered(c, tp, o + 1)'
        BY <1>2, <2>1, <4>1, <4>2, <4>4, <4>5, TodoCoveredStays
      <4>7. ASSUME NEW q \in DOMAIN committed' PROVE Covered(c, q, committed[q] + 1)'
        <5>1. PICK x : x = committed'[q] OBVIOUS
        <5>2. CASE q = tp
          <6>1. x = o BY <4>2, <4>5, <5>1, <5>2 DEF Group!Insert
          <6> QED BY <4>6, <5>1, <5>2, <6>1
        <5>3. CASE q # tp
          <6>1. q \in DOMAIN committed /\ x = committed[q]
            BY <4>2, <4>5, <4>7, <5>1, <5>3 DEF Group!Insert
          <6>2. x + 1 \in Int /\ q \in AnyTP /\ c \in Consumers
            BY <6>1, ConsumersAssumption DEF TypeInv, OffsetMap
          <6>3. Covered(c, q, x + 1) BY <2>1, <6>1 DEF CommitsCovered
          <6>4. Covered(c, q, x + 1)' BY <1>2, <6>2, <6>3, CoveredStays
          <6> QED BY <5>1, <6>4
        <5> QED BY <5>2, <5>3
      <4> QED BY <4>7 DEF CommitsCovered
    <3> QED BY <3>1, <3>2
  <2>3. ASSUME NEW u \in Threads, u # t PROVE TodoCovered(c, u)'
    BY <1>1, <1>2, <2>1, <2>3, TodoSame DEF Others
  <2>4. TodoCovered(c, t)'
    <3>1. PICK s, r : s = thread[t] /\ r = thread'[t] OBVIOUS
    <3>2. ASSUME r.pc = "commit", NEW i \in DOMAIN r.todo
          PROVE  Covered(c, r.todo[i][1], r.todo[i][2] + 1)'
      <4>1. PICK tp, o : tp = r.todo[i][1] /\ o = r.todo[i][2] OBVIOUS
      <4>2. CASE s.pc = "commit" /\ s.todo # << >> /\ r.todo = Tail(s.todo)
        <5>1. s.todo \in Seq(AnyTP \X Int) BY <3>1, <4>2, UserState DEF ThreadOK
        <5>2. i + 1 \in DOMAIN s.todo /\ r.todo[i] = s.todo[i + 1] BY <3>2, <4>2, <5>1
        <5>3. PICK k : k = i + 1 OBVIOUS
        <5>4. k \in DOMAIN thread[t].todo /\ tp = thread[t].todo[k][1] /\ o = thread[t].todo[k][2]
          BY <3>1, <4>1, <5>2, <5>3
        <5>5. Covered(c, tp, o + 1)'
          BY <1>2, <2>1, <3>1, <4>2, <5>4, TodoCoveredStays
        <5> QED BY <4>1, <5>5
      <4>3. CASE UserOf[t] \in Grouped /\ Range(r.todo) \subseteq Consumed(UserOf[t])
        <5>1. PICK d : d = UserOf[t] OBVIOUS
        <5>2. r.todo[i] \in Consumed(d) BY <3>2, <4>3, <5>1 DEF Range
        <5>3. PICK q \in AnyTP : \E x \in Range(got[d][q]) : r.todo[i] = << q, x >>
          BY <5>2 DEF Consumed
        <5>4. PICK x \in Range(got[d][q]) : r.todo[i] = << q, x >> BY <5>3
        <5>5. tp = q /\ o = x BY <4>1, <5>4
        <5>6. PICK j \in DOMAIN got[d][q] : x = got[d][q][j] BY <5>4 DEF Range
        <5>7. d \in Consumers /\ d \in Grouped BY <4>3, <5>1, ConsumersAssumption
        <5>8. GotCovered(d) BY <1>5, <5>7 DEF CoverInv, Tracked
        <5>9. Covered(d, q, x + 1)' BY <1>2, <5>6, <5>7, <5>8, GotCoveredStays
        <5>10. Delivered(c, q)' = Delivered(d, q)' BY <1>5, <5>7 DEF Delivered
        <5>11. Covered(c, q, x + 1)' BY <5>9, <5>10 DEF Covered
        <5> QED BY <4>1, <5>5, <5>11
      <4> QED BY <1>5, <3>1, <3>2, <4>2, <4>3 DEF Other, TodoGoes
    <3>3. TodoCovered(c, t)' = (r.pc = "commit" =>
             \A i \in DOMAIN r.todo : Covered(c, r.todo[i][1], r.todo[i][2] + 1)')
      BY <3>1 DEF TodoCovered
    <3> QED BY <3>2, <3>3
  <2> QED BY <2>2, <2>3, <2>4
<1> QED BY <1>3, <1>4, <1>5 DEF CoverInv, Tracked

LEMMA CoverOutside ==
    ASSUME TypeInv, TypeInv', CoverInv, Outside
    PROVE  CoverInv'
<1>1. TopicsGrow /\ UNCHANGED << committed, state, thread, got >> BY DEF Outside
<1>2. Growing BY <1>1 DEF Growing, GotGrows
<1>3. ASSUME NEW c \in Consumers, Tracked(c) PROVE (GotCovered(c) /\ PositionCovered(c))'
  <2>1. GotCovered(c)' BY <1>1, <1>2, <1>3, GotSame DEF CoverInv
  <2>2. PositionCovered(c)' BY <1>1, <1>2, <1>3, PositionCoveredStays DEF CoverInv
  <2> QED BY <2>1, <2>2
<1>4. ASSUME NEW u \in Threads, Tracked(UserOf[u]) PROVE ThreadCovered(u)'
  BY <1>1, <1>2, <1>4, ThreadCoveredStays DEF CoverInv
<1>5. ASSUME ~ CommitsAnything, NEW c \in Grouped
      PROVE  /\ CommitsCovered(c)'
             /\ \A u \in Threads : TodoCovered(c, u)'
  <2>1. CommitsCovered(c)' BY <1>1, <1>2, <1>5, CommitsCoveredStay DEF CoverInv
  <2>2. ASSUME NEW u \in Threads PROVE TodoCovered(c, u)'
    BY <1>1, <1>2, <1>5, <2>2, TodoSame DEF CoverInv
  <2> QED BY <2>1, <2>2
<1> QED BY <1>3, <1>4, <1>5 DEF CoverInv, Tracked

LEMMA CoverStep ==
    ASSUME TypeInv, CoverInv, [Next]_vars, Calls \cap {"seek", "store_offset"} = {}
    PROVE  CoverInv'
<1>1. TypeInv' /\ StepGoes BY StepKinds
<1> QED BY <1>1, CoverFind, CoverAdjust, CoverRecord, CoverOther, CoverOutside
   DEF StepGoes, PollGoes

LEMMA CoverInit == Init => CoverInv
<1> SUFFICES ASSUME Init PROVE CoverInv OBVIOUS
<1>1. ASSUME NEW c \in Consumers PROVE GotCovered(c) /\ PositionCovered(c)
  <2>1. state[c].position = Group!EmptyMap BY NewConsumerOK DEF Init
  <2>2. DOMAIN state[c].position = {} BY <2>1 DEF Group!EmptyMap
  <2>3. \A tp \in AnyTP : got[c][tp] = << >> BY DEF Init, PerPair
  <2> QED BY <2>2, <2>3 DEF GotCovered, PositionCovered
<1>2. ASSUME NEW t \in Threads
      PROVE  ThreadCovered(t) /\ \A c \in Grouped : TodoCovered(c, t)
  <2>1. thread[t].pc = "idle" BY IdleOK DEF Init
  <2> QED BY <2>1 DEF ThreadCovered, TodoCovered
<1>3. DOMAIN committed = {} BY DEF Init, Group!EmptyMap
<1> QED BY <1>1, <1>2, <1>3 DEF CoverInv, CommitsCovered

(* SkippedOnlyIfEvicted: a consumer without a group that never sets its    *)
(* position by hand (no seek, no store_offset) skips a message only if the *)
(* partition has dropped it: whatever threads share the consumer, and      *)
(* however it subscribes, assigns, pauses and resumes.                     *)
THEOREM ConsumerSkipsOnlyEvicted ==
    ASSUME Calls \cap {"seek", "store_offset"} = {}
    PROVE  Spec => []SkippedOnlyIfEvicted
<1>1. TypeInv /\ CoverInv => SkippedOnlyIfEvicted
  <2> SUFFICES ASSUME TypeInv, CoverInv, NEW c \in Consumers \ Grouped, NEW tp \in AnyTP,
                      got[c][tp] # << >>, NEW x \in 0..Last(got[c][tp]), Retained(tp, x)
               PROVE  x \in Range(got[c][tp])
    BY DEF SkippedOnlyIfEvicted
  <2>1. PICK g, n : g = got[c][tp] /\ n = Len(g) OBVIOUS
  <2>2. g \in Seq(Nat) /\ g # << >> BY <2>1 DEF TypeInv, GhostInv
  <2>3. n \in DOMAIN g /\ g[n] \in Nat /\ Last(g) = g[n] BY <2>1, <2>2 DEF Last
  <2>4. Covered(c, tp, g[n] + 1) BY <2>1, <2>3 DEF CoverInv, Tracked, GotCovered
  <2>5. x \in 0..((g[n] + 1) - 1) BY <2>1, <2>3
  <2> QED BY <2>1, <2>4, <2>5 DEF Covered, Delivered
<1>2. TypeInv /\ CoverInv /\ [Next]_vars => CoverInv' BY CoverStep
<1> QED BY <1>1, <1>2, CoverInit, ConsumerTypeInv, PTL DEF Spec

LEMMA CoverGroup ==
    ASSUME TypeInv, CoverInv, ~ CommitsAnything
    PROVE  GroupLosesNothing
<1> SUFFICES ASSUME NEW tp \in AnyTP, NEW c \in Grouped,
                    NEW i \in DOMAIN got[c][tp], NEW x \in 0..got[c][tp][i],
                    Retained(tp, x)
             PROVE  \E d \in Grouped : x \in Range(got[d][tp])
  BY DEF GroupLosesNothing
<1>1. c \in Consumers BY ConsumersAssumption
<1>2. PICK o : o = got[c][tp][i] OBVIOUS
<1>3. o \in Nat
  <2>1. got[c][tp] \in Seq(Nat) BY <1>1 DEF TypeInv, GhostInv
  <2> QED BY <1>2, <2>1
<1>4. Covered(c, tp, o + 1) BY <1>1, <1>2 DEF CoverInv, Tracked, GotCovered
<1>5. x \in 0..((o + 1) - 1) BY <1>2, <1>3
<1>6. x \in Delivered(c, tp) BY <1>4, <1>5 DEF Covered
<1> QED BY <1>6 DEF Delivered

(* GroupLosesNothing: members of a group that commit offsets of messages   *)
(* they were given hand partitions over without loss, in whatever way they *)
(* join, leave, commit and are scheduled.  Left out are commits of other   *)
(* offsets: commit_message commits the offset after the message's and      *)
(* loses one at each handover (run claim_commit_message).                  *)
THEOREM GroupHandsOver ==
    ASSUME Calls \cap {"seek", "store_offset"} = {},
           Calls \cap {"commit_message", "commit any"} = {}
    PROVE  Spec => []GroupLosesNothing
<1>1. TypeInv /\ CoverInv => GroupLosesNothing BY CoverGroup DEF CommitsAnything
<1>2. TypeInv /\ CoverInv /\ [Next]_vars => CoverInv' BY CoverStep
<1> QED BY <1>1, <1>2, CoverInit, ConsumerTypeInv, PTL DEF Spec

-----------------------------------------------------------------------------
(* Order.  After the last offset a consumer got of a partition, the offset *)
(* it would continue with is larger, or the partition has dropped          *)
(* everything up to that last one: then only what is still there can be    *)
(* read, and the offset to read it at is larger.                           *)

Ahead(tp, last, o) ==
    /\ o <= Buffer(tp).next_offset
    /\ o > last \/ OldestRetained(Buffer(tp)) > last

PlaceOK(s, last) ==
    /\ s.pc # "oldest"
    /\ s.pc \in {"resolve", "fetch", "adjust"} =>
          s.at # {} /\ \A o \in s.at : Ahead(s.tp, last, o)
    /\ s.pc = "readjust" => OldestRetained(Buffer(s.tp)) > last
    /\ s.pc = "record" => \A o \in s.at : o > last

OrderOK(c, tp, last) ==
    /\ Known(tp) /\ last < Buffer(tp).next_offset
    /\ tp \in DOMAIN state[c].position /\ Ahead(tp, last, state[c].position[tp])
    /\ \A t \in Threads :
          UserOf[t] = c /\ thread[t].pc \in InScan /\ thread[t].tp = tp =>
             PlaceOK(thread[t], last)

(* A message about to be returned is one of the partition.                 *)
RecordOK(t) ==
    thread[t].pc = "record" =>
       \A o \in thread[t].at : /\ Known(thread[t].tp)
                               /\ o < Buffer(thread[t].tp).next_offset

OrderInv ==
    /\ DeliveredInOrder
    /\ \A t \in Threads : RecordOK(t)
    /\ \A c \in Consumers, tp \in AnyTP :
          got[c][tp] # << >> => OrderOK(c, tp, Last(got[c][tp]))

LEMMA LastGot ==
    ASSUME TypeInv, NEW c \in Consumers, NEW tp \in AnyTP, got[c][tp] # << >>
    PROVE  /\ got[c][tp] \in Seq(Nat)
           /\ Len(got[c][tp]) \in DOMAIN got[c][tp] /\ Last(got[c][tp]) \in Nat
<1>1. PICK g : g = got[c][tp] OBVIOUS
<1>2. g \in Seq(Nat) BY <1>1 DEF TypeInv, GhostInv
<1>3. Len(g) \in DOMAIN g /\ g[Len(g)] \in Nat BY <1>1, <1>2
<1> QED BY <1>1, <1>2, <1>3 DEF Last

LEMMA AheadStays ==
    ASSUME Growing, NEW tp \in AnyTP, Known(tp), NEW last \in Nat, NEW o \in Int,
           Ahead(tp, last, o)
    PROVE  Ahead(tp, last, o)'
<1>1. PICK n, m, x, y : /\ n = Buffer(tp).next_offset /\ m = Buffer(tp)'.next_offset
                        /\ x = OldestRetained(Buffer(tp)) /\ y = OldestRetained(Buffer(tp)')
  OBVIOUS
<1>2. n \in Nat /\ m \in Nat /\ x \in Nat /\ y \in Nat /\ n <= m /\ x <= y
  BY <1>1, KnownGrows
<1>3. o <= n /\ (o > last \/ x > last) BY <1>1 DEF Ahead
<1>4. o <= m /\ (o > last \/ y > last) BY <1>2, <1>3
<1> QED BY <1>1, <1>4 DEF Ahead

LEMMA PlaceStays ==
    ASSUME Growing, NEW t, NEW s, ThreadOK(t, s), s.pc \in InScan, Known(s.tp),
           NEW last \in Nat, PlaceOK(s, last)
    PROVE  PlaceOK(s, last)'
<1>1. s.tp \in AnyTP BY DEF ThreadOK
<1>2. ASSUME s.pc \in {"resolve", "fetch", "adjust"}, NEW o \in s.at
      PROVE  Ahead(s.tp, last, o)'
  <2>1. o \in Int BY <1>2 DEF ThreadOK, Offset, Found
  <2>2. Ahead(s.tp, last, o) BY <1>2 DEF PlaceOK
  <2> QED BY <1>1, <2>1, <2>2, AheadStays
<1>3. ASSUME s.pc = "readjust" PROVE OldestRetained(Buffer(s.tp)') > last
  <2>1. PICK x, y : x = OldestRetained(Buffer(s.tp)) /\ y = OldestRetained(Buffer(s.tp)')
    OBVIOUS
  <2>2. x \in Nat /\ y \in Nat /\ x <= y BY <1>1, <2>1, KnownGrows
  <2>3. x > last BY <1>3, <2>1 DEF PlaceOK
  <2> QED BY <2>1, <2>2, <2>3
<1>4. (OldestRetained(Buffer(s.tp)) > last)' = (OldestRetained(Buffer(s.tp)') > last)
  BY DEF OldestRetained
<1> QED BY <1>2, <1>3, <1>4 DEF PlaceOK

(* What a step of thread t has to show about a pair of which nothing is    *)
(* delivered: that the position and its own place are fine.                *)
LEMMA OrderKept ==
    ASSUME Growing, NEW c \in Consumers, NEW tp \in AnyTP, NEW last \in Nat,
           OrderOK(c, tp, last), NEW t \in Threads, Others(t), NEW o,
           tp \in DOMAIN state'[c].position, o = state'[c].position[tp],
           Ahead(tp, last, o)',
           NEW r, r = thread'[t],
           UserOf[t] = c /\ r.pc \in InScan /\ r.tp = tp => PlaceOK(r, last)'
    PROVE  OrderOK(c, tp, last)'
<1>1. /\ Known(tp)' /\ last < Buffer(tp)'.next_offset
  <2>1. PICK n, m : n = Buffer(tp).next_offset /\ m = Buffer(tp)'.next_offset OBVIOUS
  <2>2. Known(tp) /\ last < n BY <2>1 DEF OrderOK
  <2>3. Known(tp)' /\ n \in Nat /\ m \in Nat /\ n <= m BY <2>1, <2>2, KnownGrows
  <2>4. last < m BY <2>2, <2>3
  <2> QED BY <2>1, <2>3, <2>4
<1>2. ASSUME NEW u \in Threads, UserOf[u] = c, thread'[u].pc \in InScan, thread'[u].tp = tp
      PROVE  PlaceOK(thread[u], last)'
  <2>1. PICK s : s = thread'[u] OBVIOUS
  <2>2. CASE u = t
    <3>1. s = r /\ PlaceOK(r, last)' BY <1>2, <2>1, <2>2
    <3>2. PlaceOK(s, last)' BY <3>1
    <3> QED BY <2>1, <3>2
  <2>3. CASE u # t
    <3>1. s = thread[u] BY <2>1, <2>3 DEF Others
    <3>2. ThreadOK(u, s) BY <3>1, UserState DEF Growing
    <3>3. PlaceOK(s, last) /\ Known(s.tp) BY <1>2, <2>1, <3>1 DEF OrderOK
    <3>4. PlaceOK(s, last)' BY <1>2, <2>1, <3>2, <3>3, PlaceStays
    <3> QED BY <2>1, <3>4
  <2> QED BY <2>2, <2>3
<1>3. Ahead(tp, last, state[c].position[tp])' BY DEF Ahead
<1> QED BY <1>1, <1>2, <1>3 DEF OrderOK, Buffer

LEMMA RecordOKStays ==
    ASSUME Growing, NEW t \in Threads, RecordOK(t), thread'[t] = thread[t]
    PROVE  RecordOK(t)'
<1>1. PICK s : s = thread[t] /\ s = thread'[t] OBVIOUS
<1>2. ASSUME s.pc = "record", NEW o \in s.at
      PROVE  Known(s.tp)' /\ o < Buffer(s.tp)'.next_offset
  <2>1. s.tp \in AnyTP /\ o \in Nat
    BY <1>1, <1>2, UserState DEF Growing, ThreadOK, InScan, Found
  <2>2. Known(s.tp) /\ o < Buffer(s.tp).next_offset BY <1>1, <1>2 DEF RecordOK
  <2>3. /\ Known(s.tp)' /\ Buffer(s.tp).next_offset <= Buffer(s.tp)'.next_offset
        /\ Buffer(s.tp).next_offset \in Nat /\ Buffer(s.tp)'.next_offset \in Nat
    BY <2>1, <2>2, KnownGrows
  <2> QED BY <2>1, <2>2, <2>3
<1> QED BY <1>1, <1>2 DEF RecordOK, Known, get_topic, get_partition, Buffer

(* The same for the whole invariant.                                       *)
LEMMA OrderSame ==
    ASSUME Growing, OrderInv, NEW t \in Threads, Others(t), got' = got, RecordOK(t)',
           \A c \in Consumers : \A tp \in DOMAIN state[c].position :
              tp \in DOMAIN state'[c].position,
           \A c \in Consumers, tp \in AnyTP, last \in Nat :
              OrderOK(c, tp, last) =>
                 /\ Ahead(tp, last, state[c].position[tp])'
                 /\ UserOf[t] = c /\ thread'[t].pc \in InScan /\ thread'[t].tp = tp =>
                       PlaceOK(thread[t], last)'
    PROVE  OrderInv'
<1>1. DeliveredInOrder' BY DEF OrderInv, DeliveredInOrder
<1>2. \A u \in Threads : RecordOK(u)'
  BY RecordOKStays DEF OrderInv, Others
<1>3. ASSUME NEW c \in Consumers, NEW tp \in AnyTP, got'[c][tp] # << >>
      PROVE  OrderOK(c, tp, Last(got[c][tp]))'
  <2>1. PICK last, o, r : /\ last = Last(got[c][tp]) /\ o = state'[c].position[tp]
                          /\ r = thread'[t]
    OBVIOUS
  <2>2. last \in Nat BY <1>3, <2>1, LastGot DEF Growing
  <2>3. OrderOK(c, tp, last) BY <1>3, <2>1 DEF OrderInv
  <2>4. tp \in DOMAIN state'[c].position BY <2>3 DEF OrderOK
  <2>5. Ahead(tp, last, o)' BY <2>1, <2>2, <2>3
  <2>6. UserOf[t] = c /\ r.pc \in InScan /\ r.tp = tp => PlaceOK(r, last)'
    BY <2>1, <2>2, <2>3
  <2>7. OrderOK(c, tp, last)' BY <2>1, <2>2, <2>3, <2>4, <2>5, <2>6, OrderKept
  <2> QED BY <2>1, <2>7
<1> QED BY <1>1, <1>2, <1>3 DEF OrderInv

(* And for the steps that change their thread only.                        *)
LEMMA OrderQuiet ==
    ASSUME TypeInv, TypeInv', OrderInv, NEW t \in Threads, Quiet(t),
           NEW r, r = thread'[t],
           r.pc = "record" => \A o \in r.at : Retained(r.tp, o),
           \A last \in Nat :
              OrderOK(UserOf[t], r.tp, last) /\ r.pc \in InScan => PlaceOK(r, last)
    PROVE  OrderInv'
<1>1. Others(t) /\ TopicsGrow /\ UNCHANGED << topics, state, got >> BY DEF Quiet
<1>2. Growing BY <1>1 DEF Growing, GotGrows
<1>3. RecordOK(t)'
  BY <1>1 DEF RecordOK, Retained, Known, get_topic, get_partition, Buffer
<1>4. ASSUME NEW c \in Consumers, NEW tp \in AnyTP, NEW last \in Nat, OrderOK(c, tp, last)
      PROVE  /\ Ahead(tp, last, state[c].position[tp])'
             /\ UserOf[t] = c /\ thread'[t].pc \in InScan /\ thread'[t].tp = tp =>
                   PlaceOK(thread[t], last)'
  <2>1. PICK o : o = state[c].position[tp] /\ o = state'[c].position[tp] BY <1>1
  <2>2. Ahead(tp, last, o) BY <1>4, <2>1 DEF OrderOK
  <2>3. Ahead(tp, last, o)' BY <1>1, <2>2 DEF Ahead, Buffer
  <2>4. ASSUME UserOf[t] = c, r.pc \in InScan, r.tp = tp PROVE PlaceOK(r, last)'
    <3>1. PlaceOK(r, last) BY <1>4, <2>4
    <3> QED BY <1>1, <3>1 DEF PlaceOK, Ahead, Buffer
  <2>5. PlaceOK(r, last)' => PlaceOK(thread[t], last)' OBVIOUS
  <2> QED BY <2>1, <2>3, <2>4, <2>5
<1> QED BY <1>1, <1>2, <1>3, <1>4, OrderSame

LEMMA OrderFind ==
    ASSUME TypeInv, TypeInv', OrderInv, NEW t \in Threads,
           \/ LookGoes(t)
           \/ ResolveGoes(t)
           \/ OldestGoes(t)
           \/ FetchGoes(t)
           \/ ReadjustGoes(t)
    PROVE  OrderInv'
<1>1. PICK s, u, r : s = thread[t] /\ u = UserOf[t] /\ r = thread'[t] OBVIOUS
<1>2. u \in Consumers /\ ThreadOK(t, s) BY <1>1, UserState
<1>3. Quiet(t)
  BY DEF LookGoes, ResolveGoes, OldestGoes, FetchGoes, ReadjustGoes
<1>4. ASSUME Passes(t) PROVE OrderInv'
  <2>1. r.pc \in {"idle", "look"} BY <1>1, <1>4, IdleOK DEF Passes, Ends
  <2> QED BY <1>1, <1>3, <2>1, OrderQuiet DEF InScan
<1>5. CASE LookGoes(t)
  <2>1. CASE /\ r.pc = "resolve"
             /\ r.at = IF r.tp \in DOMAIN state[u].position THEN {state[u].position[r.tp]}
                       ELSE {}
    <3>1. ASSUME NEW last \in Nat, OrderOK(u, r.tp, last) PROVE PlaceOK(r, last)
      BY <2>1, <3>1 DEF OrderOK, PlaceOK
    <3> QED BY <1>1, <1>3, <2>1, <3>1, OrderQuiet
  <2> QED BY <1>1, <1>4, <1>5, <2>1 DEF LookGoes
<1>6. ASSUME NEW last \in Nat, OrderOK(u, s.tp, last), s.pc \in InScan PROVE PlaceOK(s, last)
  BY <1>1, <1>6 DEF OrderOK
<1>7. CASE ResolveGoes(t)
  <2>1. s.pc = "resolve" BY <1>1, <1>7 DEF ResolveGoes
  <2>2. CASE Ends(t) BY <1>4, <2>2 DEF Passes
  <2>3. CASE Keeps(t, "fetch") /\ s.at # {} /\ r.at = s.at
    <3>1. r.pc = "fetch" /\ r.tp = s.tp BY <1>1, <2>3 DEF Keeps
    <3>2. ASSUME NEW last \in Nat, OrderOK(u, r.tp, last) PROVE PlaceOK(r, last)
      <4>1. PlaceOK(s, last) BY <1>6, <2>1, <3>1, <3>2 DEF InScan
      <4> QED BY <2>1, <2>3, <3>1, <4>1 DEF PlaceOK
    <3> QED BY <1>1, <1>3, <3>1, <3>2, OrderQuiet
  <2>4. CASE s.at = {} /\ (Keeps(t, "fetch") \/ Keeps(t, "oldest"))
    <3>1. r.pc # "record" /\ r.tp = s.tp BY <1>1, <2>4 DEF Keeps
    <3>2. ASSUME NEW last \in Nat, OrderOK(u, r.tp, last) PROVE FALSE
      <4>1. PlaceOK(s, last) BY <1>6, <2>1, <3>1, <3>2 DEF InScan
      <4> QED BY <2>1, <2>4, <4>1 DEF PlaceOK
    <3> QED BY <1>1, <1>3, <3>1, <3>2, OrderQuiet
  <2> QED BY <1>1, <1>7, <2>2, <2>3, <2>4 DEF ResolveGoes
<1>8. CASE OldestGoes(t)
  <2>1. s.pc = "oldest" BY <1>1, <1>8 DEF OldestGoes
  <2>2. CASE Keeps(t, "fetch")
    <3>1. r.pc = "fetch" /\ r.tp = s.tp BY <1>1, <2>2 DEF Keeps
    <3>2. ASSUME NEW last \in Nat, OrderOK(u, r.tp, last) PROVE FALSE
      <4>1. PlaceOK(s, last) BY <1>6, <2>1, <3>1, <3>2 DEF InScan
      <4> QED BY <2>1, <4>1 DEF PlaceOK
    <3> QED BY <1>1, <1>3, <3>1, <3>2, OrderQuiet
  <2> QED BY <1>1, <1>4, <1>8, <2>2 DEF OldestGoes
<1>9. ASSUME Known(s.tp), NEW n, NEW x, NEW b, b = Buffer(s.tp), n = b.next_offset,
             x = OldestRetained(b)
      PROVE  /\ BufferOK(b) /\ n \in Nat /\ x \in 0..n
             /\ b.log # << >> => watermarks(b).oldest = x
             /\ b.log = << >> => watermarks(b).oldest = 0 /\ x = n
  <2>1. BufferOK(b) BY <1>9, KnownBuffer DEF TypeInv
  <2> QED BY <1>9, <2>1, BufferBounds DEF BufferOK
<1>10. CASE FetchGoes(t)
  <2>1. s.pc = "fetch" BY <1>1, <1>10 DEF FetchGoes
  <2>2. ASSUME NEW o \in Int, Known(s.tp), s.at = {o}, r.tp = s.tp,
               \/ r.pc = "readjust" /\ OffsetRejected(Buffer(s.tp), o)
               \/ r.pc = "record" /\ Retained(s.tp, o) /\ r.at = {o}
        PROVE  OrderInv'
    <3>1. ASSUME NEW last \in Nat, OrderOK(u, r.tp, last) PROVE PlaceOK(r, last)
      <4>1. PlaceOK(s, last) BY <1>6, <2>1, <2>2, <3>1 DEF InScan
      <4>2. Ahead(s.tp, last, o) BY <2>1, <2>2, <4>1 DEF PlaceOK
      <4>3. PICK b, n, x : b = Buffer(s.tp) /\ n = b.next_offset /\ x = OldestRetained(b)
        OBVIOUS
      <4>4. n \in Nat /\ x \in 0..n /\ (b.log = << >> => x = n)
        BY <1>9, <2>2, <4>3
      <4>5. o <= n /\ (o > last \/ x > last) BY <4>2, <4>3 DEF Ahead
      <4>6. CASE r.pc = "readjust" /\ OffsetRejected(Buffer(s.tp), o)
        <5>1. o < x \/ o > n \/ (b.log = << >> /\ o # n)
          BY <4>3, <4>6 DEF OffsetRejected
        <5>2. x > last BY <4>4, <4>5, <5>1
        <5> QED BY <2>2, <4>3, <4>6, <5>2 DEF PlaceOK
      <4>7. CASE r.pc = "record" /\ Retained(s.tp, o) /\ r.at = {o}
        <5>1. x <= o BY <4>3, <4>7 DEF Retained
        <5>2. o > last BY <4>4, <4>5, <5>1
        <5> QED BY <4>7, <5>2 DEF PlaceOK
      <4> QED BY <2>2, <4>6, <4>7
    <3>2. r.pc = "record" => \A y \in r.at : Retained(r.tp, y) BY <2>2
    <3> QED BY <1>1, <1>3, <3>1, <3>2, OrderQuiet
  <2> QED BY <1>1, <1>4, <1>10, <2>2 DEF FetchGoes, Keeps
<1>11. CASE ReadjustGoes(t)
  <2>1. s.pc = "readjust" BY <1>1, <1>11 DEF ReadjustGoes
  <2>2. CASE /\ Keeps(t, "adjust") /\ Known(s.tp)
             /\ r.at = {watermarks(Buffer(s.tp)).oldest}
    <3>1. r.pc = "adjust" /\ r.tp = s.tp BY <1>1, <2>2 DEF Keeps
    <3>2. ASSUME NEW last \in Nat, OrderOK(u, r.tp, last) PROVE PlaceOK(r, last)
      <4>1. PlaceOK(s, last) BY <1>6, <2>1, <3>1, <3>2 DEF InScan
      <4>2. PICK b, n, x, o : /\ b = Buffer(s.tp) /\ n = b.next_offset
                              /\ x = OldestRetained(b) /\ o = watermarks(b).oldest
        OBVIOUS
      <4>3. /\ n \in Nat /\ x \in 0..n
            /\ b.log # << >> => o = x
            /\ b.log = << >> => o = 0
        BY <1>9, <2>2, <4>2
      <4>4. x > last BY <2>1, <4>1, <4>2 DEF PlaceOK
      <4>5. o <= n BY <4>3
      <4>6. Ahead(s.tp, last, o) BY <4>2, <4>4, <4>5 DEF Ahead
      <4> QED BY <2>2, <3>1, <4>2, <4>6 DEF PlaceOK
    <3> QED BY <1>1, <1>3, <3>1, <3>2, OrderQuiet
  <2> QED BY <1>1, <1>4, <1>11, <2>2 DEF ReadjustGoes
<1> QED BY <1>5, <1>7, <1>8, <1>10, <1>11

LEMMA OrderAdjust ==
    ASSUME TypeInv, TypeInv', OrderInv, NEW t \in Threads, AdjustGoes(t)
    PROVE  OrderInv'
<1>1. PICK s, u, d : s = thread[t] /\ u = UserOf[t] /\ d = state[u] OBVIOUS
<1>2. u \in Consumers /\ ConsumerOK(d) /\ s.tp \in AnyTP /\ s.pc = "adjust"
  BY <1>1, UserState DEF AdjustGoes, ThreadOK, InScan
<1>3. PICK o \in Nat : /\ s.at = {o}
                       /\ StateSet(t, [d EXCEPT !.position = Group!Insert(@, s.tp, o)])
  BY <1>1 DEF AdjustGoes
<1>4. PICK new : new = [d EXCEPT !.position = Group!Insert(@, s.tp, o)] OBVIOUS
<1>5. new.position = Group!Insert(d.position, s.tp, o) BY <1>2, <1>4, PositionSet
<1>6. /\ Others(t) /\ TopicsGrow /\ topics' = topics /\ got' = got
      /\ thread'[t].pc \in {"idle", "look"}
  BY IdleOK DEF AdjustGoes, Passes, Ends
<1>7. Growing BY <1>6 DEF Growing, GotGrows
<1>8. state'[u] = new /\ \A c \in Consumers : c # u => state'[c] = state[c]
  BY <1>1, <1>3, <1>4 DEF StateSet
<1>9. /\ DOMAIN new.position = DOMAIN d.position \cup {s.tp}
      /\ new.position[s.tp] = o
      /\ \A tp \in DOMAIN d.position : tp # s.tp => new.position[tp] = d.position[tp]
  BY <1>5 DEF Group!Insert
<1>10. \A c \in Consumers : \A tp \in DOMAIN state[c].position :
          tp \in DOMAIN state'[c].position
  BY <1>1, <1>8, <1>9
<1>11. ASSUME NEW c \in Consumers, NEW tp \in AnyTP, NEW last \in Nat, OrderOK(c, tp, last)
       PROVE  Ahead(tp, last, state[c].position[tp])'
  <2>1. PICK x : x = state'[c].position[tp] OBVIOUS
  <2>2. Ahead(tp, last, x)
    <3>1. CASE c = u /\ tp = s.tp
      <4>1. PlaceOK(s, last) BY <1>1, <1>2, <1>11, <3>1 DEF OrderOK, InScan
      <4>2. Ahead(tp, last, o) BY <1>2, <1>3, <3>1, <4>1 DEF PlaceOK
      <4> QED BY <1>8, <1>9, <2>1, <3>1, <4>2
    <3>2. CASE ~ (c = u /\ tp = s.tp)
      <4>1. tp \in DOMAIN state[c].position /\ Ahead(tp, last, state[c].position[tp])
        BY <1>11 DEF OrderOK
      <4>2. x = state[c].position[tp] BY <1>1, <1>8, <1>9, <2>1, <3>2, <4>1
      <4> QED BY <4>1, <4>2
    <3> QED BY <3>1, <3>2
  <2>3. Ahead(tp, last, x)' BY <1>6, <2>2 DEF Ahead, Buffer
  <2> QED BY <2>1, <2>3
<1>12. RecordOK(t)' BY <1>6 DEF RecordOK
<1>13. thread'[t].pc \notin InScan BY <1>6 DEF InScan
<1> QED BY <1>6, <1>7, <1>10, <1>11, <1>12, <1>13, OrderSame

LEMMA OrderOther ==
    ASSUME TypeInv, TypeInv', OrderInv, NEW t \in Threads, Other(t),
           Calls \cap {"seek", "store_offset", "assign", "unsubscribe"} = {}
    PROVE  OrderInv'
<1>1. Others(t) /\ TopicsGrow /\ got' = got /\ thread'[t].pc \notin InScan
  BY DEF Other, Begins, Scanning, InScan
<1>2. Growing BY <1>1 DEF Growing, GotGrows
<1>3. \A c \in Consumers : state'[c].position = state[c].position
  BY DEF Other, PositionGoes, StateSet
<1>4. ASSUME NEW c \in Consumers, NEW tp \in AnyTP, NEW last \in Nat, OrderOK(c, tp, last)
      PROVE  Ahead(tp, last, state[c].position[tp])'
  <2>1. PICK x : x = state'[c].position[tp] /\ x = state[c].position[tp] BY <1>3
  <2>2. Ahead(tp, last, x) /\ Known(tp) /\ x \in Int
    BY <1>4, <2>1 DEF OrderOK, TypeInv, StateInv, ConsumerOK, OffsetMap
  <2>3. Ahead(tp, last, x)' BY <1>2, <2>2, AheadStays
  <2> QED BY <2>1, <2>3
<1>5. RecordOK(t)' BY <1>1 DEF RecordOK, InScan
<1> QED BY <1>1, <1>2, <1>3, <1>4, <1>5, OrderSame

(* With one caller no thread but the one that delivers holds an offset of  *)
(* the pair delivered.                                                     *)
LEMMA OrderRecord ==
    ASSUME TypeInv, TypeInv', OrderInv, OneCaller, NEW t \in Threads, RecordGoes(t)
    PROVE  OrderInv'
<1>1. PICK s, u, d : s = thread[t] /\ u = UserOf[t] /\ d = state[u] OBVIOUS
<1>2. u \in Consumers /\ ConsumerOK(d) /\ s.tp \in AnyTP /\ s.pc = "record"
  BY <1>1, UserState DEF RecordGoes, ThreadOK, InScan
<1>3. PICK o \in Nat : /\ s.at = {o} /\ StateSet(t, Recorded(d, s, o))
                       /\ got' = [got EXCEPT ![u][s.tp] = Append(@, o)]
  BY <1>1 DEF RecordGoes
<1>4. PICK new : new = Recorded(d, s, o) OBVIOUS
<1>5. new.position = Group!Insert(d.position, s.tp, o + 1)
  BY <1>2, <1>4 DEF ConsumerOK, Recorded
<1>6. state'[u] = new /\ \A c \in Consumers : c # u => state'[c] = state[c]
  BY <1>1, <1>3, <1>4 DEF StateSet
<1>7. /\ DOMAIN new.position = DOMAIN d.position \cup {s.tp}
      /\ new.position[s.tp] = o + 1
      /\ \A tp \in DOMAIN d.position : tp # s.tp => new.position[tp] = d.position[tp]
  BY <1>5 DEF Group!Insert
<1>8. /\ Others(t) /\ topics' = topics /\ thread'[t].pc = "idle"
  BY IdleOK DEF RecordGoes, Ends
<1>9. PICK g, h : g = got[u][s.tp] /\ h = got'[u][s.tp] OBVIOUS
<1>10. g \in Seq(Nat) BY <1>2, <1>9 DEF TypeInv, GhostInv
<1>11. /\ Growing /\ h = Append(g, o)
       /\ \A c \in Consumers, tp \in AnyTP : c # u \/ tp # s.tp => got'[c][tp] = got[c][tp]
  <2>1. PICK tp : tp = s.tp OBVIOUS
  <2>2. u = UserOf[t] /\ tp = thread[t].tp BY <1>1, <2>1
  <2>3. Growing BY <2>2, RecordGrows
  <2>4. h = Append(g, o) BY <1>2, <1>3, <1>9 DEF TypeInv, GhostInv
  <2>5. \A c \in Consumers, q \in AnyTP : c # u \/ q # tp => got'[c][q] = got[c][q]
    BY <2>2, RecordGrows
  <2> QED BY <2>1, <2>3, <2>4, <2>5
<1>12. /\ DOMAIN h = 1..(Len(g) + 1) /\ DOMAIN g = 1..Len(g) /\ Len(g) \in Nat
       /\ h[Len(g) + 1] = o /\ Len(h) = Len(g) + 1
       /\ \A i \in 1..Len(g) : h[i] = g[i]
  BY <1>10, <1>11, AppendFacts
<1>13. Known(s.tp) /\ o < Buffer(s.tp).next_offset
  BY <1>1, <1>2, <1>3 DEF OrderInv, RecordOK
<1>14. ASSUME g # << >>
       PROVE  Len(g) \in 1..Len(g) /\ g[Len(g)] \in Nat /\ g[Len(g)] < o
  <2>1. PICK last : last = g[Len(g)] OBVIOUS
  <2>2. Len(g) \in 1..Len(g) /\ last \in Nat /\ last = Last(g)
    BY <1>10, <1>12, <1>14, <2>1 DEF Last
  <2>3. OrderOK(u, s.tp, last) BY <1>2, <1>9, <1>14, <2>2 DEF OrderInv
  <2>4. PlaceOK(s, last) BY <1>1, <1>2, <2>3 DEF OrderOK, InScan
  <2>5. o > last BY <1>2, <1>3, <2>4 DEF PlaceOK
  <2> QED BY <2>1, <2>2, <2>5
<1>15. ASSUME NEW c \in Consumers, NEW tp \in AnyTP,
              NEW i \in DOMAIN got'[c][tp], NEW j \in DOMAIN got'[c][tp], i < j
       PROVE  got'[c][tp][i] < got'[c][tp][j]
  <2>1. CASE c # u \/ tp # s.tp
    BY <1>11, <1>15, <2>1 DEF OrderInv, DeliveredInOrder
  <2>2. CASE c = u /\ tp = s.tp
    <3>1. i \in 1..(Len(g) + 1) /\ j \in 1..(Len(g) + 1) BY <1>9, <1>12, <1>15, <2>2
    <3>2. \A a, b \in 1..Len(g) : a < b => g[a] < g[b]
      BY <1>2, <1>9, <1>12 DEF OrderInv, DeliveredInOrder
    <3>3. CASE j \in 1..Len(g)
      <4>1. i \in 1..Len(g) BY <1>12, <1>15, <3>1, <3>3
      <4> QED BY <1>9, <1>12, <1>15, <2>2, <3>2, <3>3, <4>1
    <3>4. CASE j = Len(g) + 1
      <4>1. i \in 1..Len(g) BY <1>12, <1>15, <3>1, <3>4
      <4>2. g # << >> /\ g[i] \in Nat BY <1>10, <1>12, <4>1
      <4>3. PICK n : n = Len(g) OBVIOUS
      <4>4. n \in 1..n /\ g[n] \in Nat /\ g[n] < o BY <1>14, <4>2, <4>3
      <4>5. i = n \/ g[i] < g[n] BY <1>12, <3>2, <4>1, <4>3, <4>4
      <4>6. g[i] < o BY <4>2, <4>4, <4>5
      <4>7. h[i] < h[j] BY <1>12, <3>4, <4>1, <4>6
      <4> QED BY <1>9, <2>2, <4>7
    <3> QED BY <1>12, <3>1, <3>3, <3>4
  <2> QED BY <2>1, <2>2
<1>16. ASSUME NEW v \in Threads PROVE RecordOK(v)'
  <2>1. CASE v = t BY <1>8, <2>1 DEF RecordOK
  <2>2. CASE v # t BY <1>8, <1>11, <2>2, RecordOKStays DEF OrderInv, Others
  <2> QED BY <2>1, <2>2
<1>17. ASSUME NEW c \in Consumers, NEW tp \in AnyTP, got'[c][tp] # << >>
       PROVE  OrderOK(c, tp, Last(got[c][tp]))'
  <2>1. PICK last : last = Last(got'[c][tp]) OBVIOUS
  <2>2. CASE c # u \/ tp # s.tp
    <3>1. got'[c][tp] = got[c][tp] BY <1>11, <2>2
    <3>2. last = Last(got[c][tp]) BY <2>1, <3>1
    <3>3. OrderOK(c, tp, last) BY <1>17, <3>1, <3>2 DEF OrderInv
    <3>4. last \in Nat BY <1>17, <3>1, <3>2, LastGot
    <3>5. PICK x, r : x = state'[c].position[tp] /\ r = thread'[t] OBVIOUS
    <3>6. /\ tp \in DOMAIN state[c].position /\ Ahead(tp, last, state[c].position[tp])
      BY <3>3 DEF OrderOK
    <3>7. tp \in DOMAIN state'[c].position /\ x = state[c].position[tp]
      <4>1. CASE c # u BY <1>6, <3>5, <3>6, <4>1
      <4>2. CASE c = u BY <1>1, <1>6, <1>7, <2>2, <3>5, <3>6, <4>2
      <4> QED BY <4>1, <4>2
    <3>8. Ahead(tp, last, x)' BY <1>8, <3>6, <3>7 DEF Ahead, Buffer
    <3>9. r.pc \notin InScan BY <1>8, <3>5 DEF InScan
    <3>10. OrderOK(c, tp, last)'
      BY <1>8, <1>11, <3>3, <3>4, <3>5, <3>7, <3>8, <3>9, OrderKept
    <3> QED BY <2>1, <3>10
  <2>3. CASE c = u /\ tp = s.tp
    <3>1. last = o BY <1>9, <1>12, <2>1, <2>3 DEF Last
    <3>2. Known(tp)' /\ o < Buffer(tp)'.next_offset
      BY <1>8, <1>13, <2>3 DEF Known, get_topic, get_partition, Buffer
    <3>3. tp \in DOMAIN state'[c].position /\ state'[c].position[tp] = o + 1
      BY <1>6, <1>7, <2>3
    <3>4. Buffer(tp)'.next_offset \in Nat BY <1>11, <1>13, <2>3, KnownGrows
    <3>5. PICK x : x = o + 1 OBVIOUS
    <3>6. x <= Buffer(tp)'.next_offset /\ x > o BY <3>2, <3>4, <3>5
    <3>7. Ahead(tp, o, x)' BY <3>6 DEF Ahead
    <3>8. \A v \in Threads : UserOf[v] = c => thread'[v].pc \notin InScan
      BY <1>1, <1>8, <2>3 DEF OneCaller, InScan
    <3>9. OrderOK(c, tp, o)' BY <3>2, <3>3, <3>5, <3>7, <3>8 DEF OrderOK, Buffer
    <3> QED BY <2>1, <3>1, <3>9
  <2> QED BY <2>2, <2>3
<1> QED BY <1>15, <1>16, <1>17 DEF OrderInv, DeliveredInOrder

LEMMA OrderOutside ==
    ASSUME TypeInv, TypeInv', OrderInv, Outside
    PROVE  OrderInv'
<1>1. TopicsGrow /\ UNCHANGED << state, thread, got >> BY DEF Outside
<1>2. Growing BY <1>1 DEF Growing, GotGrows
<1>3. DeliveredInOrder' BY <1>1 DEF OrderInv, DeliveredInOrder
<1>4. \A t \in Threads : RecordOK(t)' BY <1>1, <1>2, RecordOKStays DEF OrderInv
<1>5. ASSUME NEW c \in Consumers, NEW tp \in AnyTP, got'[c][tp] # << >>
      PROVE  OrderOK(c, tp, Last(got[c][tp]))'
  <2>1. PICK last, x : last = Last(got[c][tp]) /\ x = state[c].position[tp] OBVIOUS
  <2>2. OrderOK(c, tp, last) /\ last \in Nat BY <1>1, <1>5, <2>1, LastGot DEF OrderInv
  <2>3. PICK n, m : n = Buffer(tp).next_offset /\ m = Buffer(tp)'.next_offset OBVIOUS
  <2>4. Known(tp) /\ last < n BY <2>2, <2>3 DEF OrderOK
  <2>5. Known(tp)' /\ n \in Nat /\ m \in Nat /\ n <= m BY <1>2, <2>3, <2>4, KnownGrows
  <2>6. last < m BY <2>2, <2>4, <2>5
  <2>7. tp \in DOMAIN state[c].position /\ Ahead(tp, last, x) /\ x \in Int
    BY <2>1, <2>2 DEF OrderOK, TypeInv, StateInv, ConsumerOK, OffsetMap
  <2>8. Ahead(tp, last, x)' BY <1>2, <2>2, <2>4, <2>7, AheadStays
  <2>9. ASSUME NEW t \in Threads, UserOf[t] = c, thread[t].pc \in InScan, thread[t].tp = tp
        PROVE  PlaceOK(thread[t], last)'
    <3>1. PICK s : s = thread[t] /\ s = thread'[t] BY <1>1
    <3>2. ThreadOK(t, s) /\ PlaceOK(s, last) BY <2>2, <2>9, <3>1, UserState DEF OrderOK
    <3>3. PlaceOK(s, last)' BY <1>2, <2>2, <2>4, <2>9, <3>1, <3>2, PlaceStays
    <3> QED BY <3>1, <3>3
  <2>10. OrderOK(c, tp, last)'
    BY <1>1, <2>1, <2>3, <2>5, <2>6, <2>7, <2>8, <2>9 DEF OrderOK, Buffer
  <2> QED BY <1>1, <2>1, <2>10
<1> QED BY <1>3, <1>4, <1>5 DEF OrderInv

LEMMA OrderStep ==
    ASSUME TypeInv, OrderInv, [Next]_vars, OneCaller,
           Calls \cap {"seek", "store_offset", "assign", "unsubscribe"} = {}
    PROVE  OrderInv'
<1>1. TypeInv' /\ StepGoes BY StepKinds
<1> QED BY <1>1, OrderFind, OrderAdjust, OrderRecord, OrderOther, OrderOutside
   DEF StepGoes, PollGoes

LEMMA OrderInit == Init => OrderInv
<1> SUFFICES ASSUME Init PROVE OrderInv OBVIOUS
<1>1. \A c \in Consumers, tp \in AnyTP : got[c][tp] = << >> BY DEF Init, PerPair
<1>2. \A t \in Threads : thread[t].pc = "idle" BY IdleOK DEF Init
<1> QED BY <1>1, <1>2 DEF OrderInv, RecordOK, DeliveredInOrder

(* DeliveredInOrder: a consumer called from one thread that never moves or *)
(* forgets its position by hand gets the messages of each partition in     *)
(* order and none twice, whatever is evicted, produced, paused, committed  *)
(* or subscribed to meanwhile.                                             *)
THEOREM ConsumerDeliversInOrder ==
    ASSUME OneCaller,
           Calls \cap {"seek", "store_offset", "assign", "unsubscribe"} = {}
    PROVE  Spec => []DeliveredInOrder
<1>1. OrderInv => DeliveredInOrder BY DEF OrderInv
<1>2. TypeInv /\ OrderInv /\ [Next]_vars => OrderInv' BY OrderStep
<1> QED BY <1>1, <1>2, OrderInit, ConsumerTypeInv, PTL DEF Spec

-----------------------------------------------------------------------------
(* Fairness to partitions.  A scan goes round the list of partitions from  *)
(* poll_start; every delivery moves poll_start past the partition served,  *)
(* so a partition that waits comes nearer to the front with each.          *)

(* How far element k is from the one at start, going round.                *)
Dist(start, k, len) == IF k >= start THEN k - start ELSE k - start + len

Element(c, k) == c.assigned_partitions[k + 1]

(* q was passed over and its place in the list leaves room for as many     *)
(* deliveries from elsewhere as there are elements before it.              *)
Waits(c, q) ==
    LET d == state[c]
        n == Len(d.assigned_partitions)
    IN  \E k \in 0..(n - 1) : /\ Element(d, k) = q
                              /\ bypassed[c][q] + Dist(d.poll_start % n, k, n) < n

RingOf(c) == \A q \in AnyTP : bypassed[c][q] # 0 => Waits(c, q)

(* A scan may go past q without serving it.                                *)
Settled(c, q) == bypassed[c][q] = 0

(* The offset held for tp, which waits, is one of a message.               *)
Below(c, tp, at) ==
    bypassed[c][tp] = 0 \/ \A o \in at : o < Buffer(tp).next_offset

(* The scan s of consumer c fits the consumer's list and positions, and    *)
(* the elements it has gone past are settled.                              *)
ScanRing(c, s) ==
    LET d == state[c]
    IN  /\ s.len = Len(d.assigned_partitions) /\ s.start = d.poll_start % s.len
        /\ s.i < s.len
        /\ \A k \in 0..(s.len - 1) :
              Dist(s.start, k, s.len) < s.i => Settled(c, Element(d, k))
        /\ s.pc # "look" => s.tp = Element(d, ScanIndex(s))
        /\ s.pc = "resolve" =>
              s.at = IF s.tp \in DOMAIN d.position THEN {d.position[s.tp]} ELSE {}
        /\ s.pc = "oldest" => s.tp \notin DOMAIN d.position
        /\ s.pc = "fetch" => Below(c, s.tp, s.at)

RingInv ==
    /\ \A c \in Consumers : RingOf(c)
    /\ \A t \in Threads : thread[t].pc \in Scanning => ScanRing(UserOf[t], thread[t])

(* The element i steps from start.                                         *)
LEMMA RingIndex ==
    ASSUME NEW len \in Nat \ {0}, NEW start \in 0..(len - 1), NEW i \in 0..len,
           NEW x, x = (start + i) % len
    PROVE  x = IF start + i < len THEN start + i ELSE start + i - len
<1>1. PICK n : n = start + i OBVIOUS
<1>2. n \in Nat /\ n < 2 * len BY <1>1
<1>3. x = n % len BY <1>1
<1>4. CASE n < len
  <2>1. n % len = n BY <1>2, <1>4
  <2> QED BY <1>1, <1>3, <1>4, <2>1
<1>5. CASE n >= len
  <2>1. n % len = n - len BY <1>2, <1>5
  <2> QED BY <1>1, <1>3, <1>5, <2>1
<1> QED BY <1>2, <1>4, <1>5

(* What a partition that has a message for the consumer looks like.        *)
LEMMA ReadyBounds ==
    ASSUME TypeInv, NEW c \in Consumers, NEW q \in AnyTP, bypassed[c][q] # 0,
           NEW b, b = Buffer(q), NEW o, o = NextOffset(c, q)
    PROVE  /\ Wanted(state[c], q) /\ Known(q) /\ BufferOK(b)
           /\ o \in Int /\ b.next_offset \in Nat /\ OldestRetained(b) \in Nat
           /\ OldestRetained(b) <= o /\ o < b.next_offset
           /\ watermarks(b).oldest \in Nat /\ watermarks(b).oldest < b.next_offset
<1>1. Ready(c, q) BY DEF TypeInv, ReadyInv
<1>2. /\ Wanted(state[c], q) /\ Known(q)
      /\ OldestRetained(b) <= o /\ o < b.next_offset
  BY <1>1 DEF Ready, Retained
<1>3. BufferOK(b) BY <1>2, KnownBuffer DEF TypeInv
<1>4. PICK w, y, n : /\ w = watermarks(b).oldest /\ y = OldestRetained(b)
                     /\ n = b.next_offset
  OBVIOUS
<1>5. n \in Nat /\ y \in 0..n /\ w \in 0..y
  BY <1>3, <1>4, BufferBounds DEF BufferOK
<1>6. o \in Int
  <2>1. CASE q \in DOMAIN state[c].position
    BY <2>1 DEF NextOffset, TypeInv, StateInv, ConsumerOK, OffsetMap
  <2>2. CASE q \notin DOMAIN state[c].position /\ Resumes(c, q)
    <3>1. o = committed[q] + 1 BY <2>2 DEF NextOffset
    <3>2. committed[q] \in Int BY <2>2 DEF Resumes, TypeInv, OffsetMap
    <3> QED BY <3>1, <3>2
  <2>3. CASE q \notin DOMAIN state[c].position /\ ~ Resumes(c, q)
    BY <1>4, <1>5, <2>3 DEF NextOffset
  <2> QED BY <2>1, <2>2, <2>3
<1>7. w < n BY <1>2, <1>4, <1>5, <1>6
<1> QED BY <1>2, <1>3, <1>4, <1>5, <1>6, <1>7

(* The consumer's counts end or stay.                                      *)
CountsEndOf(c) == \A q \in AnyTP : bypassed'[c][q] \in {0, bypassed[c][q]}

LEMMA RingStays ==
    ASSUME NEW c \in Consumers, RingOf(c),
           SameRing(state[c], state'[c]), CountsEndOf(c)
    PROVE  RingOf(c)'
<1> SUFFICES ASSUME NEW q \in AnyTP, bypassed'[c][q] # 0 PROVE Waits(c, q)'
  BY DEF RingOf
<1>1. bypassed'[c][q] = bypassed[c][q] BY DEF CountsEndOf
<1>2. Waits(c, q) BY <1>1 DEF RingOf
<1>3. PICK d, e : d = state[c] /\ e = state'[c] OBVIOUS
<1>4. /\ e.assigned_partitions = d.assigned_partitions
      /\ e.poll_start = d.poll_start
  BY <1>3 DEF SameRing
<1>5. PICK len : len = Len(d.assigned_partitions) OBVIOUS
<1>6. PICK k \in 0..(len - 1) :
          /\ Element(d, k) = q
          /\ bypassed[c][q] + Dist(d.poll_start % len, k, len) < len
  BY <1>2, <1>3, <1>5 DEF Waits
<1>7. /\ Element(e, k) = q
      /\ bypassed'[c][q] + Dist(e.poll_start % len, k, len) < len
  BY <1>1, <1>4, <1>6 DEF Element
<1> QED BY <1>3, <1>4, <1>5, <1>7 DEF Waits

LEMMA BelowStays ==
    ASSUME Growing, NEW c \in Consumers, NEW q \in AnyTP, NEW at, Offset(at),
           Below(c, q, at), CountsEndOf(c)
    PROVE  Below(c, q, at)'
<1> SUFFICES ASSUME bypassed'[c][q] # 0, NEW o \in at
             PROVE  o < Buffer(q)'.next_offset
  BY DEF Below
<1>1. bypassed[c][q] # 0 BY DEF CountsEndOf
<1>2. PICK b, r : b = Buffer(q) /\ r = Buffer(q)' OBVIOUS
<1>3. Known(q) BY <1>1, ReadyBounds DEF Growing
<1>4. b.next_offset \in Nat /\ r.next_offset \in Nat /\ b.next_offset <= r.next_offset
  BY <1>2, <1>3, KnownGrows
<1>5. o \in Int /\ o < b.next_offset BY <1>1, <1>2 DEF Offset, Below
<1>6. o < r.next_offset BY <1>4, <1>5
<1> QED BY <1>2, <1>6

LEMMA ScanRingStays ==
    ASSUME Growing, NEW c \in Consumers, NEW t, NEW s, ThreadOK(t, s),
           s.pc \in Scanning, ScanRing(c, s),
           state'[c] = state[c], CountsEndOf(c)
    PROVE  ScanRing(c, s)'
<1>1. PICK d : d = state[c] /\ d = state'[c] OBVIOUS
<1>2. s.len \in Nat \ {0} /\ s.len = Len(d.assigned_partitions)
  BY <1>1 DEF ThreadOK, ScanRing
<1>3. ASSUME NEW k \in 0..(s.len - 1), Dist(s.start, k, s.len) < s.i
      PROVE  Settled(c, Element(d, k))'
  <2>1. PICK q : q = Element(d, k) OBVIOUS
  <2>2. q \in AnyTP
    <3>1. d.assigned_partitions \in Seq(AnyTP)
      BY <1>1 DEF Growing, TypeInv, StateInv, ConsumerOK
    <3>2. k + 1 \in 1..Len(d.assigned_partitions) BY <1>2
    <3> QED BY <2>1, <3>1, <3>2 DEF Element
  <2>3. Settled(c, q) BY <1>1, <1>3, <2>1 DEF ScanRing
  <2>4. bypassed'[c][q] = 0 BY <2>2, <2>3 DEF CountsEndOf, Settled
  <2> QED BY <2>1, <2>4 DEF Settled
<1>4. ASSUME s.pc = "fetch" PROVE Below(c, s.tp, s.at)'
  <2>1. PICK q, at : q = s.tp /\ at = s.at OBVIOUS
  <2>2. q \in AnyTP /\ Offset(at) BY <1>4, <2>1 DEF ThreadOK, InScan
  <2>3. Below(c, q, at) BY <1>4, <2>1 DEF ScanRing
  <2>4. Below(c, q, at)' BY <2>2, <2>3, BelowStays
  <2> QED BY <2>1, <2>4
<1> QED BY <1>1, <1>3, <1>4 DEF ScanRing

(* A step of thread t: the other threads, and the consumers of others.     *)
LEMMA RingOthers ==
    ASSUME Growing, RingInv, NEW t \in Threads, Others(t), OneCaller,
           \A c \in Consumers : c # UserOf[t] =>
              state'[c] = state[c] /\ CountsEndOf(c),
           RingOf(UserOf[t])',
           thread'[t].pc \in Scanning => ScanRing(UserOf[t], thread[t])'
    PROVE  RingInv'
<1>1. ASSUME NEW c \in Consumers PROVE RingOf(c)'
  <2>1. CASE c = UserOf[t] BY <2>1
  <2>2. CASE c # UserOf[t]
    <3>1. SameRing(state[c], state'[c]) /\ CountsEndOf(c) BY <2>2 DEF SameRing
    <3> QED BY <3>1, RingStays DEF RingInv
  <2> QED BY <2>1, <2>2
<1>2. ASSUME NEW v \in Threads, thread'[v].pc \in Scanning
      PROVE  ScanRing(UserOf[v], thread[v])'
  <2>1. CASE v = t BY <1>2, <2>1
  <2>2. CASE v # t
    <3>1. PICK s, c : s = thread[v] /\ s = thread'[v] /\ c = UserOf[v] BY <2>2 DEF Others
    <3>2. c # UserOf[t] BY <2>2, <3>1 DEF OneCaller
    <3>3. c \in Consumers /\ ThreadOK(v, s) BY <3>1, UserState DEF Growing
    <3>4. ScanRing(c, s) BY <1>2, <3>1, <3>3 DEF RingInv
    <3>5. state'[c] = state[c] /\ CountsEndOf(c) BY <3>2, <3>3
    <3>6. ScanRing(c, s)' BY <1>2, <3>1, <3>3, <3>4, <3>5, ScanRingStays
    <3> QED BY <3>1, <3>6
  <2> QED BY <2>1, <2>2
<1> QED BY <1>1, <1>2 DEF RingInv

LEMMA RingQuiet ==
    ASSUME TypeInv, TypeInv', RingInv, OneCaller, NEW t \in Threads, Quiet(t),
           NEW r, r = thread'[t], r.pc \in Scanning => ScanRing(UserOf[t], r)
    PROVE  RingInv'
<1>1. Others(t) /\ TopicsGrow /\ UNCHANGED << topics, state, got, bypassed >> BY DEF Quiet
<1>2. Growing BY <1>1 DEF Growing, GotGrows
<1>3. PICK c : c = UserOf[t] OBVIOUS
<1>4. c \in Consumers BY <1>3, UserState
<1>5. \A d \in Consumers : /\ state'[d] = state[d] /\ SameRing(state[d], state'[d])
                           /\ CountsEndOf(d)
  BY <1>1 DEF CountsEndOf, SameRing
<1>6. RingOf(c)' BY <1>4, <1>5, RingStays DEF RingInv
<1>7. r.pc \in Scanning => ScanRing(c, r)'
  <2>1. ASSUME r.pc \in Scanning PROVE ScanRing(c, r)'
    <3>1. ThreadOK(t, r) BY DEF TypeInv, ThreadInv
    <3>2. ScanRing(c, r) BY <1>3, <2>1
    <3> QED BY <1>2, <1>4, <1>5, <2>1, <3>1, <3>2, ScanRingStays
  <2> QED BY <2>1
<1>8. RingOf(UserOf[t])' BY <1>3, <1>6
<1>9. thread'[t].pc \in Scanning => ScanRing(UserOf[t], thread[t])' BY <1>3, <1>7
<1> QED BY <1>1, <1>2, <1>5, <1>8, <1>9, RingOthers

(* Where a scan is.                                                        *)
LEMMA ScanPlace ==
    ASSUME TypeInv, NEW c \in Consumers, NEW t, NEW s, ThreadOK(t, s), s.pc \in Scanning,
           ScanRing(c, s), NEW len, len = s.len, NEW x, x = ScanIndex(s)
    PROVE  /\ len \in Nat \ {0} /\ len = Len(state[c].assigned_partitions)
           /\ s.start \in 0..(len - 1) /\ s.i \in 0..(len - 1)
           /\ x = IF s.start + s.i < len THEN s.start + s.i ELSE s.start + s.i - len
<1>1. PICK start, i, p : start = s.start /\ i = s.i /\ p = state[c].poll_start OBVIOUS
<1>2. len \in Nat \ {0} /\ start \in Nat /\ i \in Nat BY <1>1 DEF ThreadOK
<1>3. p \in Nat BY <1>1 DEF TypeInv, StateInv, ConsumerOK
<1>4. start = p % len /\ i < len /\ len = Len(state[c].assigned_partitions)
  BY <1>1 DEF ScanRing
<1>5. p % len \in 0..(len - 1) BY <1>2, <1>3
<1>6. start \in 0..(len - 1) /\ i \in 0..(len - 1) /\ i \in 0..len BY <1>2, <1>4, <1>5
<1>7. x = (start + i) % len BY <1>1 DEF ScanIndex
<1>8. x = IF start + i < len THEN start + i ELSE start + i - len
  BY <1>2, <1>6, <1>7, RingIndex
<1> QED BY <1>1, <1>2, <1>4, <1>6, <1>8

(* Going on to the next element, past one that is settled.                 *)
LEMMA RingPasses ==
    ASSUME TypeInv, NEW c \in Consumers, NEW t, NEW s, ThreadOK(t, s), s.pc \in Scanning,
           ScanRing(c, s), Settled(c, Element(state[c], ScanIndex(s))),
           NEW r, r.pc = "look", r.start = s.start, r.len = s.len,
           r.i = s.i + 1, r.i < s.len
    PROVE  ScanRing(c, r)
<1>1. PICK len, start, i, x : /\ len = s.len /\ start = s.start /\ i = s.i
                              /\ x = ScanIndex(s)
  OBVIOUS
<1>2. /\ len \in Nat \ {0} /\ start \in 0..(len - 1) /\ i \in 0..(len - 1)
      /\ x = IF start + i < len THEN start + i ELSE start + i - len
  BY <1>1, ScanPlace
<1>3. ASSUME NEW k \in 0..(len - 1), Dist(start, k, len) < i + 1
      PROVE  Settled(c, Element(state[c], k))
  <2>1. PICK z : z = Dist(start, k, len) OBVIOUS
  <2>2. z \in Nat /\ (z = i => k = x) BY <1>2, <2>1 DEF Dist
  <2>3. z < i \/ z = i BY <1>2, <1>3, <2>1, <2>2
  <2>4. CASE z < i BY <1>1, <1>3, <2>1, <2>4 DEF ScanRing
  <2>5. CASE z = i BY <1>1, <2>2, <2>5
  <2> QED BY <2>3, <2>4, <2>5
<1> QED BY <1>1, <1>3 DEF ScanRing

(* Going on with the element.                                              *)
LEMMA RingKeeps ==
    ASSUME NEW c, NEW s, ScanRing(c, s), NEW r,
           r.start = s.start, r.len = s.len, r.i = s.i,
           r.tp = Element(state[c], ScanIndex(s)),
           r.pc = "resolve" =>
              r.at = IF r.tp \in DOMAIN state[c].position
                     THEN {state[c].position[r.tp]} ELSE {},
           r.pc = "oldest" => r.tp \notin DOMAIN state[c].position,
           r.pc = "fetch" => Below(c, r.tp, r.at)
    PROVE  ScanRing(c, r)
<1>1. ScanIndex(r) = ScanIndex(s) BY DEF ScanIndex
<1> QED BY <1>1 DEF ScanRing

LEMMA RingFind ==
    ASSUME TypeInv, TypeInv', RingInv, OneCaller, NEW t \in Threads,
           \/ LookGoes(t)
           \/ ResolveGoes(t)
           \/ OldestGoes(t)
           \/ FetchGoes(t)
           \/ ReadjustGoes(t)
    PROVE  RingInv'
<1>1. PICK s, c, d, r, e : /\ s = thread[t] /\ c = UserOf[t] /\ d = state[c]
                           /\ r = thread'[t] /\ e = Element(d, ScanIndex(s))
  OBVIOUS
<1>2. c \in Consumers /\ ConsumerOK(d) /\ ThreadOK(t, s) BY <1>1, UserState
<1>3. Quiet(t) /\ s.pc \in Scanning
  BY <1>1 DEF LookGoes, ResolveGoes, OldestGoes, FetchGoes, ReadjustGoes, Scanning, InScan
<1>4. ScanRing(c, s) BY <1>1, <1>2, <1>3 DEF RingInv
<1>5. ASSUME Ends(t) PROVE RingInv'
  <2>1. r.pc \notin Scanning BY <1>1, <1>5, IdleOK DEF Ends, Scanning, InScan
  <2> QED BY <1>1, <1>3, <2>1, RingQuiet
<1>6. ASSUME Passes(t), Settled(c, e) PROVE RingInv'
  <2>1. CASE Ends(t) BY <1>5, <2>1
  <2>2. CASE /\ r.pc = "look" /\ r.start = s.start /\ r.len = s.len
             /\ r.i = s.i + 1 /\ r.i < s.len
    <3>1. ScanRing(c, r) BY <1>1, <1>2, <1>3, <1>4, <1>6, <2>2, RingPasses
    <3> QED BY <1>1, <1>3, <3>1, RingQuiet
  <2> QED BY <1>1, <1>6, <2>1, <2>2 DEF Passes
<1>7. ASSUME r.start = s.start, r.len = s.len, r.i = s.i, r.tp = e,
             r.pc = "resolve" =>
                r.at = IF e \in DOMAIN d.position THEN {d.position[e]} ELSE {},
             r.pc = "oldest" => e \notin DOMAIN d.position,
             r.pc = "fetch" => Below(c, e, r.at)
      PROVE  RingInv'
  <2>1. ScanRing(c, r) BY <1>1, <1>4, <1>7, RingKeeps
  <2> QED BY <1>1, <1>3, <2>1, RingQuiet
<1>8. s.pc # "look" => s.tp = e BY <1>1, <1>4 DEF ScanRing
<1>9. ASSUME e \in AnyTP, bypassed[c][e] # 0
      PROVE  /\ Wanted(d, e) /\ Known(e) /\ BufferOK(Buffer(e))
             /\ NextOffset(c, e) < Buffer(e).next_offset
             /\ OldestRetained(Buffer(e)) # Buffer(e).next_offset
             /\ watermarks(Buffer(e)).oldest < Buffer(e).next_offset
  <2>1. PICK b, o : b = Buffer(e) /\ o = NextOffset(c, e) OBVIOUS
  <2>2. /\ Wanted(state[c], e) /\ Known(e) /\ BufferOK(b)
        /\ o \in Int /\ b.next_offset \in Nat /\ OldestRetained(b) \in Nat
        /\ OldestRetained(b) <= o /\ o < b.next_offset
        /\ watermarks(b).oldest \in Nat /\ watermarks(b).oldest < b.next_offset
    BY <1>2, <1>9, <2>1, ReadyBounds
  <2>3. OldestRetained(b) # b.next_offset BY <2>2
  <2> QED BY <1>1, <2>1, <2>2, <2>3
<1>10. CASE LookGoes(t)
  <2>1. CASE Passes(t) /\ Skipped(d, s)
    <3>1. ScanIndex(s) \in 0..(s.len - 1) BY <1>2, <1>3, ScanOK DEF ThreadOK
    <3>2. s.len \in Nat /\ s.len = Len(d.assigned_partitions)
      BY <1>1, <1>2, <1>3, <1>4 DEF ThreadOK, ScanRing
    <3>3. ScanIndex(s) < Len(d.assigned_partitions) BY <3>1, <3>2
    <3>4. ScanIndex(s) \in Int /\ Len(d.assigned_partitions) \in Int BY <3>1, <3>2
    <3>5. e \in d.paused BY <1>1, <2>1, <3>3, <3>4 DEF Skipped, Element
    <3>6. e \in AnyTP BY <1>2, <3>5 DEF ConsumerOK
    <3>7. bypassed[c][e] = 0 BY <1>9, <3>5, <3>6 DEF Wanted
    <3> QED BY <1>6, <2>1, <3>7 DEF Settled
  <2>2. CASE /\ r.pc = "resolve"
             /\ r.start = s.start /\ r.len = s.len /\ r.i = s.i /\ r.tp = e
             /\ r.at = IF e \in DOMAIN d.position THEN {d.position[e]} ELSE {}
    BY <1>7, <2>2
  <2> QED BY <1>1, <1>10, <2>1, <2>2 DEF LookGoes, Element
<1>11. ASSUME s.pc \in InScan PROVE s.tp = e /\ e \in AnyTP
  BY <1>2, <1>8, <1>11 DEF ThreadOK, InScan
<1>12. CASE ResolveGoes(t)
  <2>1. s.pc = "resolve" /\ s.tp = e /\ e \in AnyTP
    BY <1>1, <1>11, <1>12 DEF ResolveGoes, InScan
  <2>2. s.at = IF e \in DOMAIN d.position THEN {d.position[e]} ELSE {}
    BY <1>1, <1>4, <2>1 DEF ScanRing
  <2>3. CASE Ends(t) BY <1>5, <2>3
  <2>4. CASE Keeps(t, "fetch") /\ s.at # {} /\ r.at = s.at
    <3>1. bypassed[c][e] # 0 => d.position[e] < Buffer(e).next_offset
      BY <1>1, <1>9, <2>1, <2>2, <2>4 DEF NextOffset
    <3>2. Below(c, e, r.at) BY <2>2, <2>4, <3>1 DEF Below
    <3> QED BY <1>1, <1>7, <2>1, <2>4, <3>2 DEF Keeps
  <2>5. CASE /\ Keeps(t, "fetch") /\ s.at = {} /\ Resumes(c, e)
             /\ r.at = {committed[e] + 1}
    <3>1. bypassed[c][e] # 0 => committed[e] + 1 < Buffer(e).next_offset
      BY <1>1, <1>9, <2>1, <2>2, <2>5 DEF NextOffset
    <3>2. Below(c, e, r.at) BY <2>5, <3>1 DEF Below
    <3> QED BY <1>1, <1>7, <2>1, <2>5, <3>2 DEF Keeps
  <2>6. CASE s.at = {} /\ Keeps(t, "oldest")
    <3>1. e \notin DOMAIN d.position BY <2>2, <2>6
    <3> QED BY <1>1, <1>7, <2>1, <2>6, <3>1 DEF Keeps
  <2> QED BY <1>1, <1>12, <2>1, <2>3, <2>4, <2>5, <2>6 DEF ResolveGoes
<1>13. ASSUME Passes(t), Ends(t) \/ ~ Known(e), e \in AnyTP PROVE RingInv'
  <2>1. CASE Ends(t) BY <1>5, <2>1
  <2>2. CASE ~ Known(e)
    <3>1. bypassed[c][e] = 0 BY <1>9, <1>13, <2>2
    <3> QED BY <1>6, <1>13, <3>1 DEF Settled
  <2> QED BY <1>13, <2>1, <2>2
<1>14. CASE OldestGoes(t)
  <2>1. s.pc = "oldest" /\ s.tp = e /\ e \in AnyTP
    BY <1>1, <1>11, <1>14 DEF OldestGoes, InScan
  <2>2. CASE Keeps(t, "fetch") /\ r.at = {watermarks(Buffer(e)).oldest}
    <3>1. Below(c, e, r.at) BY <1>9, <2>1, <2>2 DEF Below
    <3> QED BY <1>1, <1>7, <2>1, <2>2, <3>1 DEF Keeps
  <2> QED BY <1>1, <1>13, <1>14, <2>1, <2>2 DEF OldestGoes
<1>15. CASE FetchGoes(t)
  <2>1. s.pc = "fetch" /\ s.tp = e /\ e \in AnyTP
    BY <1>1, <1>11, <1>15 DEF FetchGoes, InScan
  <2>2. Below(c, e, s.at) BY <1>1, <1>4, <2>1 DEF ScanRing
  <2>3. ASSUME NEW o \in Int, s.at = {o}, Passes(t), AtEnd(Buffer(e), o)
        PROVE  RingInv'
    <3>1. ASSUME bypassed[c][e] # 0 PROVE FALSE
      <4>1. PICK b : b = Buffer(e) OBVIOUS
      <4>2. BufferOK(b) /\ OldestRetained(b) # b.next_offset /\ o < b.next_offset
        BY <1>9, <2>1, <2>2, <2>3, <3>1, <4>1 DEF Below
      <4>3. b.log # << >> BY <4>2, BufferBounds
      <4>4. o = b.next_offset BY <2>3, <4>1, <4>3 DEF AtEnd
      <4> QED BY <4>2, <4>4
    <3> QED BY <1>6, <2>3, <3>1 DEF Settled
  <2>4. CASE Keeps(t, "readjust") \/ Keeps(t, "record")
    BY <1>1, <1>7, <2>1, <2>4 DEF Keeps
  <2> QED BY <1>1, <1>13, <1>15, <2>1, <2>3, <2>4 DEF FetchGoes
<1>16. CASE ReadjustGoes(t)
  <2>1. s.tp = e /\ e \in AnyTP BY <1>1, <1>11, <1>16 DEF ReadjustGoes, InScan
  <2>2. CASE Keeps(t, "adjust") BY <1>1, <1>7, <2>1, <2>2 DEF Keeps
  <2> QED BY <1>1, <1>13, <1>16, <2>1, <2>2 DEF ReadjustGoes
<1> QED BY <1>10, <1>12, <1>14, <1>15, <1>16

(* The position of the element is set, and its count starts afresh.        *)
LEMMA RingAdjust ==
    ASSUME TypeInv, TypeInv', RingInv, OneCaller, NEW t \in Threads, AdjustGoes(t)
    PROVE  RingInv'
<1>1. PICK s, c, d, r : s = thread[t] /\ c = UserOf[t] /\ d = state[c] /\ r = thread'[t]
  OBVIOUS
<1>2. /\ c \in Consumers /\ ConsumerOK(d) /\ ThreadOK(t, s)
      /\ s.pc = "adjust" /\ s.pc \in Scanning /\ s.tp \in AnyTP
  BY <1>1, UserState DEF AdjustGoes, ThreadOK, Scanning, InScan
<1>3. PICK o \in Nat : StateSet(t, [d EXCEPT !.position = Group!Insert(@, s.tp, o)])
  BY <1>1 DEF AdjustGoes
<1>4. PICK new : new = [d EXCEPT !.position = Group!Insert(@, s.tp, o)] OBVIOUS
<1>5. /\ new.assigned_partitions = d.assigned_partitions
      /\ new.poll_start = d.poll_start
  BY <1>2, <1>4 DEF ConsumerOK
<1>6. state'[c] = new /\ \A u \in Consumers : u # c => state'[u] = state[u]
  BY <1>1, <1>3, <1>4 DEF StateSet
<1>7. /\ bypassed'[c][s.tp] = 0
      /\ \A q \in AnyTP : q # s.tp => bypassed'[c][q] = bypassed[c][q]
      /\ \A u \in Consumers : u # c => bypassed'[u] = bypassed[u]
  BY <1>1, <1>2 DEF AdjustGoes, TypeInv, GhostInv
<1>8. Others(t) /\ TopicsGrow /\ got' = got /\ Passes(t) BY DEF AdjustGoes
<1>9. Growing BY <1>8 DEF Growing, GotGrows
<1>10. ScanRing(c, s) /\ RingOf(c) BY <1>1, <1>2 DEF RingInv
<1>11. \A u \in Consumers : CountsEndOf(u) BY <1>7 DEF CountsEndOf
<1>12. RingOf(c)'
  <2>1. SameRing(state[c], state'[c]) BY <1>1, <1>5, <1>6 DEF SameRing
  <2> QED BY <1>2, <1>10, <1>11, <2>1, RingStays
<1>13. ASSUME /\ r.pc = "look" /\ r.start = s.start /\ r.len = s.len
              /\ r.i = s.i + 1 /\ r.i < s.len
       PROVE  ScanRing(c, r)'
  <2>1. PICK x, e : x = ScanIndex(s) /\ e = Element(d, x) OBVIOUS
  <2>2. e = s.tp BY <1>1, <1>2, <1>10, <2>1 DEF ScanRing
  <2>3. PICK len, start, i : len = s.len /\ start = s.start /\ i = s.i OBVIOUS
  <2>4. /\ len \in Nat \ {0} /\ len = Len(d.assigned_partitions)
        /\ start \in 0..(len - 1) /\ i \in 0..(len - 1)
        /\ x = IF start + i < len THEN start + i ELSE start + i - len
    BY <1>1, <1>2, <1>10, <2>1, <2>3, ScanPlace
  <2>5. ASSUME NEW k \in 0..(len - 1), Dist(start, k, len) < i + 1
        PROVE  Settled(c, Element(new, k))'
    <3>1. PICK z, q : z = Dist(start, k, len) /\ q = Element(d, k) OBVIOUS
    <3>2. z \in Nat /\ (z = i => k = x) BY <2>4, <3>1 DEF Dist
    <3>3. z < i \/ z = i BY <2>4, <2>5, <3>1, <3>2
    <3>4. Settled(c, q) \/ q = s.tp
      <4>1. CASE z < i BY <1>1, <1>10, <2>3, <2>5, <3>1, <4>1 DEF ScanRing
      <4>2. CASE z = i BY <2>1, <2>2, <3>1, <3>2, <4>2
      <4> QED BY <3>3, <4>1, <4>2
    <3>5. q \in AnyTP
      <4>1. d.assigned_partitions \in Seq(AnyTP) BY <1>2 DEF ConsumerOK
      <4>2. k + 1 \in 1..Len(d.assigned_partitions) BY <2>4
      <4> QED BY <3>1, <4>1, <4>2 DEF Element
    <3>6. bypassed'[c][q] = 0 BY <1>7, <3>4, <3>5 DEF Settled
    <3>7. q = Element(new, k) BY <1>5, <3>1 DEF Element
    <3> QED BY <3>6, <3>7 DEF Settled
  <2>6. r.len = Len(new.assigned_partitions) /\ r.start = new.poll_start % r.len
    BY <1>1, <1>5, <1>10, <1>13 DEF ScanRing
  <2> QED BY <1>6, <1>13, <2>3, <2>5, <2>6 DEF ScanRing
<1>14. r.pc \in Scanning => ScanRing(c, r)'
  BY <1>1, <1>8, <1>13, IdleOK DEF Passes, Ends, Scanning, InScan
<1>15. RingOf(UserOf[t])' BY <1>1, <1>12
<1>16. thread'[t].pc \in Scanning => ScanRing(UserOf[t], thread[t])' BY <1>1, <1>14
<1> QED BY <1>1, <1>6, <1>8, <1>9, <1>11, <1>15, <1>16, RingOthers

(* The next scan starts behind the element just served.  What was ready    *)
(* and passed over lies ahead of it, so each count that grows by one has   *)
(* its element at least one place nearer.                                  *)
LEMMA RingRecord ==
    ASSUME TypeInv, TypeInv', RingInv, OneCaller, NEW t \in Threads, RecordGoes(t)
    PROVE  RingInv'
<1>1. PICK s, c, d : s = thread[t] /\ c = UserOf[t] /\ d = state[c] OBVIOUS
<1>2. /\ c \in Consumers /\ ConsumerOK(d) /\ ThreadOK(t, s)
      /\ s.pc = "record" /\ s.pc \in Scanning /\ s.tp \in AnyTP
  BY <1>1, UserState DEF RecordGoes, ThreadOK, Scanning, InScan
<1>3. PICK o \in Nat :
         /\ StateSet(t, Recorded(d, s, o))
         /\ bypassed' = [bypassed EXCEPT ![c] =
               [q \in AnyTP |-> IF q # s.tp /\ Ready(c, q) THEN @[q] + 1 ELSE 0]]
  BY <1>1 DEF RecordGoes
<1>4. PICK new, x : new = Recorded(d, s, o) /\ x = ScanIndex(s) OBVIOUS
<1>5. /\ new.assigned_partitions = d.assigned_partitions
      /\ new.poll_start = x + 1
  BY <1>2, <1>4 DEF ConsumerOK, Recorded
<1>6. state'[c] = new /\ \A u \in Consumers : u # c => state'[u] = state[u]
  BY <1>1, <1>3, <1>4 DEF StateSet
<1>7. \A u \in Consumers : u # c => CountsEndOf(u)
  BY <1>2, <1>3 DEF TypeInv, GhostInv, CountsEndOf
<1>8. \A q \in AnyTP : bypassed'[c][q] = IF q # s.tp /\ Ready(c, q)
                                        THEN bypassed[c][q] + 1 ELSE 0
  BY <1>2, <1>3 DEF TypeInv, GhostInv
<1>9. Others(t) /\ thread'[t].pc \notin Scanning
  BY IdleOK DEF RecordGoes, Ends, Scanning, InScan
<1>10. Growing BY RecordGrows
<1>11. ScanRing(c, s) /\ RingOf(c) BY <1>1, <1>2 DEF RingInv
<1>12. Element(d, x) = s.tp BY <1>1, <1>2, <1>4, <1>11 DEF ScanRing
<1>13. PICK n, start, i : n = s.len /\ start = s.start /\ i = s.i OBVIOUS
<1>14. /\ n \in Nat \ {0} /\ start \in 0..(n - 1) /\ i \in 0..(n - 1)
       /\ x = IF start + i < n THEN start + i ELSE start + i - n
  BY <1>1, <1>2, <1>4, <1>11, <1>13, ScanPlace
<1>15. n = Len(d.assigned_partitions) BY <1>1, <1>11, <1>13 DEF ScanRing
<1>16. x \in 0..(n - 1)
  <2>1. CASE start + i < n BY <1>14, <2>1
  <2>2. CASE start + i >= n BY <1>14, <2>2
  <2> QED BY <1>14, <2>1, <2>2
<1>17. PICK next : next = (x + 1) % n OBVIOUS
<1>18. next = IF x + 1 < n THEN x + 1 ELSE x + 1 - n
  <2>1. 1 \in 0..n BY <1>14
  <2> QED BY <1>14, <1>16, <1>17, <2>1, RingIndex
<1>19. ASSUME NEW q \in AnyTP, bypassed'[c][q] # 0 PROVE Waits(c, q)'
  <2>1. q # s.tp /\ Ready(c, q) BY <1>8, <1>19
  <2>2. PICK b : b = bypassed[c][q] OBVIOUS
  <2>3. b \in Nat /\ bypassed'[c][q] = b + 1
    BY <1>2, <1>8, <2>1, <2>2 DEF TypeInv, GhostInv
  <2>4. q \in Range(d.assigned_partitions) BY <1>1, <2>1 DEF Ready, Wanted
  <2>5. PICK k \in 0..(n - 1) : Element(d, k) = q /\ (b + 1) + Dist(next, k, n) < n
    <3>1. CASE b = 0
      <4>1. PICK j \in DOMAIN d.assigned_partitions : d.assigned_partitions[j] = q
        BY <2>4 DEF Range
      <4>2. j \in 1..n
        <5>1. d.assigned_partitions \in Seq(AnyTP) BY <1>2 DEF ConsumerOK
        <5> QED BY <1>15, <5>1
      <4>3. PICK k : k = j - 1 OBVIOUS
      <4>4. k \in 0..(n - 1) /\ Element(d, k) = q BY <1>14, <4>1, <4>2, <4>3 DEF Element
      <4>5. k # x BY <1>12, <2>1, <4>4
      <4>6. 1 + Dist(next, k, n) < n BY <1>14, <1>16, <1>18, <4>4, <4>5 DEF Dist
      <4> QED BY <3>1, <4>4, <4>6
    <3>2. CASE b # 0
      <4>1. Waits(c, q) BY <1>11, <2>2, <3>2 DEF RingOf
      <4>2. d.poll_start % n = start BY <1>1, <1>11, <1>13 DEF ScanRing
      <4>3. PICK k \in 0..(n - 1) : Element(d, k) = q /\ b + Dist(start, k, n) < n
        BY <1>1, <1>15, <2>2, <4>1, <4>2 DEF Waits
      <4>4. k # x BY <1>12, <2>1, <4>3
      <4>5. ~ Settled(c, q) BY <2>2, <3>2 DEF Settled
      <4>6. ~ (Dist(start, k, n) < i) BY <1>1, <1>11, <1>13, <4>3, <4>5 DEF ScanRing
      <4>7. (b + 1) + Dist(next, k, n) < n
        <5>1. PICK y : y = Dist(start, k, n) OBVIOUS
        <5>2. y \in Nat /\ y # i /\ y >= i
          BY <1>14, <4>3, <4>4, <4>6, <5>1 DEF Dist
        <5>3. Dist(next, k, n) = y - i - 1
          BY <1>14, <1>16, <1>18, <4>3, <5>1, <5>2 DEF Dist
        <5>4. b + y < n BY <4>3, <5>1
        <5> QED BY <1>14, <2>3, <5>2, <5>3, <5>4
      <4> QED BY <4>3, <4>7
    <3> QED BY <3>1, <3>2
  <2>6. Element(new, k) = q /\ new.poll_start % n = next /\ n = Len(new.assigned_partitions)
    BY <1>5, <1>17, <1>15, <2>5 DEF Element
  <2> QED BY <1>6, <2>3, <2>5, <2>6 DEF Waits
<1>20. RingOf(c)' BY <1>19 DEF RingOf
<1>21. RingOf(UserOf[t])' BY <1>1, <1>20
<1> QED BY <1>1, <1>6, <1>7, <1>9, <1>10, <1>21, RingOthers

(* Any other call: its thread is the only one of the consumer, and is not  *)
(* scanning.                                                               *)
LEMMA RingOther ==
    ASSUME TypeInv, TypeInv', RingInv, OneCaller, NEW t \in Threads, Other(t)
    PROVE  RingInv'
<1>1. PICK c, r : c = UserOf[t] /\ r = thread'[t] OBVIOUS
<1>2. c \in Consumers BY <1>1, UserState
<1>3. Others(t) /\ TopicsGrow /\ got' = got BY DEF Other
<1>4. Growing BY <1>3 DEF Growing, GotGrows
<1>5. /\ \A u \in Consumers : u # c => state'[u] = state[u]
      /\ \A u \in Consumers : CountsEndOf(u)
  <2>1. \A u \in Consumers : u # c => state'[u] = state[u]
    BY <1>1 DEF Other, PositionGoes, StateSet
  <2>2. \A u \in Consumers : CountsEndOf(u)
    BY DEF Other, CountsGo, CountsEnd, CountsEndOf
  <2> QED BY <2>1, <2>2
<1>6. RingOf(c)'
  <2>1. CASE Moved(t)
    <3>1. \A q \in AnyTP : bypassed'[c][q] = 0
      BY <1>1, <1>2, <2>1 DEF Moved, TypeInv, GhostInv
    <3> QED BY <3>1 DEF RingOf
  <2>2. CASE SameRing(state[c], state'[c])
    BY <1>2, <1>5, <2>2, RingStays DEF RingInv
  <2> QED BY <1>2, <2>1, <2>2 DEF Other, CountsGo
<1>7. r.pc \in Scanning => ScanRing(c, r)'
  <2>1. ASSUME r.pc \in Scanning PROVE ScanRing(c, r)'
    <3>1. Begins(t) BY <1>1, <2>1 DEF Other
    <3>2. PICK d : d = state[c] /\ d = state'[c] BY <3>1 DEF Begins
    <3>3. /\ r.pc = "look" /\ r.i = 0 /\ r.len = Len(d.assigned_partitions)
          /\ r.start = d.poll_start % r.len
      BY <1>1, <3>1, <3>2 DEF Begins
    <3>4. r.len \in Nat \ {0} BY <1>1, <2>1 DEF TypeInv, ThreadInv, ThreadOK
    <3>5. r.start \in 0..(r.len - 1)
      <4>1. PICK p, n : p = d.poll_start /\ n = r.len OBVIOUS
      <4>2. p \in Nat BY <1>2, <3>2, <4>1 DEF TypeInv, StateInv, ConsumerOK
      <4>3. n \in Nat \ {0} BY <3>4, <4>1
      <4>4. p % n \in 0..(n - 1) BY <4>2, <4>3
      <4> QED BY <3>3, <4>1, <4>4
    <3>6. \A k \in 0..(r.len - 1) : ~ (Dist(r.start, k, r.len) < r.i)
      BY <3>3, <3>4, <3>5 DEF Dist
    <3>7. r.i < r.len BY <3>3, <3>4
    <3> QED BY <3>2, <3>3, <3>6, <3>7 DEF ScanRing
  <2> QED BY <2>1
<1>8. RingOf(UserOf[t])' BY <1>1, <1>6
<1>9. thread'[t].pc \in Scanning => ScanRing(UserOf[t], thread[t])' BY <1>1, <1>7
<1> QED BY <1>1, <1>3, <1>4, <1>5, <1>8, <1>9, RingOthers

LEMMA RingOutside ==
    ASSUME TypeInv, TypeInv', RingInv, Outside
    PROVE  RingInv'
<1>1. TopicsGrow /\ UNCHANGED << state, thread, got >> BY DEF Outside
<1>2. Growing BY <1>1 DEF Growing, GotGrows
<1>3. \A c \in Consumers : /\ state'[c] = state[c] /\ SameRing(state[c], state'[c])
                           /\ CountsEndOf(c)
  BY <1>1 DEF Outside, CountsEnd, CountsEndOf, SameRing
<1>4. ASSUME NEW c \in Consumers PROVE RingOf(c)'
  BY <1>3, RingStays DEF RingInv
<1>5. ASSUME NEW t \in Threads, thread'[t].pc \in Scanning
      PROVE  ScanRing(UserOf[t], thread[t])'
  <2>1. PICK s, c : s = thread[t] /\ s = thread'[t] /\ c = UserOf[t] BY <1>1
  <2>2. c \in Consumers /\ ThreadOK(t, s) BY <2>1, UserState
  <2>3. ScanRing(c, s) BY <1>5, <2>1, <2>2 DEF RingInv
  <2>4. ScanRing(c, s)' BY <1>2, <1>3, <1>5, <2>1, <2>2, <2>3, ScanRingStays
  <2> QED BY <2>1, <2>4
<1> QED BY <1>4, <1>5 DEF RingInv

LEMMA RingStep ==
    ASSUME TypeInv, RingInv, [Next]_vars, OneCaller
    PROVE  RingInv'
<1>1. TypeInv' /\ StepGoes BY StepKinds
<1> QED BY <1>1, RingFind, RingAdjust, RingRecord, RingOther, RingOutside
   DEF StepGoes, PollGoes

LEMMA RingInit == Init => RingInv
<1> SUFFICES ASSUME Init PROVE RingInv OBVIOUS
<1>1. \A c \in Consumers, q \in AnyTP : bypassed[c][q] = 0 BY DEF Init, PerPair
<1>2. \A t \in Threads : thread[t].pc \notin Scanning
  BY IdleOK DEF Init, Scanning, InScan
<1> QED BY <1>1, <1>2 DEF RingInv, RingOf

(* RoundRobin: a consumer called from one thread is fair to its            *)
(* partitions.  From when a partition has a message that poll would return *)
(* - at the consumer's position, after the committed offset or, where it   *)
(* has neither, at the oldest offset - fewer deliveries than there are     *)
(* assigned partitions come from elsewhere before it is served, whatever   *)
(* else the application calls, and whatever is produced meanwhile; a new   *)
(* list and a position set by hand or after an eviction start a new count. *)
THEOREM ConsumerRoundRobin ==
    ASSUME OneCaller
    PROVE  Spec => []RoundRobin
<1>1. TypeInv /\ RingInv => RoundRobin
  <2> SUFFICES ASSUME TypeInv, RingInv, NEW c \in Consumers, NEW q \in AnyTP,
                      bypassed[c][q] # 0
               PROVE  bypassed[c][q] < Len(state[c].assigned_partitions)
    BY DEF RoundRobin
  <2>1. PICK d, b, n, p : /\ d = state[c] /\ b = bypassed[c][q]
                          /\ n = Len(d.assigned_partitions) /\ p = d.poll_start
    OBVIOUS
  <2>2. Waits(c, q) BY DEF RingInv, RingOf
  <2>3. PICK k \in 0..(n - 1) : b + Dist(p % n, k, n) < n BY <2>1, <2>2 DEF Waits
  <2>4. ConsumerOK(d) /\ b \in Nat BY <2>1 DEF TypeInv, StateInv, GhostInv
  <2>5. n \in Nat /\ p \in Nat BY <2>1, <2>4, LenProperties DEF ConsumerOK
  <2>6. n \in Nat \ {0} BY <2>3, <2>5
  <2>7. p % n \in 0..(n - 1) BY <2>5, <2>6
  <2>8. Dist(p % n, k, n) \in Nat
    <3>1. PICK y : y = p % n OBVIOUS
    <3> QED BY <2>3, <2>6, <2>7, <3>1 DEF Dist
  <2>9. b < n BY <2>3, <2>4, <2>5, <2>8
  <2> QED BY <2>1, <2>9
<1>2. TypeInv /\ RingInv /\ [Next]_vars => RingInv' BY RingStep
<1> QED BY <1>1, <1>2, RingInit, ConsumerTypeInv, PTL DEF Spec
=============================================================================
