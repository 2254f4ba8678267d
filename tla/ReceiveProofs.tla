---------------------------- MODULE ReceiveProofs ----------------------------
(***************************************************************************)
(* Waiting for messages keeps to the partitions there are, for any         *)
(* receivers of any kinds and any number of partitions and messages.       *)
(*                                                                         *)
(* The inductive invariant adds to TypeOK what it is silent about: the     *)
(* kinds, the partitions a shutdown has still to signal, and the shape of  *)
(* the functions.                                                          *)
(***************************************************************************)
EXTENDS Receive, TLAPS

LOCAL Logs == INSTANCE PartitionLogProofs

Places == {"poll", "topics", "nudge", "poll again", "register", "wait",
           "sleep", "done"}

ReceiversInv ==
    /\ kind \in [Receivers -> Kinds]
    /\ assigned \in [Receivers -> {"none", "topic only", "all"}]
    /\ poll_start \in [Receivers -> Partitions]
    /\ receiver \in [Receivers -> [pc : Places, k : Partitions]]

PartitionsInv ==
    /\ log \in [Partitions -> Nat]
    /\ toSignal \in Seq(Partitions)
    /\ permit \in [Partitions -> BOOLEAN]

HandedOverInv ==
    /\ got \in [Receivers -> [Partitions -> Nat]]
    /\ \A r \in Receivers, p \in Partitions : got[r][p] <= log[p]

ReceiveInv ==
    /\ ReceiversInv
    /\ PartitionsInv
    /\ HandedOverInv
    /\ \A r \in Receivers : assigned[r] = "all" => created

-----------------------------------------------------------------------------

LEMMA FirstPartition == 0 \in Partitions
BY NumPartitionsAssumption DEF Partitions

LEMMA NextPartition ==
    ASSUME NEW k \in Partitions, k + 1 < NumPartitions
    PROVE  k + 1 \in Partitions
BY NumPartitionsAssumption DEF Partitions

(* A scan that finds unread messages comes to one of their partitions.     *)
LEMMA FirstFromIsThere ==
    ASSUME NEW start \in Partitions, NEW S \in SUBSET Partitions, S # {}
    PROVE  FirstFrom(start, S) \in S
<1> DEFINE away(p) == (p - start) % NumPartitions
           T == {away(p) : p \in S}
<1>1. \A p \in S : away(p) \in Nat
  BY NumPartitionsAssumption DEF Partitions
<1>2. T \subseteq Nat /\ T # {}
  BY <1>1
<1>3. PICK x \in T : \A y \in T : x <= y
  BY <1>2, Logs!NatMinimum
<1>4. PICK p \in S : away(p) = x
  BY <1>3
<1>5. \A q \in S : away(p) <= away(q)
  BY <1>3, <1>4
<1> QED BY <1>4, <1>5 DEF FirstFrom

-----------------------------------------------------------------------------
(* Where receivers go.                                                     *)

LEMMA PastStays ==
    ASSUME ReceiveInv, NEW r \in Receivers, NEW k \in Partitions
    PROVE  Past(r, k) \in [pc : Places, k : Partitions]
BY FirstPartition, NextPartition DEF Past, At, Places

LEMMA GotoStays ==
    ASSUME ReceiveInv, NEW r \in Receivers,
           NEW next \in [pc : Places, k : Partitions], Goto(r, next)
    PROVE  receiver' \in [Receivers -> [pc : Places, k : Partitions]]
BY DEF Goto, ReceiveInv, ReceiversInv

LEMMA NotifyStays ==
    ASSUME ReceiveInv, NEW k \in Partitions, notify(k)
    PROVE  receiver' \in [Receivers -> [pc : Places, k : Partitions]]
<1>1. \A r \in Receivers :
         /\ Past(r, k) \in [pc : Places, k : Partitions]
         /\ receiver[r] \in [pc : Places, k : Partitions]
  BY PastStays DEF ReceiveInv, ReceiversInv
<1> QED BY <1>1 DEF notify

LEMMA AtPlaces ==
    ASSUME NEW pc \in Places, NEW k \in Partitions
    PROVE  At(pc, k) \in [pc : Places, k : Partitions]
BY DEF At

-----------------------------------------------------------------------------
(* Polls.                                                                  *)

LEMMA PollOnceStays ==
    ASSUME ReceiveInv, NEW r \in Receivers,
           NEW next \in [pc : Places, k : Partitions], poll_once(r, next),
           UNCHANGED << kind, created, log, shut, toSignal, permit, assigned >>
    PROVE  ReceiveInv'
<1>1. /\ At("done", 0) \in [pc : Places, k : Partitions]
      /\ At("poll", 0) \in [pc : Places, k : Partitions]
  BY AtPlaces, FirstPartition DEF Places
<1>2. receiver' \in [Receivers -> [pc : Places, k : Partitions]]
  BY <1>1, GotoStays DEF poll_once
<1>3. CASE UNCHANGED << poll_start, got >>
  BY <1>2, <1>3
     DEF ReceiveInv, ReceiversInv, PartitionsInv, HandedOverInv
<1>4. CASE ~ UNCHANGED << poll_start, got >>
  <2> DEFINE p == FirstFrom(poll_start[r], Unread(r))
  <2>1. /\ Unread(r) # {}
        /\ HandOver(r, p)
        /\ poll_start' = [poll_start EXCEPT ![r] = (p + 1) % NumPartitions]
    BY <1>4 DEF poll_once
  <2>2. p \in Unread(r)
    <3>1. poll_start[r] \in Partitions
      BY DEF ReceiveInv, ReceiversInv
    <3>2. Unread(r) \in SUBSET Partitions
      BY DEF Unread
    <3> QED BY <2>1, <3>1, <3>2, FirstFromIsThere
  <2>3. p \in Partitions /\ got[r][p] < log[p]
    BY <2>2 DEF Unread
  <2> HIDE DEF p
  <2>4. (p + 1) % NumPartitions \in Partitions
    BY <2>3, NumPartitionsAssumption DEF Partitions
  <2>5. ReceiversInv'
    BY <1>2, <2>1, <2>4 DEF ReceiveInv, ReceiversInv
  <2>6. got' = [got EXCEPT ![r][p] = got[r][p] + 1]
    BY <2>1 DEF HandOver, ReceiveInv, HandedOverInv
  <2>7. HandedOverInv'
    <3>1. got' \in [Receivers -> [Partitions -> Nat]]
      BY <2>3, <2>6 DEF ReceiveInv, HandedOverInv
    <3>2. ASSUME NEW w \in Receivers, NEW q \in Partitions
          PROVE  got'[w][q] <= log'[q]
      <4>1. log[q] \in Nat /\ got[w][q] \in Nat /\ got[w][q] <= log[q]
        BY DEF ReceiveInv, HandedOverInv, PartitionsInv
      <4>2. got'[w][q] = IF w = r /\ q = p THEN got[r][p] + 1 ELSE got[w][q]
        BY <2>3, <2>6 DEF ReceiveInv, HandedOverInv
      <4> QED BY <2>3, <4>1, <4>2
    <3> QED BY <3>1, <3>2 DEF HandedOverInv
  <2> QED BY <2>5, <2>7 DEF ReceiveInv, PartitionsInv
<1> QED BY <1>3, <1>4

-----------------------------------------------------------------------------
(* Every step.                                                             *)

LEMMA ReceiveInit ==
    ASSUME Init
    PROVE  ReceiveInv
<1>1. At("poll", 0) \in [pc : Places, k : Partitions]
  BY AtPlaces, FirstPartition DEF Places
<1>2. ReceiversInv
  BY <1>1, FirstPartition DEF Init, ReceiversInv
<1>3. PartitionsInv
  BY DEF Init, PartitionsInv
<1>4. HandedOverInv
  BY DEF Init, HandedOverInv
<1> QED BY <1>2, <1>3, <1>4 DEF Init, ReceiveInv

(* What changes nothing but the receivers and the permits.                 *)
LEMMA WaitingStays ==
    ASSUME ReceiveInv,
           receiver' \in [Receivers -> [pc : Places, k : Partitions]],
           permit' \in [Partitions -> BOOLEAN],
           UNCHANGED << kind, created, log, shut, toSignal, assigned,
                        poll_start, got >>
    PROVE  ReceiveInv'
BY DEF ReceiveInv, ReceiversInv, PartitionsInv, HandedOverInv

LEMMA NudgeStays ==
    ASSUME ReceiveInv, NEW r \in Receivers, nudge(r)
    PROVE  ReceiveInv'
<1>1. PICK k \in Partitions : receiver[r].k = k
  BY DEF ReceiveInv, ReceiversInv
<1>2. PICK next \in [pc : Places, k : Partitions] : notify_one(r, k, next)
  <2>1. CASE k + 1 < NumPartitions
    <3>1. At("nudge", k + 1) \in [pc : Places, k : Partitions]
      BY <2>1, AtPlaces, NextPartition DEF Places
    <3> QED BY <1>1, <2>1, <3>1 DEF nudge
  <2>2. CASE ~ (k + 1 < NumPartitions)
    <3>1. At("poll again", 0) \in [pc : Places, k : Partitions]
      BY AtPlaces, FirstPartition DEF Places
    <3> QED BY <1>1, <2>2, <3>1 DEF nudge
  <2> QED BY <2>1, <2>2
<1>3. /\ receiver \in [Receivers -> [pc : Places, k : Partitions]]
      /\ permit \in [Partitions -> BOOLEAN]
  BY DEF ReceiveInv, ReceiversInv, PartitionsInv
<1>4. /\ receiver' \in [Receivers -> [pc : Places, k : Partitions]]
      /\ permit' \in [Partitions -> BOOLEAN]
  <2>1. CASE /\ permit' = [permit EXCEPT ![k] = TRUE]
             /\ receiver' = [receiver EXCEPT ![r] = next]
    BY <1>3, <2>1
  <2>2. CASE /\ \E w \in Receivers :
                   receiver' = [receiver EXCEPT ![w] = Past(w, k), ![r] = next]
             /\ UNCHANGED permit
    <3>1. PICK w \in Receivers :
             receiver' = [receiver EXCEPT ![w] = Past(w, k), ![r] = next]
      BY <2>2
    <3>2. Past(w, k) \in [pc : Places, k : Partitions]
      BY PastStays
    <3> QED BY <1>3, <2>2, <3>1, <3>2
  <2> QED BY <1>2, <2>1, <2>2, Zenon DEF notify_one
<1> QED BY <1>4, WaitingStays DEF nudge

LEMMA RegisterStays ==
    ASSUME ReceiveInv, NEW r \in Receivers, register(r)
    PROVE  ReceiveInv'
<1>1. PICK k \in Partitions : receiver[r].k = k
  BY DEF ReceiveInv, ReceiversInv
<1>2. /\ Past(r, k) \in [pc : Places, k : Partitions]
      /\ At("wait", k) \in [pc : Places, k : Partitions]
  BY PastStays, AtPlaces DEF Places
<1>3. receiver' \in [Receivers -> [pc : Places, k : Partitions]]
  BY <1>1, <1>2, GotoStays DEF register
<1>4. permit' \in [Partitions -> BOOLEAN]
  BY <1>1 DEF register, ReceiveInv, PartitionsInv
<1> QED BY <1>3, <1>4, WaitingStays DEF register

LEMMA StepStays ==
    ASSUME ReceiveInv, NEW r \in Receivers, Step(r)
    PROVE  ReceiveInv'
<1>1. \A pc \in Places : At(pc, 0) \in [pc : Places, k : Partitions]
  BY AtPlaces, FirstPartition
<1>2. permit \in [Partitions -> BOOLEAN]
  BY DEF ReceiveInv, PartitionsInv
<1>3. CASE poll(r)
  BY <1>1, <1>3, PollOnceStays DEF poll, Places
<1>4. CASE get_partition_notifies(r)
  <2>1. \E next \in [pc : Places, k : Partitions] : Goto(r, next)
    BY <1>1, <1>4 DEF get_partition_notifies, Places
  <2> QED BY <1>2, <1>4, <2>1, GotoStays, WaitingStays
             DEF get_partition_notifies
<1>5. CASE nudge(r)
  BY <1>5, NudgeStays
<1>6. CASE poll_again(r)
  BY <1>1, <1>6, PollOnceStays DEF poll_again, Places
<1>7. CASE register(r)
  BY <1>7, RegisterStays
<1>8. CASE timeout(r)
  <2>1. receiver' \in [Receivers -> [pc : Places, k : Partitions]]
    BY <1>1, <1>8, GotoStays DEF timeout, Places
  <2> QED BY <1>2, <1>8, <2>1, WaitingStays DEF timeout
<1> QED BY <1>3, <1>4, <1>5, <1>6, <1>7, <1>8 DEF Step

LEMMA SubscribeStays ==
    ASSUME ReceiveInv, NEW r \in Receivers, subscribe(r)
    PROVE  ReceiveInv'
BY DEF subscribe, ReceiveInv, ReceiversInv, PartitionsInv, HandedOverInv

LEMMA AppendStays ==
    ASSUME ReceiveInv, NEW k \in Partitions, append(k)
    PROVE  ReceiveInv'
<1>1. receiver' \in [Receivers -> [pc : Places, k : Partitions]]
  BY NotifyStays DEF append
<1>2. ReceiversInv'
  BY <1>1 DEF append, ReceiveInv, ReceiversInv
<1>3. log' = [log EXCEPT ![k] = log[k] + 1] /\ log \in [Partitions -> Nat]
  BY DEF append, ReceiveInv, PartitionsInv
<1>4. PartitionsInv'
  <2>1. log' \in [Partitions -> Nat]
    BY <1>3
  <2>2. toSignal' \in Seq(Partitions) /\ permit' \in [Partitions -> BOOLEAN]
    BY DEF append, ReceiveInv, PartitionsInv
  <2> QED BY <2>1, <2>2 DEF PartitionsInv
<1>5. ASSUME NEW r \in Receivers, NEW p \in Partitions
      PROVE  got'[r][p] <= log'[p]
  <2>1. log[p] \in Nat /\ got[r][p] \in Nat /\ got[r][p] <= log[p]
    BY DEF ReceiveInv, HandedOverInv, PartitionsInv
  <2>2. got' = got /\ log'[p] \in {log[p], log[p] + 1}
    BY <1>3 DEF append
  <2> QED BY <2>1, <2>2
<1>6. HandedOverInv'
  BY <1>5 DEF append, ReceiveInv, HandedOverInv
<1> QED BY <1>2, <1>4, <1>6 DEF append, ReceiveInv

LEMMA ShutdownStays ==
    ASSUME ReceiveInv, shutdown
    PROVE  ReceiveInv'
<1>1. [i \in 1..NumPartitions |-> i - 1] \in Seq(Partitions)
  <2>1. \A i \in 1..NumPartitions : i - 1 \in Partitions
    BY NumPartitionsAssumption DEF Partitions
  <2> QED BY <2>1, NumPartitionsAssumption
<1>2. toSignal' \in Seq(Partitions)
  BY <1>1 DEF shutdown
<1> QED BY <1>2 DEF shutdown, ReceiveInv, ReceiversInv, PartitionsInv,
                    HandedOverInv

LEMMA SignalStays ==
    ASSUME ReceiveInv, Signal
    PROVE  ReceiveInv'
<1>1. Head(toSignal) \in Partitions /\ toSignal' \in Seq(Partitions)
  BY DEF Signal, ReceiveInv, PartitionsInv
<1>2. receiver' \in [Receivers -> [pc : Places, k : Partitions]]
  BY <1>1, NotifyStays DEF Signal
<1> QED BY <1>1, <1>2 DEF Signal, ReceiveInv, ReceiversInv, PartitionsInv,
                          HandedOverInv

LEMMA ReceiveNext ==
    ASSUME ReceiveInv, [Next]_vars
    PROVE  ReceiveInv'
<1>1. CASE Next
  BY <1>1, StepStays, SubscribeStays, AppendStays, ShutdownStays, SignalStays
     DEF Next
<1>2. CASE UNCHANGED vars
  BY <1>2 DEF vars, ReceiveInv, ReceiversInv, PartitionsInv, HandedOverInv
<1> QED BY <1>1, <1>2

LEMMA ReceiveTypes ==
    ASSUME ReceiveInv
    PROVE  TypeOK
<1>1. ASSUME NEW r \in Receivers
      PROVE  /\ receiver[r].pc \in Places
             /\ receiver[r].k \in Partitions
             /\ poll_start[r] \in Partitions
             /\ assigned[r] = "all" => created
  BY DEF ReceiveInv, ReceiversInv
<1>2. ASSUME NEW r \in Receivers, NEW p \in Partitions
      PROVE  got[r][p] \in 0..log[p]
  <2>1. log[p] \in Nat /\ got[r][p] \in Nat /\ got[r][p] <= log[p]
    BY DEF ReceiveInv, HandedOverInv, PartitionsInv
  <2> QED BY <2>1
<1>3. permit \in [Partitions -> BOOLEAN]
  BY DEF ReceiveInv, PartitionsInv
<1> QED BY <1>1, <1>2, <1>3 DEF TypeOK, Places

(* Whatever signals are given, lost or taken by others, a receiver waits   *)
(* on a partition there is, knows the topic before it scans it, and is     *)
(* never handed more of a partition than was appended to it: the walk over *)
(* the signals (wait_for_messages) and the cursor of poll_once end where   *)
(* the partitions end.                                                     *)
THEOREM ReceiveTypeOK == Spec => []TypeOK
<1>1. Spec => []ReceiveInv
  BY ReceiveInit, ReceiveNext, PTL DEF Spec
<1>2. ReceiveInv => TypeOK
  BY ReceiveTypes
<1> QED BY <1>1, <1>2, PTL
=============================================================================
