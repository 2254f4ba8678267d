---------------------------- MODULE ConsumerGroup ----------------------------
(***************************************************************************)
(* One consumer group and the calls it receives from Broker::join_group    *)
(* and Broker::leave_group.  A join carries the partition counts of the    *)
(* joiner's own topics, which it has just created if need be, a leave the  *)
(* counts of the topics that existed when it looked.  The group does not   *)
(* check them: here a leave may carry those of any topics, more than the   *)
(* broker's locks allow, which module BaseConsumer has.                    *)
(***************************************************************************)
EXTENDS GroupState

CONSTANTS
    Members,         \* the member ids that may join
    Topics,          \* the topics they may subscribe to
    NumPartitions    \* default.num.partitions, which every topic gets

ASSUME MembersAssumption == Members \subseteq Int
ASSUME PartitionsAssumption == NumPartitions \in Nat

VARIABLE group

CountsOf(topics) == [t \in topics |-> NumPartitions]

Init == group = NewGroup

join(m, topics) == group' = Joined(group, m, topics, CountsOf(topics))

leave(m, known) == group' = Left(group, m, CountsOf(known))

Next ==
    \/ \E m \in Members, topics \in SUBSET Topics : join(m, topics)
    \/ \E m \in Members, known \in SUBSET Topics : leave(m, known)

Spec == Init /\ [][Next]_group

-----------------------------------------------------------------------------

TopicPartitions(topics) == topics \X (0..(NumPartitions - 1))

TypeOK ==
    /\ group.members \subseteq Members
    /\ group.member_topics \in [group.members -> SUBSET Topics]
    /\ group.assignments \in [group.members -> SUBSET TopicPartitions(Topics)]

(* The look-up of its own assignment with which join ends always succeeds, *)
(* and no partition is ever with two members or with one that did not      *)
(* subscribe to its topic, however stale the counts of earlier calls were. *)
AssignmentsExclusive ==
    /\ DOMAIN group.assignments = group.members
    /\ \A m \in group.members : \A tp \in group.assignments[m] :
          /\ tp[1] \in group.member_topics[m]
          /\ \A n \in group.members \ {m} : tp \notin group.assignments[n]

OfTopic(m, topic) == {tp \in group.assignments[m] : tp[1] = topic}

(* Within one topic the shares of any two subscribers differ by at most    *)
(* one partition.                                                          *)
SharesBalanced ==
    \A topic \in Topics :
       \A m, n \in Subscribers(group.member_topics, topic) :
          Cardinality(OfTopic(m, topic)) <= Cardinality(OfTopic(n, topic)) + 1

(* A join leaves no partition of the joiner's topics without an owner.     *)
JoinCovers ==
    \A m \in Members, topics \in SUBSET Topics :
       join(m, topics) =>
          \A tp \in TopicPartitions(topics) :
             \E n \in group'.members : tp \in group'.assignments[n]

JoinAlwaysCovers == [][JoinCovers]_group
=============================================================================
