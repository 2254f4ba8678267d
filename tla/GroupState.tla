----------------------------- MODULE GroupState ------------------------------
(***************************************************************************)
(* The state of one consumer group (GroupState of                          *)
(* src/src/consumer_group.rs) and the round-robin assignor                 *)
(* (src/src/partition_assignor.rs) as operators.  Every operation runs     *)
(* under the group's write lock, so each is one function of the state.     *)
(*                                                                         *)
(* Member ids are integers: the assignor sorts them, and nothing else      *)
(* about them matters.  A TopicPartitionList is the set of its pairs here; *)
(* the order in which the assignor lists them matters to polling only.     *)
(***************************************************************************)
EXTENDS Integers, FiniteSets

(* HashMap insert and remove.                                              *)
Insert(map, key, value) ==
    [k \in DOMAIN map \cup {key} |-> IF k = key THEN value ELSE map[k]]

Remove(map, key) == [k \in DOMAIN map \ {key} |-> map[k]]

EmptyMap == [k \in {} |-> {}]

NewGroup == [members       |-> {},
             member_topics |-> EmptyMap,
             assignments   |-> EmptyMap]

-----------------------------------------------------------------------------
(* RoundRobinAssignor::assign.                                             *)

Subscribers(member_topics, topic) ==
    {m \in DOMAIN member_topics : topic \in member_topics[m]}

(* The index of m in the sorted list of the members in S.                  *)
Index(S, m) == Cardinality({x \in S : x < m})

(* Slip: dealing the partitions out over all members of the group instead  *)
(* of those subscribed to the topic.                                       *)
GetsPartition_AllMembers(member_topics, m, topic, p) ==
    LET S == DOMAIN member_topics
    IN  p % Cardinality(S) = Index(S, m)

(* Slip: never moving on from the first subscriber.                        *)
GetsPartition_FirstOnly(member_topics, m, topic, p) ==
    Index(Subscribers(member_topics, topic), m) = 0

(* Partition p of a topic goes to the subscriber at index p mod their      *)
(* number.                                                                 *)
GetsPartition(member_topics, m, topic, p) ==
    LET S == Subscribers(member_topics, topic)
    IN  p % Cardinality(S) = Index(S, m)

(* counts holds the number of partitions of the topics the caller knows; a *)
(* topic it does not know is skipped.                                      *)
assign(member_topics, counts) ==
    [m \in DOMAIN member_topics |->
        UNION {{<< t, p >> : p \in {q \in 0..(counts[t] - 1) :
                                GetsPartition(member_topics, m, t, q)}}
               : t \in member_topics[m] \cap DOMAIN counts}]

-----------------------------------------------------------------------------
(* ConsumerGroup::rebalance, join and leave.  The assignor never fails, so *)
(* the branch that keeps the old assignments is not taken.                 *)

(* Slip: adding the new assignments to the old ones.                       *)
rebalance_Adds(group, counts) ==
    LET new == assign(group.member_topics, counts)
    IN  [group EXCEPT !.assignments =
            [m \in DOMAIN new |-> new[m] \cup
                IF m \in DOMAIN group.assignments
                THEN group.assignments[m] ELSE {}]]

rebalance(group, counts) ==
    IF group.members = {}
    THEN [group EXCEPT !.assignments = EmptyMap]
    ELSE [group EXCEPT !.assignments = assign(group.member_topics, counts)]

Joined(group, m, topics, counts) ==
    rebalance([group EXCEPT !.members = @ \cup {m},
                            !.member_topics = Insert(@, m, topics)], counts)

(* Slip: forgetting to take the leaver out of member_topics, from which    *)
(* the assignor works.                                                     *)
Left_KeepsTopics(group, m, counts) ==
    LET rest == [group EXCEPT !.members = @ \ {m},
                              !.assignments = Remove(@, m)]
    IN  IF rest.members = {} THEN rest ELSE rebalance(rest, counts)

Left(group, m, counts) ==
    LET rest == [group EXCEPT !.members = @ \ {m},
                              !.member_topics = Remove(@, m),
                              !.assignments = Remove(@, m)]
    IN  IF rest.members = {} THEN rest ELSE rebalance(rest, counts)
=============================================================================
