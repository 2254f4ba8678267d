--------------------------- MODULE ConsumerClaims ----------------------------
(* What the documentation says of consumers, refuted by TLC.               *)
EXTENDS MCConsumer

(* docs/api.md on a consumer that used commit_message for every message:   *)
(* "重启消费者，将从提交的偏移量继续消费", a new member continues from the      *)
(* committed offset.  In the code commit_message stores offset + 1 and     *)
(* fetch_one_from_position adds one more, so a message is lost.            *)
CommitMessageResumes == GroupLosesNothing

(* README: "When a consumer joins or leaves the group, the assignor        *)
(* redistributes partitions evenly across all members": while the group    *)
(* has a member that is polling, the messages of a topic it subscribed to  *)
(* are consumed.  In the code the partitions of a member that left are     *)
(* given to the others in the group's table only.                          *)
LeaversPartitionsAreServed ==
    \A tp \in AnyTP, offset \in 0..(MaxProduced - 1) :
       Retained(tp, offset) ~>
          \/ \E c \in Grouped : offset \in Range(got[c][tp])
          \/ ~ Retained(tp, offset)
          \/ \A c \in Grouped : tp[1] \notin Range(state[c].subscribed_topics)

(* README: "When a consumer joins or leaves the group, the assignor        *)
(* redistributes partitions evenly across all members": a join that is     *)
(* carried out leaves no partition of a member's topic without an owner.   *)
(* In the code it rebalances with the counts of the joiner's topics only,  *)
(* and those of other members' topics are dropped from the table.          *)
JoinRedistributes ==
    [][\A t \in Threads : JoinGroup(t) /\ group' # group => TableCovers']_vars
=============================================================================
