----------------------------- MODULE TopicStore ------------------------------
(***************************************************************************)
(* What the broker's store promises its producers, whatever locks the      *)
(* produce path takes and releases: topics come into being empty and stay, *)
(* and each partition's end only ever moves by one message at a time.      *)
(***************************************************************************)
EXTENDS Integers

CONSTANTS Topics,      \* names of topics
          Partitions   \* the partitions of every topic

VARIABLE ends          \* topic -> partition -> messages appended so far

Init == ends = [t \in {} |-> 0]

Create(t) ==
    /\ t \notin DOMAIN ends
    /\ ends' = [u \in DOMAIN ends \cup {t} |->
                   IF u = t THEN [p \in Partitions |-> 0] ELSE ends[u]]

Append(t, p) ==
    /\ t \in DOMAIN ends
    /\ p \in Partitions
    /\ ends' = [ends EXCEPT ![t][p] = @ + 1]

Next == \E t \in Topics : Create(t) \/ \E p \in Partitions : Append(t, p)

Spec == Init /\ [][Next]_ends
=============================================================================
