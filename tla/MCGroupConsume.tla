--------------------------- MODULE MCGroupConsume ----------------------------
(* Two members of a group; two threads share the first.  Those two threads *)
(* are interchangeable, and so are the topics.                             *)
EXTENDS MCConsumer, TLC

CONSTANTS t1, t2, t3

GroupThreads == {t1, t2, t3}
FirstShared  == [t \in GroupThreads |-> IF t = t3 THEN 2 ELSE 1]

Symmetry ==
    {threads @@ names : threads \in Permutations({t1, t2}),
                        names \in Permutations(Topics)}

(* Either one topic, with messages, or both, of which members choose.      *)
OneTopicOrNoMessages ==
    \/ Cardinality(DOMAIN topics) <= 1
    \/ \A topic \in DOMAIN topics : topics[topic] = NewTopic
=============================================================================
