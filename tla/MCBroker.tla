------------------------------ MODULE MCBroker -------------------------------
(* Two senders of records to one topic: to a partition there is not, and   *)
(* to the broker's choice with and without a key.                          *)
EXTENDS Broker

FutureTyped == [s \in Senders |-> << "future", "typed" >>[s]]

AllOnes == [k \in Keys |-> 2 * Half - 1]

KeepTwo == [max_capacity |-> 3, retention_ms |-> {}, retention_capacity |-> {}]

(* Where counters wrap and absolute values overflow, or next will.         *)
AroundTheWrap == {-Half, Half - 1}

SomeRecords ==
    [topic : Topics, partition : {{}}, key : {{}, Keys}] \cup
    [topic : Topics, partition : {{NumPartitions}}, key : {{}}]
=============================================================================
