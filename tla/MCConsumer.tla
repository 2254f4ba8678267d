----------------------------- MODULE MCConsumer ------------------------------
(* Instances of BaseConsumer for TLC.  Thread number t calls consumer t,   *)
(* except where two threads share a consumer.                              *)
EXTENDS BaseConsumer

OwnConsumer    == [t \in Threads |-> t]
SharedConsumer == [t \in Threads |-> 1]

(* Offsets an application may pass: a negative one, and one that is at     *)
(* first beyond the end of a log, then its end, then in it.                *)
SmallOffsets == {-1, 1}

(* Partitions that keep every message, two at a time, or two at a time and *)
(* none beyond the millisecond it was created in.                          *)
KeepAll     == [max_capacity |-> 0, retention_ms |-> {}, retention_capacity |-> {}]
KeepTwo     == [max_capacity |-> 3, retention_ms |-> {}, retention_capacity |-> {}]
KeepTwoFresh == [max_capacity |-> 0, retention_ms |-> {0}, retention_capacity |-> {2}]
=============================================================================
