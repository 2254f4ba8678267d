--------------------------- MODULE PartitionClaims ---------------------------
(* What the documentation says of a partition's limits, and the code does  *)
(* not do.                                                                 *)
EXTENDS Partition

(* make_partition_config of the backend: the limits are passed on, the     *)
(* retention.policy that should select one of them is not.                 *)
make_partition_config(config) ==
    [max_capacity       |-> config.buffer_capacity,
     retention_ms       |-> config.retention_ms,
     retention_capacity |-> config.retention_capacity]

(* What clients configure that leave retention.policy at its default, with *)
(* a buffer of one or two messages or without a bound, and with retention  *)
(* limits of either kind, both or none.                                    *)
PolicyNone ==
    {make_partition_config(config) : config \in
        [retention_policy : {"none"}, buffer_capacity : 0..2,
         retention_ms : {{}, {1}}, retention_capacity : {{}, {2}}]}

(* config.rs of partition.buffer.capacity: "Buffer capacity (in messages)  *)
(* per partition", and of the retention limits: "Only effective when       *)
(* `retention.policy` is" time, or capacity.  So under the policy "none" a *)
(* partition keeps the newest messages, as many as its capacity says.      *)
LimitsAsDocumented ==
    \A offset \in 0..(Len(history) - 1) :
       offset >= OldestRetained(buf) <=>
          buf.max_capacity = 0 \/ offset >= Len(history) - buf.max_capacity
=============================================================================
