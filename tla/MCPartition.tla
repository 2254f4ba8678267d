----------------------------- MODULE MCPartition -----------------------------
(* The configurations TLC starts the partition from: every combination of  *)
(* an unlimited, a one-message and a roomier buffer with no, a short and a *)
(* longer retention, time and capacity policies alone and together.        *)
EXTENDS Partition

MCConfigs ==
    [max_capacity       : {0, 1, 2, 3},
     retention_ms       : {{}, {0}, {1}},
     retention_capacity : {{}, {0}, {2}}]
=============================================================================
