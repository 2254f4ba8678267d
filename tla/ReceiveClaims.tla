---------------------------- MODULE ReceiveClaims ----------------------------
(* What the documentation says of receivers, and the code does not do.     *)
EXTENDS Receive

(* broker.rs of shutdown: "After shutdown, all producer and consumer       *)
(* operations will return [`RmqError::BrokerShutdown`]."  A receiver that  *)
(* has subscribed comes to see that error.                                 *)
ShutdownReachesSubscribers ==
    \A r \in Receivers :
       (shut /\ assigned[r] # "none") ~> receiver[r].pc = "done"
=============================================================================
