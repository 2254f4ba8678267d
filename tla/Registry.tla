------------------------------ MODULE Registry -------------------------------
(***************************************************************************)
(* How producers and consumers come by their broker: the process-wide map  *)
(* from broker ids to weak references (src/src/registry.rs), the reading   *)
(* of a client's configuration (src/src/config.rs), and the handles of the *)
(* clients, which keep a broker alive between them.                        *)
(*                                                                         *)
(* get_or_create is two steps: the look-up under the read lock, and the    *)
(* insertion under the write lock of a broker created in between, which    *)
(* nobody else sees before.  A broker is a number, its address.            *)
(***************************************************************************)
EXTENDS Integers, Sequences

CONSTANTS
    Clients,        \* handles of producers and consumers
    Ids,            \* values of broker.id
    Keys,           \* the numeric configuration keys
    Values,         \* the numbers an application may set for them
    Default,        \* what a key that is not set stands for, None included
    Bad,            \* a text that does not parse as a number
    MaxBrokers      \* bound on the brokers created

ASSUME DefaultAssumption    == Default \in [Keys -> Values]
ASSUME BadAssumption        == Bad \notin Values
ASSUME MaxBrokersAssumption == MaxBrokers \in Nat

VARIABLES
    registry,       \* REGISTRY: the broker each id refers to, weakly
    brokers,        \* the brokers created so far, with their BrokerConfig
    client,         \* where each client is and the broker it holds
    raced           \* ghost: ids of which a broker in use was created while
                    \*        another client was creating one, too

vars == << registry, brokers, client, raced >>

(* An RmqClientConfig: at most one id, and a text for some of the keys.    *)
RmqClientConfig ==
    [id : {{}} \cup {{i} : i \in Ids},
     set : UNION {[K -> Values \cup {Bad}] : K \in SUBSET Keys}]

-----------------------------------------------------------------------------
(* BrokerConfig::from_config.                                              *)

Valid(config) ==
    /\ config.id # {}
    /\ \A k \in DOMAIN config.set : config.set[k] # Bad

(* Slip: values are taken over without parsing them.                       *)
from_config_Unparsed(config) ==
    [id       |-> CHOOSE i \in config.id : TRUE,
     settings |-> [k \in Keys |-> IF k \in DOMAIN config.set
                                  THEN Bad ELSE Default[k]]]

from_config(config) ==
    [id       |-> CHOOSE i \in config.id : TRUE,
     settings |-> [k \in Keys |-> IF k \in DOMAIN config.set
                                  THEN config.set[k] ELSE Default[k]]]

-----------------------------------------------------------------------------

NoBroker == 0

Free == [pc |-> "free", broker |-> NoBroker]

Holding(b) == [pc |-> "ready", broker |-> b]

Holds(c, b) == client[c].pc = "ready" /\ client[c].broker = b

(* The strong count of a broker is not zero: Weak::upgrade succeeds.       *)
Alive(b) == \E c \in Clients : Holds(c, b)

Creating(id) ==
    {c \in Clients : client[c].pc = "create" /\ client[c].config.id = {id}}

Init ==
    /\ registry = [i \in {} |-> NoBroker]
    /\ brokers = << >>
    /\ client = [c \in Clients |-> Free]
    /\ raced = {}

(* The first half of get_or_create, which every constructor calls.  It     *)
(* panics when there is no id, and does not look at the rest of the        *)
(* configuration when the broker exists.                                   *)
get_or_create(c, config) ==
    /\ client[c] = Free
    /\ config.id # {}
    /\ LET id == CHOOSE i \in config.id : TRUE
       IN  IF id \in DOMAIN registry /\ Alive(registry[id])
           THEN /\ client' = [client EXCEPT ![c] = Holding(registry[id])]
                /\ UNCHANGED raced
           ELSE /\ client' = [client EXCEPT ![c] =
                                 [pc |-> "create", config |-> config]]
                /\ raced' = IF Creating(id) = {} THEN raced
                            ELSE raced \cup {id}
    /\ UNCHANGED << registry, brokers >>

(* Slip: the entry API, which keeps what is there, dead or alive.          *)
Registered_OrInsert(id, b) ==
    IF id \in DOMAIN registry THEN registry
    ELSE [i \in DOMAIN registry \cup {id} |-> IF i = id THEN b ELSE registry[i]]

(* registry.insert: whatever was there is replaced.                        *)
Registered(id, b) ==
    [i \in DOMAIN registry \cup {id} |-> IF i = id THEN b ELSE registry[i]]

(* The second half: Broker::new fails on an invalid configuration;         *)
(* otherwise the new broker is entered without looking again.              *)
create_and_insert(c) ==
    LET config == client[c].config
        b      == Len(brokers) + 1
    IN  /\ client[c].pc = "create"
        /\ IF Valid(config)
           THEN /\ Len(brokers) < MaxBrokers
                /\ brokers' = Append(brokers, from_config(config))
                /\ registry' = Registered(from_config(config).id, b)
                /\ client' = [client EXCEPT ![c] = Holding(b)]
           ELSE /\ client' = [client EXCEPT ![c] = Free]
                /\ UNCHANGED << registry, brokers >>
        /\ UNCHANGED raced

(* Cloning a producer or consumer shares its broker.                       *)
clone(c, d) ==
    /\ client[c].pc = "ready"
    /\ client[d] = Free
    /\ client' = [client EXCEPT ![d] = client[c]]
    /\ UNCHANGED << registry, brokers, raced >>

(* A client is dropped.  With the last one of an id its races are over.    *)
drop(c) ==
    /\ client[c].pc = "ready"
    /\ client' = [client EXCEPT ![c] = Free]
    /\ raced' = {i \in raced : Creating(i) # {} \/ \E d \in Clients \ {c} :
                    client[d].pc = "ready" /\ brokers[client[d].broker].id = i}
    /\ UNCHANGED << registry, brokers >>

Next ==
    \E c \in Clients :
       \/ \E config \in RmqClientConfig : get_or_create(c, config)
       \/ create_and_insert(c)
       \/ \E d \in Clients : clone(c, d)
       \/ drop(c)

Spec == Init /\ [][Next]_vars

-----------------------------------------------------------------------------

TypeOK ==
    /\ DOMAIN registry \subseteq Ids
    /\ \A i \in DOMAIN registry :
          registry[i] \in DOMAIN brokers /\ brokers[registry[i]].id = i
    /\ \A b \in DOMAIN brokers :
          brokers[b] \in [id : Ids, settings : [Keys -> Values]]
    /\ \A c \in Clients :
          client[c].pc = "ready" => client[c].broker \in DOMAIN brokers

(* All clients of a broker id share the one broker the registry knows,     *)
(* through any number of deaths and new creations, unless two of them      *)
(* were inside get_or_create for that id at the same time.                 *)
SharedUnlessRaced ==
    \A c \in Clients : client[c].pc = "ready" =>
       LET id == brokers[client[c].broker].id
       IN  id \notin raced =>
              /\ id \in DOMAIN registry
              /\ client[c].broker = registry[id]

(* What the README says of brokers, and the registry's test of two calls   *)
(* in a row: clients with the same broker.id share one broker.             *)
OneBrokerPerId ==
    \A c, d \in Clients :
       /\ client[c].pc = "ready"
       /\ client[d].pc = "ready"
       /\ brokers[client[c].broker].id = brokers[client[d].broker].id
       => client[c].broker = client[d].broker
=============================================================================
