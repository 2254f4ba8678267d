--------------------------- MODULE RegistryProofs ----------------------------
(***************************************************************************)
(* Clients of a broker id share one broker unless they raced, for any      *)
(* number of clients, ids and brokers.                                     *)
(*                                                                         *)
(* SharedUnlessRaced is not inductive: a client that is about to insert a  *)
(* broker would replace the one others hold.  While the id is not marked   *)
(* as raced there are no others: it is the only one creating, and nobody   *)
(* holds a broker of the id (CreatesAlone).                                *)
(***************************************************************************)
EXTENDS Registry, TLAPS

BrokerConfig == [id : Ids, settings : [Keys -> Values]]

(* A client that creates a broker has a configuration with an id.          *)
Configured(config) == config \in RmqClientConfig /\ config.id # {}

ClientState ==
    {Free} \cup {Holding(b) : b \in DOMAIN brokers} \cup
    {[pc |-> "create", config |-> x] : x \in {y \in RmqClientConfig : y.id # {}}}

TypeInv ==
    /\ brokers \in Seq(BrokerConfig)
    /\ client \in [Clients -> ClientState]
    /\ registry \in [DOMAIN registry -> DOMAIN brokers]
    /\ DOMAIN registry \subseteq Ids
    /\ \A i \in DOMAIN registry : brokers[registry[i]].id = i

(* The client holds a broker of id.                                        *)
Uses(c, id) == client[c].pc = "ready" /\ brokers[client[c].broker].id = id

CreatesAlone ==
    \A id \in Ids : id \notin raced => \A c \in Creating(id) :
       /\ Creating(id) = {c}
       /\ \A d \in Clients : ~ Uses(d, id)

Inv == TypeInv /\ SharedUnlessRaced /\ CreatesAlone

-----------------------------------------------------------------------------

LEMMA ConfigHasOneId ==
    ASSUME NEW config, Configured(config)
    PROVE  \E i \in Ids : config.id = {i} /\ (CHOOSE j \in config.id : TRUE) = i
<1>1. config.id \in {{}} \cup {{i} : i \in Ids}
  BY DEF Configured, RmqClientConfig
<1>2. PICK i \in Ids : config.id = {i}
  BY <1>1 DEF Configured
<1>3. (CHOOSE j \in {i} : TRUE) = i
  OBVIOUS
<1> QED BY <1>2, <1>3

LEMMA FromConfigType ==
    ASSUME NEW config, Configured(config), Valid(config)
    PROVE  from_config(config) \in BrokerConfig
<1>1. PICK i \in Ids : (CHOOSE j \in config.id : TRUE) = i
  BY ConfigHasOneId
<1>2. PICK K \in SUBSET Keys : config.set \in [K -> Values \cup {Bad}]
  BY DEF Configured, RmqClientConfig
<1>3. \A k \in DOMAIN config.set : config.set[k] \in Values
  BY <1>2 DEF Valid
<1>4. [k \in Keys |-> IF k \in DOMAIN config.set
                      THEN config.set[k] ELSE Default[k]] \in [Keys -> Values]
  BY <1>3, DefaultAssumption
<1> QED BY <1>1, <1>4 DEF from_config, BrokerConfig

(* Whether a client is free, creating or ready decides what else it has.   *)
LEMMA ClientForms ==
    ASSUME NEW c \in Clients, TypeInv
    PROVE  /\ client[c].pc = "ready" =>
                 client[c].broker \in DOMAIN brokers
           /\ client[c].pc = "create" => Configured(client[c].config)
           /\ client[c].pc \in {"free", "create", "ready"}
<1>1. client[c] \in ClientState BY DEF TypeInv
<1>2. CASE client[c] = Free BY <1>2 DEF Free
<1>3. ASSUME NEW b \in DOMAIN brokers, client[c] = Holding(b)
      PROVE  client[c].pc = "ready" /\ client[c].broker \in DOMAIN brokers
  BY <1>3 DEF Holding
<1>4. ASSUME NEW x \in {y \in RmqClientConfig : y.id # {}},
             client[c] = [pc |-> "create", config |-> x]
      PROVE  client[c].pc = "create" /\ Configured(client[c].config)
  BY <1>4 DEF Configured
<1> QED BY <1>1, <1>2, <1>3, <1>4 DEF ClientState

LEMMA BrokerTypes ==
    ASSUME TypeInv, NEW b \in DOMAIN brokers
    PROVE  brokers[b] \in BrokerConfig /\ brokers[b].id \in Ids
<1>1. brokers \in Seq(BrokerConfig) BY DEF TypeInv
<1>2. brokers[b] \in BrokerConfig BY <1>1
<1> QED BY <1>2 DEF BrokerConfig

LEMMA InitInv == Init => Inv
<1> SUFFICES ASSUME Init PROVE Inv OBVIOUS
<1> USE DEF Init
<1>1. TypeInv
  BY DEF TypeInv, ClientState
<1>2. \A c \in Clients : client[c].pc = "free"
  BY DEF Free
<1> QED BY <1>1, <1>2 DEF Inv, SharedUnlessRaced, CreatesAlone, Creating

-----------------------------------------------------------------------------
(* Each action preserves the invariant.                                    *)

LEMMA GetOrCreateInv ==
    ASSUME Inv, NEW c \in Clients, NEW config \in RmqClientConfig,
           get_or_create(c, config)
    PROVE  Inv'
<1> USE DEF Inv
<1>0. UNCHANGED << registry, brokers >> /\ client[c] = Free /\ Configured(config)
  BY DEF get_or_create, Configured
<1>1. PICK id \in Ids : config.id = {id} /\ (CHOOSE i \in config.id : TRUE) = id
  BY <1>0, ConfigHasOneId
<1>2. CASE id \in DOMAIN registry /\ Alive(registry[id])
  <2>1. /\ client' = [client EXCEPT ![c] = Holding(registry[id])]
        /\ raced' = raced
    BY <1>1, <1>2 DEF get_or_create
  <2>2. registry[id] \in DOMAIN brokers /\ brokers[registry[id]].id = id
    BY <1>2 DEF TypeInv
  <2>3. TypeInv'
    BY <1>0, <2>1, <2>2 DEF TypeInv, ClientState
  <2>4. client'[c].pc = "ready" /\ client'[c].broker = registry[id]
    BY <2>1 DEF Holding, TypeInv
  <2>5. \A d \in Clients \ {c} : client'[d] = client[d]
    BY <2>1 DEF TypeInv
  <2>6. SharedUnlessRaced'
    BY <1>0, <1>2, <2>1, <2>2, <2>4, <2>5 DEF SharedUnlessRaced
  <2>7. \A i : Creating(i)' = Creating(i)
    BY <1>0, <2>4, <2>5 DEF Creating, Free
  <2>8. PICK e \in Clients : Holds(e, registry[id])
    BY <1>2 DEF Alive
  <2>9. Uses(e, id)
    BY <2>2, <2>8 DEF Holds, Uses
  <2>10. id \notin raced => Creating(id) = {}
    BY <2>9 DEF CreatesAlone
  <2>11. \A d \in Clients, i \in Ids : Uses(d, i)' => Uses(d, i) \/ i = id
    BY <1>0, <2>2, <2>4, <2>5 DEF Uses
  <2>12. CreatesAlone'
    BY <2>1, <2>7, <2>10, <2>11 DEF CreatesAlone
  <2> QED BY <2>3, <2>6, <2>12
<1>3. CASE ~ (id \in DOMAIN registry /\ Alive(registry[id]))
  <2>1. /\ client' = [client EXCEPT ![c] = [pc |-> "create", config |-> config]]
        /\ raced' = IF Creating(id) = {} THEN raced ELSE raced \cup {id}
    BY <1>1, <1>3 DEF get_or_create
  <2>2. TypeInv'
    BY <1>0, <2>1 DEF TypeInv, ClientState, Configured
  <2>3. client'[c].pc = "create" /\ client'[c].config = config
    BY <2>1 DEF TypeInv
  <2>4. \A d \in Clients \ {c} : client'[d] = client[d]
    BY <2>1 DEF TypeInv
  <2>5. raced \subseteq raced'
    BY <2>1
  <2>6. SharedUnlessRaced'
    BY <1>0, <2>3, <2>4, <2>5 DEF SharedUnlessRaced
  <2>7. \A i : Creating(i)' = IF i = id THEN Creating(i) \cup {c} ELSE Creating(i)
    <3> TAKE i
    <3>1. config.id = {i} <=> i = id BY <1>1
    <3>2. c \notin Creating(i) BY <1>0 DEF Creating, Free
    <3> QED BY <3>1, <3>2, <2>3, <2>4 DEF Creating
  <2>8. \A d \in Clients, i \in Ids : Uses(d, i)' => Uses(d, i)
    BY <1>0, <2>3, <2>4 DEF Uses
  <2>9. ASSUME id \notin raced', NEW d \in Clients PROVE ~ Uses(d, id)
    <3>1. id \notin raced BY <2>5, <2>9
    <3>2. SUFFICES ASSUME Uses(d, id) PROVE FALSE OBVIOUS
    <3>3. id \in DOMAIN registry /\ client[d].broker = registry[id]
      BY <3>1, <3>2 DEF SharedUnlessRaced, Uses
    <3>4. Alive(registry[id])
      BY <3>2, <3>3 DEF Alive, Holds, Uses
    <3> QED BY <1>3, <3>3, <3>4
  <2>10. CreatesAlone'
    BY <2>1, <2>5, <2>7, <2>8, <2>9 DEF CreatesAlone
  <2> QED BY <2>2, <2>6, <2>10
<1> QED BY <1>2, <1>3

LEMMA CreateAndInsertInv ==
    ASSUME Inv, NEW c \in Clients, create_and_insert(c)
    PROVE  Inv'
<1> USE DEF Inv
<1> DEFINE config == client[c].config
           b == Len(brokers) + 1
           new == from_config(config)
<1>0. client[c].pc = "create" /\ raced' = raced /\ Configured(config)
  BY ClientForms DEF create_and_insert
<1>1. PICK id \in Ids : config.id = {id} /\ (CHOOSE i \in config.id : TRUE) = id
  BY <1>0, ConfigHasOneId
<1>2. CASE ~ Valid(config)
  <2>1. client' = [client EXCEPT ![c] = Free] /\ UNCHANGED << registry, brokers >>
    BY <1>2 DEF create_and_insert
  <2>2. TypeInv'
    BY <2>1 DEF TypeInv, ClientState
  <2>3. client'[c].pc = "free"
    BY <2>1 DEF TypeInv, Free
  <2>4. \A d \in Clients \ {c} : client'[d] = client[d]
    BY <2>1 DEF TypeInv
  <2>5. SharedUnlessRaced'
    BY <1>0, <2>1, <2>3, <2>4 DEF SharedUnlessRaced
  <2>6. \A i : Creating(i)' = Creating(i) \ {c}
    BY <2>3, <2>4 DEF Creating
  <2>7. \A d \in Clients, i \in Ids : Uses(d, i)' => Uses(d, i)
    BY <2>1, <2>3, <2>4 DEF Uses
  <2>8. CreatesAlone'
    BY <1>0, <2>6, <2>7 DEF CreatesAlone
  <2> QED BY <2>2, <2>5, <2>8
<1>3. CASE Valid(config)
  <2>1. /\ brokers' = Append(brokers, new)
        /\ registry' = Registered(new.id, b)
        /\ client' = [client EXCEPT ![c] = Holding(b)]
    BY <1>3 DEF create_and_insert
  <2>2. new \in BrokerConfig /\ new.id = id
    BY <1>0, <1>1, <1>3, FromConfigType DEF from_config
  <2> HIDE DEF config, new
  <2>3. /\ brokers' \in Seq(BrokerConfig)
        /\ DOMAIN brokers' = DOMAIN brokers \cup {b}
        /\ brokers'[b] = new
        /\ \A k \in DOMAIN brokers : brokers'[k] = brokers[k]
        /\ b \notin DOMAIN brokers
    BY <2>1, <2>2 DEF TypeInv
  <2>4. client'[c].pc = "ready" /\ client'[c].broker = b
    BY <2>1 DEF TypeInv, Holding
  <2>5. \A d \in Clients \ {c} : client'[d] = client[d]
    BY <2>1 DEF TypeInv
  <2>6. /\ DOMAIN registry' = DOMAIN registry \cup {id}
        /\ registry'[id] = b
        /\ \A i \in DOMAIN registry \ {id} : registry'[i] = registry[i]
        /\ registry' \in [DOMAIN registry' -> DOMAIN brokers']
    BY <2>1, <2>2, <2>3 DEF Registered, TypeInv
  <2>7. \A i \in DOMAIN registry' : brokers'[registry'[i]].id = i
    BY <2>2, <2>3, <2>6 DEF TypeInv
  <2>8. client' \in [Clients -> ClientState']
    <3>1. Holding(b) \in ClientState' BY <2>3 DEF ClientState
    <3>2. ClientState \subseteq ClientState' BY <2>3 DEF ClientState
    <3> QED BY <2>1, <3>1, <3>2 DEF TypeInv
  <2>9. TypeInv'
    BY <2>3, <2>6, <2>7, <2>8 DEF TypeInv
  <2>10. \A d \in Clients \ {c}, i \in Ids : Uses(d, i)' <=> Uses(d, i)
    <3> TAKE d \in Clients \ {c}, i \in Ids
    <3>1. client[d].pc = "ready" => client[d].broker \in DOMAIN brokers
      BY ClientForms
    <3> QED BY <2>3, <2>5, <3>1 DEF Uses
  <2>11. \A i : Creating(i)' = Creating(i) \ {c}
    BY <2>4, <2>5 DEF Creating
  <2>12. c \in Creating(id)
    BY <1>0, <1>1 DEF Creating, config
  <2>13. \A i \in Ids : Uses(c, i)' => i = id
    BY <2>2, <2>3, <2>4 DEF Uses
  <2>14. CreatesAlone'
    <3> SUFFICES ASSUME NEW i \in Ids, i \notin raced', NEW e \in Creating(i)'
                 PROVE  Creating(i)' = {e} /\ \A d \in Clients : ~ Uses(d, i)'
      BY DEF CreatesAlone
    <3>1. i \notin raced /\ e \in Creating(i) /\ e # c BY <1>0, <2>11
    <3>2. Creating(i) = {e} /\ \A d \in Clients : ~ Uses(d, i)
      BY <3>1 DEF CreatesAlone
    <3>3. i # id BY <2>12, <3>1, <3>2
    <3>4. \A d \in Clients : ~ Uses(d, i)'
      BY <2>10, <2>13, <3>2, <3>3
    <3> QED BY <2>11, <3>1, <3>2, <3>4
  <2>15. SharedUnlessRaced'
    <3> SUFFICES ASSUME NEW d \in Clients, client'[d].pc = "ready",
                        NEW i, i = brokers'[client'[d].broker].id, i \notin raced'
                 PROVE  i \in DOMAIN registry' /\ client'[d].broker = registry'[i]
      BY DEF SharedUnlessRaced
    <3>1. CASE d = c
      BY <2>2, <2>3, <2>4, <2>6, <3>1
    <3>2. CASE d # c
      <4>1. client'[d] = client[d] /\ client[d].broker \in DOMAIN brokers
        BY <2>5, <3>2, ClientForms
      <4>2. i = brokers[client[d].broker].id /\ i \in Ids
        BY <2>3, <4>1, BrokerTypes
      <4>3. Uses(d, i) BY <4>1, <4>2 DEF Uses
      <4>4. i \in DOMAIN registry /\ client[d].broker = registry[i]
        BY <1>0, <4>1, <4>2 DEF SharedUnlessRaced
      <4>5. i # id
        BY <1>0, <2>12, <4>2, <4>3 DEF CreatesAlone
      <4> QED BY <2>6, <4>1, <4>4, <4>5
    <3> QED BY <3>1, <3>2
  <2> QED BY <2>9, <2>14, <2>15
<1> QED BY <1>2, <1>3

LEMMA CloneInv ==
    ASSUME Inv, NEW c \in Clients, NEW d \in Clients, clone(c, d)
    PROVE  Inv'
<1> USE DEF Inv
<1>1. /\ client[c].pc = "ready" /\ client[d] = Free
      /\ client' = [client EXCEPT ![d] = client[c]]
      /\ UNCHANGED << registry, brokers, raced >>
  BY DEF clone
<1>2. TypeInv'
  BY <1>1 DEF TypeInv, ClientState
<1>3. client'[d] = client[c] /\ \A e \in Clients \ {d} : client'[e] = client[e]
  BY <1>1 DEF TypeInv
<1>4. SharedUnlessRaced'
  BY <1>1, <1>3 DEF SharedUnlessRaced
<1>5. \A i : Creating(i)' = Creating(i)
  BY <1>1, <1>3 DEF Creating, Free
<1>6. \A i \in Ids : \A e \in Clients : Uses(e, i)' => \E f \in Clients : Uses(f, i)
  BY <1>1, <1>3 DEF Uses
<1>7. CreatesAlone'
  BY <1>1, <1>5, <1>6 DEF CreatesAlone
<1> QED BY <1>2, <1>4, <1>7

LEMMA DropInv ==
    ASSUME Inv, NEW c \in Clients, drop(c)
    PROVE  Inv'
<1> USE DEF Inv
<1>1. /\ client[c].pc = "ready"
      /\ client' = [client EXCEPT ![c] = Free]
      /\ UNCHANGED << registry, brokers >>
      /\ raced' = {i \in raced : Creating(i) # {} \/ \E d \in Clients \ {c} : Uses(d, i)}
  BY DEF drop, Uses
<1>2. TypeInv'
  BY <1>1 DEF TypeInv, ClientState
<1>3. client'[c].pc = "free" /\ \A e \in Clients \ {c} : client'[e] = client[e]
  BY <1>1 DEF TypeInv, Free
<1>4. \A i : Creating(i)' = Creating(i)
  BY <1>1, <1>3 DEF Creating
<1>5. \A e \in Clients : \A i : Uses(e, i)' <=> Uses(e, i) /\ e # c
  BY <1>1, <1>3 DEF Uses
<1>6. SharedUnlessRaced'
  <2> SUFFICES ASSUME NEW d \in Clients, client'[d].pc = "ready",
                      NEW i, i = brokers'[client'[d].broker].id, i \notin raced'
               PROVE  i \in DOMAIN registry' /\ client'[d].broker = registry'[i]
    BY DEF SharedUnlessRaced
  <2>1. d # c /\ client'[d] = client[d] BY <1>3
  <2>2. Uses(d, i) BY <1>1, <2>1 DEF Uses
  <2>3. i \notin raced BY <1>1, <2>1, <2>2
  <2> QED BY <1>1, <2>1, <2>3 DEF SharedUnlessRaced
<1>7. CreatesAlone'
  BY <1>1, <1>4, <1>5 DEF CreatesAlone
<1> QED BY <1>2, <1>6, <1>7

-----------------------------------------------------------------------------

LEMMA RegistryInvariant == Spec => []Inv
<1>1. Init => Inv BY InitInv
<1>2. Inv /\ [Next]_vars => Inv'
  <2> SUFFICES ASSUME Inv, [Next]_vars PROVE Inv' OBVIOUS
  <2>1. ASSUME NEW c \in Clients, NEW config \in RmqClientConfig,
               get_or_create(c, config) PROVE Inv'
    BY <2>1, GetOrCreateInv
  <2>2. ASSUME NEW c \in Clients, create_and_insert(c) PROVE Inv'
    BY <2>2, CreateAndInsertInv
  <2>3. ASSUME NEW c \in Clients, NEW d \in Clients, clone(c, d) PROVE Inv'
    BY <2>3, CloneInv
  <2>4. ASSUME NEW c \in Clients, drop(c) PROVE Inv'
    BY <2>4, DropInv
  <2>5. CASE UNCHANGED vars
    BY <2>5 DEF vars, Inv, TypeInv, ClientState, SharedUnlessRaced, CreatesAlone,
                Creating, Uses
  <2> QED BY <2>1, <2>2, <2>3, <2>4, <2>5 DEF Next
<1> QED BY <1>1, <1>2, PTL DEF Spec

(* The registry refers to brokers of the id it has them under, and brokers *)
(* have the settings of a configuration that was parsed, whatever clients  *)
(* are created, cloned and dropped.                                        *)
THEOREM RegistryTypeOK == Spec => []TypeOK
<1>1. Inv => TypeOK
  <2> SUFFICES ASSUME Inv PROVE TypeOK OBVIOUS
  <2>1. \A c \in Clients : client[c].pc = "ready" => client[c].broker \in DOMAIN brokers
    BY ClientForms DEF Inv
  <2>2. \A b \in DOMAIN brokers : brokers[b] \in [id : Ids, settings : [Keys -> Values]]
    BY BrokerTypes DEF Inv, BrokerConfig
  <2>3. \A i \in DOMAIN registry : registry[i] \in DOMAIN brokers
    BY DEF Inv, TypeInv
  <2> QED BY <2>1, <2>2, <2>3 DEF Inv, TypeInv, TypeOK
<1> QED BY <1>1, RegistryInvariant, PTL

(* Clients of one id that were not inside get_or_create together share the *)
(* broker the registry has for it, through any number of deaths and new    *)
(* creations.                                                              *)
THEOREM RegistryShares == Spec => []SharedUnlessRaced
<1>1. Inv => SharedUnlessRaced BY DEF Inv
<1> QED BY <1>1, RegistryInvariant, PTL
=============================================================================
