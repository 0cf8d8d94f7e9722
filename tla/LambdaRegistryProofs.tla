------------------------ MODULE LambdaRegistryProofs ------------------------
(***************************************************************************)
(* The registry machine, for every number of slots and all sets of names:  *)
(* its invariants and that it implements the directory.  The inductive     *)
(* invariant is IInv: a lookup by name, on which the duplicate check       *)
(* rests, is right only while every entry lies below the counter.          *)
(***************************************************************************)
EXTENDS LambdaRegistry, RegistryTheorems

IInv == reg \in Registries /\ Consistent

LEMMA InitInv == Init => IInv
  BY EmptyWellFormed DEF Init, IInv, Consistent

LEMMA NextInv == IInv /\ [Next]_vars => IInv'
<1> SUFFICES ASSUME IInv, [Next]_vars PROVE IInv'
  OBVIOUS
<1> USE DEF IInv, Consistent
<1>1. CASE UNCHANGED vars
  BY <1>1 DEF vars
<1>2. ASSUME NEW n \in Names, NEW t \in Types, NEW c \in Policies, NEW a \in Args,
             NEW oom \in BOOLEAN, lambda_registry_register(n, t, c, a, oom)
      PROVE  IInv'
  BY <1>2, RegisteredWellFormed DEF lambda_registry_register
<1>3. ASSUME NEW id \in 0 .. MaxLambdas, lambda_registry_unregister(id)
      PROVE  IInv'
  <2>1. id \in Nat
    BY RegistryAssumption
  <2> QED BY <1>3, <2>1, UnregisteredWellFormed DEF lambda_registry_unregister
<1>4. CASE free_lambda_registry
  BY <1>4, FreedEmpty, EmptyWellFormed DEF free_lambda_registry
<1>5. CASE init_lambda_registry
  BY <1>5, EmptyWellFormed DEF init_lambda_registry
<1> QED BY <1>1, <1>2, <1>3, <1>4, <1>5 DEF Next

LEMMA AlwaysInv == Spec => []IInv
  BY InitInv, NextInv, PTL DEF Spec

\* The entries never overlap, for a registry of any size: id, slot and name of
\* a live lambda determine each other after any sequence of calls.
THEOREM RegistryIsConsistent == Spec => []Consistent
<1>1. IInv => Consistent
  BY DEF IInv
<1> QED BY <1>1, AlwaysInv, PTL

\* Everything a call returns is an int8_t and the array keeps its type.
THEOREM TypeCorrect == Spec => []TypeOK
<1>1. IInv /\ Init => TypeOK
  BY RegistryAssumption DEF IInv, Init, TypeOK
<1>2. IInv /\ TypeOK /\ IInv' /\ [Next]_vars => TypeOK'
  <2> SUFFICES ASSUME reg \in Registries, TypeOK, IInv', [Next]_vars
               PROVE  result' \in -2 * SignBit - 5 .. SignBit
    BY DEF IInv, TypeOK
  <2> USE RegistryAssumption
  <2>1. CASE UNCHANGED vars
    BY <2>1 DEF vars, TypeOK
  <2>2. ASSUME NEW n \in Names, NEW t \in Types, NEW c \in Policies, NEW a \in Args,
               NEW oom \in BOOLEAN, lambda_registry_register(n, t, c, a, oom)
        PROVE  result' \in -2 * SignBit - 5 .. SignBit
    <3>1. reg.counter \in 0 .. MaxLambdas
      BY DEF Registries
    <3>2. CASE RegisterFailure(reg, n, oom) # 0
      <4>1. RegisterFailure(reg, n, oom) \in {-1, -2, -3, -4}
        BY <3>2 DEF RegisterFailure, RegisterLimitReached, RegisterInvalName,
                    RegisterDuplicate, RegisterNoMem
      <4>2. result' \in {-1, -2, -3, -4}
        BY <2>2, <3>2, <4>1 DEF lambda_registry_register, RegisterResult
      <4> QED BY <4>2
    <3>3. CASE RegisterFailure(reg, n, oom) = 0
      <4>1. reg.counter < MaxLambdas
        BY <3>1, <3>3 DEF RegisterFailure, RegisterLimitReached
      <4>2. result' = AsInt8(reg.counter)
        BY <2>2, <3>3 DEF lambda_registry_register, RegisterResult
      <4> QED BY <3>1, <4>1, <4>2 DEF AsInt8
    <3> QED BY <3>2, <3>3
  <2>3. ASSUME NEW id \in 0 .. MaxLambdas, lambda_registry_unregister(id)
        PROVE  result' \in -2 * SignBit - 5 .. SignBit
    BY <2>3 DEF lambda_registry_unregister, UnregisterResult, UnregisterNotFound,
                UnregisterSuccess
  <2>4. CASE free_lambda_registry \/ init_lambda_registry
    BY <2>4 DEF free_lambda_registry, init_lambda_registry
  <2> QED BY <2>1, <2>2, <2>3, <2>4 DEF Next
<1> QED BY <1>1, <1>2, InitInv, AlwaysInv, PTL DEF Spec

\* The two lookups agree: a by-name call and a by-id call with the id it
\* resolves to reach the same lambda, for every name that has a terminator.
THEOREM LookupsAlwaysAgree == Spec => []LookupsAgree
<1>1. IInv => LookupsAgree
  <2> SUFFICES ASSUME IInv, NEW n \in ShortNames, NEW i \in Live(reg), reg.slot[i].name = n
               PROVE  /\ ByName(reg, n) = reg.slot[i]
                      /\ ById(reg, ByName(reg, n).id) = ByName(reg, n)
    BY DEF LookupsAgree
  <2>1. i \in Ids /\ i < reg.counter /\ reg.slot[i].id = i
    BY DEF IInv, Consistent, WellFormed, SlotsBelowCounter, Live
  <2>2. i \in Hits(reg, n)
    BY <2>1, RegistryAssumption DEF Hits, NameEquals, Live
  <2>3. ByName(reg, n) = reg.slot[i]
    BY <2>2, ByNameFinds DEF IInv, Consistent
  <2> QED BY <2>1, <2>3, RegistryAssumption DEF ById, Ids, IInv, Registries
<1> QED BY <1>1, AlwaysInv, PTL

-----------------------------------------------------------------------------
LEMMA InitImplements == Init => Directory!Init
  BY RegistryAssumption
     DEF Init, ZeroedRegistry, EmptySlots, Directory!Init, Directory!Nobody

LEMMA NextImplements ==
  IInv /\ [Next]_vars => [Directory!Next]_<<reg.slot, 0 .. reg.counter - 1>>
<1> DEFINE issued == 0 .. reg.counter - 1
           Step == [Directory!Next]_<<reg.slot, issued>>
<1> SUFFICES ASSUME IInv, [Next]_vars PROVE Step
  OBVIOUS
<1>a. /\ reg.slot \in [Ids -> Entry \cup {Null}] /\ reg.counter \in 0 .. MaxLambdas
      /\ WellFormed(reg)
  BY DEF IInv, Consistent, Registries
<1>1. CASE UNCHANGED vars
  BY <1>1 DEF vars
<1>2. ASSUME NEW n \in Names, NEW t \in Types, NEW c \in Policies, NEW a \in Args,
             NEW oom \in BOOLEAN, lambda_registry_register(n, t, c, a, oom)
      PROVE  Step
  <2> DEFINE e == [id |-> reg.counter, name |-> n, type |-> t, cache |-> c, arg |-> a]
  <2>1. CASE RegisterFailure(reg, n, oom) = 0
    <3>1. /\ reg.counter \in Ids
          /\ n \in ShortNames \cup FullNames
          /\ n \notin FullNames => \A i \in Live(reg) : reg.slot[i].name # n
      BY <2>1, Accepted DEF IInv, Consistent
    <3>2. /\ reg'.slot = [reg.slot EXCEPT ![reg.counter] = e]
          /\ reg'.counter = reg.counter + 1
      BY <1>2, <2>1 DEF lambda_registry_register, Registered, RegisterNoMem
    <3>3. e \in Entry
      BY <3>1 DEF Entry
    <3>4. e.id \notin issued /\ issued' = issued \cup {e.id}
      BY <1>a, <3>2
    <3>5. Directory!NameFree(e)
      BY <3>1, RegistryAssumption DEF Directory!NameFree, Live
    <3>6. Directory!Add(e)
      BY <3>2, <3>4, <3>5 DEF Directory!Add
    <3> QED BY <3>3, <3>6 DEF Directory!Next
  <2>2. CASE RegisterFailure(reg, n, oom) = RegisterNoMem
    <3>1. reg.counter \in Ids => reg.slot[reg.counter] = Null
      BY <1>a DEF WellFormed, SlotsBelowCounter, Live
    <3>2. reg' = [reg EXCEPT !.slot[reg.counter] = Null]
      BY <1>2, <2>2 DEF lambda_registry_register, Registered
    <3>3. reg'.slot = reg.slot /\ reg'.counter = reg.counter
      BY <1>a, <3>1, <3>2 DEF IInv, Registries
    <3> QED BY <3>3
  <2>3. CASE RegisterFailure(reg, n, oom) \notin {0, RegisterNoMem}
    BY <1>2, <2>3 DEF lambda_registry_register, Registered
  <2> QED BY <2>1, <2>2, <2>3
<1>3. ASSUME NEW id \in 0 .. MaxLambdas, lambda_registry_unregister(id)
      PROVE  Step
  <2>1. CASE ById(reg, id) = Null
    BY <1>3, <2>1 DEF lambda_registry_unregister, Unregistered
  <2>2. CASE ById(reg, id) # Null
    <3>1. id \in Ids /\ reg.slot[id] # Null
      BY <2>2, RegistryAssumption DEF ById, Ids
    <3>2. reg'.slot = [reg.slot EXCEPT ![id] = Null] /\ reg'.counter = reg.counter
      BY <1>3, <2>2 DEF lambda_registry_unregister, Unregistered, IInv, Registries
    <3>3. Directory!Remove(id)
      BY <3>1, <3>2 DEF Directory!Remove
    <3> QED BY <3>1, <3>3 DEF Directory!Next
  <2> QED BY <2>1, <2>2
<1>4. CASE free_lambda_registry
  <2>1. reg' = ZeroedRegistry
    BY <1>4, FreedEmpty DEF free_lambda_registry, IInv, Consistent
  <2>2. Directory!Clear
    BY <2>1 DEF Directory!Clear, Directory!Nobody, ZeroedRegistry, EmptySlots
  <2> QED BY <2>2 DEF Directory!Next
<1>5. CASE init_lambda_registry
  <2>1. reg'.slot = EmptySlots /\ reg'.counter = reg.counter
    BY <1>5 DEF init_lambda_registry, Initialised, IInv, Registries
  <2>2. Directory!Forget
    BY <2>1 DEF Directory!Forget, Directory!Nobody, EmptySlots
  <2> QED BY <2>2 DEF Directory!Next
<1> QED BY <1>1, <1>2, <1>3, <1>4, <1>5 DEF Next

\* The array and its counter implement the directory: each lambda keeps to its
\* own id, no id is handed out twice until the registry is freed, and no name
\* that can be looked up is taken twice.
THEOREM RegistryImplementsDirectory == Spec => Implements
  BY InitImplements, NextImplements, AlwaysInv, PTL
     DEF Spec, Implements, Directory!Spec
=============================================================================
