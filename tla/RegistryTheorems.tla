-------------------------- MODULE RegistryTheorems --------------------------
(***************************************************************************)
(* Lemmas about the operators of Registry, for every number of slots and   *)
(* all sets of names: what each operation of lambda_registry.c does to a   *)
(* well-formed registry.                                                   *)
(***************************************************************************)
EXTENDS Registry, TLAPS

\* get_registered_lambda_by_name: a name that some slot matches finds that very
\* slot, because in a well-formed registry no other slot matches it.
LEMMA ByNameFinds ==
  ASSUME NEW r \in Registries, WellFormed(r), NEW n, NEW i \in Hits(r, n)
  PROVE  ByName(r, n) = r.slot[i]
<1>1. i \in Ids /\ i < r.counter /\ r.slot[i] # Null /\ r.slot[i].name = n /\ n \notin FullNames
  BY DEF Hits, NameEquals
<1>2. ASSUME NEW j \in Hits(r, n) PROVE j = i
  <2>1. j \in Ids /\ r.slot[j] # Null /\ r.slot[j].name = n
    BY <1>2 DEF Hits, NameEquals
  <2> QED BY <1>1, <2>1 DEF WellFormed, NamesUnique, Live
<1>3. Hits(r, n) = {i}
  BY <1>2
<1>4. (CHOOSE k \in Hits(r, n) : \A j \in Hits(r, n) : k <= j) = i
  <2>1. i \in Int BY <1>1, RegistryAssumption DEF Ids
  <2> QED BY <1>3, <2>1
<1> QED BY <1>3, <1>4 DEF ByName

\* A name that finds nothing is the name of no live lambda, unless it fills its
\* field.
LEMMA ByNameMissing ==
  ASSUME NEW r \in Registries, WellFormed(r), NEW n, n \notin FullNames,
         ByName(r, n) = Null
  PROVE  \A i \in Live(r) : r.slot[i].name # n
<1> SUFFICES ASSUME NEW i \in Live(r), r.slot[i].name = n PROVE FALSE
  OBVIOUS
<1>1. i \in Hits(r, n)
  BY DEF Hits, NameEquals, Live, WellFormed, SlotsBelowCounter
<1>2. ByName(r, n) = r.slot[i]
  BY <1>1, ByNameFinds
<1> QED BY <1>2 DEF Live

\* A registration that is accepted had a free slot and a name of its own.
LEMMA Accepted ==
  ASSUME NEW r \in Registries, WellFormed(r), NEW n \in Names, NEW oom \in BOOLEAN,
         RegisterFailure(r, n, oom) = 0
  PROVE  /\ r.counter \in Ids
         /\ n \in ShortNames \cup FullNames
         /\ n \notin FullNames => \A i \in Live(r) : r.slot[i].name # n
<1>1. r.counter < MaxLambdas /\ n \notin BadNames /\ ByName(r, n) = Null
  <2>1. r.counter \in Nat /\ MaxLambdas \in Nat
    BY RegistryAssumption DEF Registries
  <2>2. RegisterLimitReached # 0 /\ RegisterInvalName # 0 /\ RegisterDuplicate # 0
    BY DEF RegisterLimitReached, RegisterInvalName, RegisterDuplicate
  <2> QED BY <2>1, <2>2 DEF RegisterFailure
<1>2. r.counter \in Ids
  BY <1>1, RegistryAssumption DEF Registries, Ids
<1>3. n \in ShortNames \cup FullNames
  BY <1>1 DEF Names
<1>4. n \notin FullNames => \A i \in Live(r) : r.slot[i].name # n
  BY <1>1, ByNameMissing
<1> QED BY <1>2, <1>3, <1>4

\* lambda_registry_register keeps a registry well formed, whatever it returns.
LEMMA RegisteredWellFormed ==
  ASSUME NEW r \in Registries, WellFormed(r), NEW n \in Names, NEW t \in Types,
         NEW c \in Policies, NEW a \in Args, NEW oom \in BOOLEAN
  PROVE  LET s == Registered(r, n, t, c, a, oom)
         IN  s \in Registries /\ WellFormed(s)
<1> DEFINE s == Registered(r, n, t, c, a, oom)
           e == [id |-> r.counter, name |-> n, type |-> t, cache |-> c, arg |-> a]
<1>1. CASE RegisterFailure(r, n, oom) = 0
  <2>1. s = [slot |-> [r.slot EXCEPT ![r.counter] = e], counter |-> r.counter + 1]
    BY <1>1 DEF Registered, RegisterNoMem
  <2>2. /\ r.counter \in Ids
        /\ n \in ShortNames \cup FullNames
        /\ n \notin FullNames => \A i \in Live(r) : r.slot[i].name # n
    BY <1>1, Accepted
  <2>3. e \in Entry /\ e # Null
    BY <2>2, NullAssumption DEF Entry
  <2>4. s \in Registries
    BY <2>1, <2>2, <2>3, RegistryAssumption DEF Registries, Ids
  <2>5. \A i \in Ids : s.slot[i] = IF i = r.counter THEN e ELSE r.slot[i]
    BY <2>1, <2>2 DEF Registries
  <2>6. SlotsBelowCounter(s)
    BY <2>1, <2>2, <2>5, RegistryAssumption
       DEF SlotsBelowCounter, WellFormed, Live, Registries, Ids
  <2>7. NamesUnique(s)
    BY <2>2, <2>5 DEF NamesUnique, WellFormed, Live
  <2> QED BY <2>4, <2>6, <2>7 DEF WellFormed
<1>2. CASE RegisterFailure(r, n, oom) = RegisterNoMem
  <2>1. s = [r EXCEPT !.slot[r.counter] = Null]
    BY <1>2 DEF Registered
  <2>2. s \in Registries /\ s.counter = r.counter
    BY <2>1 DEF Registries
  <2>3. \A i \in Live(s) : i \in Live(r) /\ s.slot[i] = r.slot[i]
    BY <2>1 DEF Live, Registries
  <2> QED BY <2>2, <2>3 DEF WellFormed, SlotsBelowCounter, NamesUnique
<1>3. CASE RegisterFailure(r, n, oom) \notin {0, RegisterNoMem}
  <2>1. s = r
    BY <1>3 DEF Registered
  <2> QED BY <2>1
<1> QED BY <1>1, <1>2, <1>3

\* lambda_registry_unregister, with any id, keeps a registry well formed.
LEMMA UnregisteredWellFormed ==
  ASSUME NEW r \in Registries, WellFormed(r), NEW id \in Nat
  PROVE  Unregistered(r, id) \in Registries /\ WellFormed(Unregistered(r, id))
<1> DEFINE s == Unregistered(r, id)
<1>1. s \in Registries /\ s.counter = r.counter
  BY DEF Unregistered, Registries
<1>2. \A i \in Live(s) : i \in Live(r) /\ s.slot[i] = r.slot[i]
  BY DEF Unregistered, Live, Registries
<1> QED BY <1>1, <1>2 DEF WellFormed, SlotsBelowCounter, NamesUnique

\* free_lambda_registry empties every slot, although it visits only those below
\* the counter: nothing lives above it.
LEMMA FreedEmpty ==
  ASSUME NEW r \in Registries, WellFormed(r)
  PROVE  Freed(r) = ZeroedRegistry
<1>1. \A i \in Ids : i < r.counter \/ r.slot[i] = Null
  BY DEF WellFormed, SlotsBelowCounter, Live
<1> QED BY <1>1 DEF Freed, ZeroedRegistry, EmptySlots

\* The registry before any call, and the one that init_lambda_registry leaves.
LEMMA EmptyWellFormed ==
  /\ ZeroedRegistry \in Registries /\ WellFormed(ZeroedRegistry)
  /\ \A r \in Registries : Initialised(r) \in Registries /\ WellFormed(Initialised(r))
<1>1. EmptySlots \in [Ids -> Entry \cup {Null}] /\ \A i \in Ids : EmptySlots[i] = Null
  BY DEF EmptySlots
<1>2. ZeroedRegistry \in Registries /\ Live(ZeroedRegistry) = {}
  BY <1>1, RegistryAssumption DEF ZeroedRegistry, Registries, Live
<1>3. ASSUME NEW r \in Registries PROVE Initialised(r) \in Registries /\ Live(Initialised(r)) = {}
  BY <1>1, <1>3 DEF Initialised, Registries, Live
<1> QED BY <1>2, <1>3 DEF WellFormed, SlotsBelowCounter, NamesUnique
=============================================================================
