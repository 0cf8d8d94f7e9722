------------------------------ MODULE Registry ------------------------------
(***************************************************************************)
(* The lambda registry of protocol/lambda_registry.c as operators on a     *)
(* registry value r, a record of the static array `lambda_registry` (slot) *)
(* and the static `lambda_counter` (counter).  The board and the Linux     *)
(* connector each link their own copy of this code, so the modules that    *)
(* model them apply these operators to a variable of their own.            *)
(***************************************************************************)
EXTENDS Integers

CONSTANTS
  MaxLambdas,   \* MAX_LAMBDAS, the length of the array (255)
  SignBit,      \* the smallest lambda_id_t that an int8_t reads as negative (128)
  ShortNames,   \* alphanumeric names of 1 to 11 characters
  FullNames,    \* alphanumeric names of exactly MAX_LAMBDA_NAME_LENGTH characters
  BadNames,     \* names that are empty, too long or not alphanumeric
  Types,        \* the RS_LAMBDA_* constants in use
  Policies,     \* the RS_CACHE_* constants in use
  Args,         \* values of lambda_arg
  Null          \* the NULL pointer

ASSUME RegistryAssumption ==
  /\ MaxLambdas \in Nat \ {0}
  /\ SignBit \in Nat \ {0}
  /\ MaxLambdas < 2 * SignBit
  /\ ShortNames \cap FullNames = {}
  /\ BadNames \cap (ShortNames \cup FullNames) = {}

Ids == 0 .. MaxLambdas - 1
Names == ShortNames \cup FullNames \cup BadNames

(***************************************************************************)
(* RS_REGISTER_* and RS_UNREGISTER_*.                                      *)
(***************************************************************************)
RegisterInvalName    == -1
RegisterDuplicate    == -2
RegisterLimitReached == -3
RegisterNoMem        == -4
RegisterInvalParam   == -5
UnregisterSuccess    == 0
UnregisterNotFound   == -1

(***************************************************************************)
(* rs_registered_lambda.  A pointer to it is the entry itself or Null: the *)
(* registry is the only owner and no field changes after registration.     *)
(***************************************************************************)
Entry == [id     : Ids,
          name   : ShortNames \cup FullNames,
          type   : Types,
          cache  : Policies,
          arg    : Args]

(***************************************************************************)
(* NULL is not an entry (for TLAPS, which knows nothing of model values).  *)
(***************************************************************************)
ASSUME NullAssumption == Null \notin Entry

Registries == [slot : [Ids -> Entry \cup {Null}], counter : 0 .. MaxLambdas]

EmptySlots == [i \in Ids |-> Null]

\* The static storage before any call.
ZeroedRegistry == [slot |-> EmptySlots, counter |-> 0]

-----------------------------------------------------------------------------
(***************************************************************************)
(* Lookups.                                                                *)
(***************************************************************************)
Live(r) == {i \in Ids : r.slot[i] # Null}

ById(r, id) ==
  IF id >= MaxLambdas \/ id >= r.counter THEN Null ELSE r.slot[id]

(***************************************************************************)
(* strcmp(entry->name, n) = 0.  The field is char[12] and `type` is the    *)
(* byte behind it, so a name that fills the field is read on into the type *)
(* byte (never 0) and equals no string.                                    *)
(***************************************************************************)
NameEquals(e, n) == e.name = n /\ e.name \notin FullNames

\* Mutant: the loop stops one short of the last entry.
HitsButLast(r, n) ==
  {i \in Ids : i < r.counter - 1 /\ r.slot[i] # Null /\ NameEquals(r.slot[i], n)}

Hits(r, n) ==
  {i \in Ids : i < r.counter /\ r.slot[i] # Null /\ NameEquals(r.slot[i], n)}

\* The first match in index order.
ByName(r, n) ==
  IF Hits(r, n) = {} THEN Null
  ELSE r.slot[CHOOSE i \in Hits(r, n) : \A j \in Hits(r, n) : i <= j]

-----------------------------------------------------------------------------
(***************************************************************************)
(* Registering.  RegisterFailure is the first check that fails, in the     *)
(* order of the code, or 0; oom says whether malloc fails.                 *)
(***************************************************************************)
\* Mutant: one registration too many.
RegisterFailureLate(r, n, oom) ==
  IF r.counter > MaxLambdas       THEN RegisterLimitReached
  ELSE IF n \in BadNames          THEN RegisterInvalName
  ELSE IF ByName(r, n) # Null     THEN RegisterDuplicate
  ELSE IF oom                     THEN RegisterNoMem
  ELSE 0

RegisterFailure(r, n, oom) ==
  IF r.counter >= MaxLambdas      THEN RegisterLimitReached
  ELSE IF n \in BadNames          THEN RegisterInvalName
  ELSE IF ByName(r, n) # Null     THEN RegisterDuplicate
  ELSE IF oom                     THEN RegisterNoMem
  ELSE 0

\* `return myid;` from a function that returns int8_t.
AsInt8(id) == IF id < SignBit THEN id ELSE id - 2 * SignBit

RegisterResult(r, n, oom) ==
  IF RegisterFailure(r, n, oom) # 0 THEN RegisterFailure(r, n, oom)
  ELSE AsInt8(r.counter)

\* Mutant: a new lambda takes the first hole.
RegisteredInHole(r, n, t, c, a, oom) ==
  IF RegisterFailure(r, n, oom) # 0 THEN r
  ELSE LET i == CHOOSE i \in Ids : r.slot[i] = Null /\ \A j \in 0 .. i - 1 : r.slot[j] # Null
       IN  [slot    |-> [r.slot EXCEPT ![i] =
                           [id |-> i, name |-> n, type |-> t, cache |-> c, arg |-> a]],
            counter |-> IF i < r.counter THEN r.counter ELSE i + 1]

Registered(r, n, t, c, a, oom) ==
  IF RegisterFailure(r, n, oom) = RegisterNoMem
  THEN [r EXCEPT !.slot[r.counter] = Null]
  ELSE IF RegisterFailure(r, n, oom) # 0 THEN r
  ELSE [slot    |-> [r.slot EXCEPT ![r.counter] =
                       [id |-> r.counter, name |-> n, type |-> t, cache |-> c, arg |-> a]],
        counter |-> r.counter + 1]

UnregisterResult(r, id) ==
  IF ById(r, id) = Null THEN UnregisterNotFound ELSE UnregisterSuccess

\* Mutant: unregistering gives the id back.
UnregisteredRecycled(r, id) ==
  IF ById(r, id) = Null THEN r
  ELSE [slot |-> [r.slot EXCEPT ![id] = Null], counter |-> r.counter - 1]

Unregistered(r, id) ==
  IF ById(r, id) = Null THEN r ELSE [r EXCEPT !.slot[id] = Null]

\* Mutant: the entries are freed but their pointers stay.
FreedDangling(r) == [r EXCEPT !.counter = 0]

\* free_lambda_registry: only the slots below the counter are visited.
Freed(r) ==
  [slot |-> [i \in Ids |-> IF i < r.counter THEN Null ELSE r.slot[i]], counter |-> 0]

\* init_lambda_registry: the pointers go, the counter stays.
Initialised(r) == [r EXCEPT !.slot = EmptySlots]

-----------------------------------------------------------------------------
(***************************************************************************)
(* What every sequence of these operations keeps: an entry sits in the     *)
(* slot of its own id, below the counter, and no two live lambdas have the *)
(* same name unless the name fills its field, where the duplicate check    *)
(* does not see it.                                                        *)
(***************************************************************************)
SlotsBelowCounter(r) ==
  \A i \in Live(r) : i < r.counter /\ r.slot[i].id = i

NamesUnique(r) ==
  \A i, j \in Live(r) :
    (r.slot[i].name = r.slot[j].name /\ r.slot[i].name \notin FullNames) => i = j

WellFormed(r) == SlotsBelowCounter(r) /\ NamesUnique(r)
=============================================================================
