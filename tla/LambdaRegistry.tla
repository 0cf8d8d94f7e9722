--------------------------- MODULE LambdaRegistry ---------------------------
(***************************************************************************)
(* The registry as a machine: one process calls the functions of           *)
(* lambda_registry.h in any order.                                         *)
(***************************************************************************)
EXTENDS Registry

VARIABLES
  reg,      \* lambda_registry[] and lambda_counter
  result    \* what the last call returned, 0 for a void function

vars == <<reg, result>>

Init == reg = ZeroedRegistry /\ result = 0

lambda_registry_register(n, t, c, a, oom) ==
  /\ reg' = Registered(reg, n, t, c, a, oom)
  /\ result' = RegisterResult(reg, n, oom)

lambda_registry_unregister(id) ==
  /\ reg' = Unregistered(reg, id)
  /\ result' = UnregisterResult(reg, id)

free_lambda_registry == reg' = Freed(reg) /\ result' = 0

init_lambda_registry == reg' = Initialised(reg) /\ result' = 0

\* An id is any lambda_id_t; MaxLambdas stands for those past the array.
Next ==
  \/ \E n \in Names, t \in Types, c \in Policies, a \in Args, oom \in BOOLEAN :
        lambda_registry_register(n, t, c, a, oom)
  \/ \E id \in 0 .. MaxLambdas : lambda_registry_unregister(id)
  \/ free_lambda_registry
  \/ init_lambda_registry

Spec == Init /\ [][Next]_vars

-----------------------------------------------------------------------------
(***************************************************************************)
(* TypeOK: the array holds entries or NULL, the counter stays in range and *)
(* what a call returns fits an int8_t.                                     *)
(***************************************************************************)
TypeOK == reg \in Registries /\ result \in -2 * SignBit - 5 .. SignBit

(***************************************************************************)
(* Consistent: an entry sits in the slot of its own id, below the counter, *)
(* and its name is taken once.  So no lookup misses a live lambda (both    *)
(* stop at the counter), free_lambda_registry leaks none, and a            *)
(* registration overwrites none, whatever was wiped, freed or refilled     *)
(* before.                                                                 *)
(***************************************************************************)
Consistent == WellFormed(reg)

(***************************************************************************)
(* LookupsAgree: after any sequence of calls, the lambda that a name finds *)
(* is the only live one of that name, and its id finds the same lambda.    *)
(* Every caller of call_lambda_*_by_name resolves the name to an id first  *)
(* and looks the id up again.                                              *)
(***************************************************************************)
LookupsAgree ==
  \A n \in ShortNames :
    \A i \in Live(reg) :
      reg.slot[i].name = n =>
        /\ ByName(reg, n) = reg.slot[i]
        /\ ById(reg, ByName(reg, n).id) = ByName(reg, n)

(***************************************************************************)
(* Implements: the array and its counter implement the directory.  Fails   *)
(* if an id is reused, a duplicate gets in, or an operation touches a      *)
(* lambda other than its own.                                              *)
(***************************************************************************)
Directory == INSTANCE LambdaDirectory WITH
  Lambdas  <- Entry,
  Findable <- ShortNames,
  dir      <- reg.slot,
  issued   <- 0 .. reg.counter - 1

Implements == Directory!Spec

(***************************************************************************)
(* What the documentation says and the code does not do.                   *)
(***************************************************************************)

\* lambda_registry.h:110 - "A value greater/equals to zero containing the new
\* ID on success, a negative RS_REGISTER_* value on failure".
NegativeMeansFailure ==
  [][reg'.counter > reg.counter => result' >= 0]_vars

\* rs_constants.h:30 - "A lambda with the given name already exists": no name
\* that was accepted is accepted again while its lambda is registered.
NoNameTwice ==
  \A i, j \in Live(reg) : reg.slot[i].name = reg.slot[j].name => i = j
=============================================================================
