-------------------------- MODULE MCConnectorPeer --------------------------
(***************************************************************************)
(* Instances of the connector with an open peer.                           *)
(***************************************************************************)
EXTENDS ConnectorPeer, TLC

CONSTANTS n1, f1

\* No definition tells one caller from another.
CallerSymmetry == Permutations(Callers)

Lambda(n, t, c) == [name |-> n, type |-> t, cache |-> c]
ById_(i, t) == [by |-> "id", key |-> i, type |-> t]
ByName_(n, t) == [by |-> "name", key |-> n, type |-> t]

MCArgs == 0 .. MaxLambdas - 1

\* One lambda, of any policy and type, or one that cannot be mirrored.
AnyLambda == {Lambda(n1, "INT", c) : c \in AllPolicies}
               \cup {Lambda(n1, "STRING", "ON_TIMEOUT"), Lambda(f1, "INT", "NO_CACHE")}
\* One type, so that a STRING lambda is called with the wrong one.
NamedRequest == {ByName_(n1, "INT")}
OneRequest == {ById_(0, "INT")}
\* What malloc may leave in last_call_error: any byte, of which these are nothing,
\* a code of a call from the cache, one of the board's and one that is none.
Junk == {0, CallCache, CallNotFound, 42}
NoCacheOnly == {Lambda(n1, "INT", "NO_CACHE")}
=============================================================================
