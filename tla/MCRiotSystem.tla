--------------------------- MODULE MCRiotSystem ---------------------------
(***************************************************************************)
(* Instances of the whole system: two ids, two names that can be looked up.*)
(***************************************************************************)
EXTENDS RiotSystem

CONSTANTS n1, n2

MCArgs == (0 .. MaxLambdas - 1) \cup {Func, Null}
\* The byte of malloc that a caller takes for an answer from the cache.
Junk == {CallCache}

ById_(i, t) == [by |-> "id", key |-> i, type |-> t]
ByName_(n, t) == [by |-> "name", key |-> n, type |-> t]
EachId == {ById_(i, t) : i \in Ids, t \in Types}
\* The first lambda by its name, the second by its id.
TwoRequests == {ByName_(n1, "INT"), ById_(1, "STRING")}
FirstInt == {ById_(0, "INT")}
=============================================================================
