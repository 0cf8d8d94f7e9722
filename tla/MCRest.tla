------------------------------- MODULE MCRest -------------------------------
(***************************************************************************)
(* Instances of the REST server with an open peer: two ids, so that a cast *)
(* to lambda_id_t is a remainder by 3.                                     *)
(***************************************************************************)
EXTENDS Rest

CONSTANTS n1, empty

Lambda(n, t, c) == [name |-> n, type |-> t, cache |-> c]
Ask(to, op, form, key, type) == [to |-> to, op |-> op, form |-> form, key |-> key, type |-> type]

MCArgs == 0 .. MaxLambdas - 1
\* The byte of malloc that a caller takes for an answer from the cache.
Junk == {CallCache}

\* What the connector is asked for by the requests below.
MCRequests == Request
\* One name, which comes back with another type after it has been unregistered.
MCOffers == {Lambda(n1, "INT", "ON_TIMEOUT"), Lambda(n1, "STRING", "NO_CACHE")}

\* HTTP: a type that is refused and then called with or listed, the end.  CoAP: a
\* call that is carried out, its id cut to 8 bits, an id that is none, a listing of
\* cached values, what is refused or makes the handler throw.
MCAsks == {
  Ask(HttpThread, "name", "good", n1, UnknownType),
  Ask(HttpThread, "list", "good", Null, UnknownType),
  Ask(HttpThread, "kill", "good", Null, "missing"),
  Ask(CoapThread, "id", "good", 3, "INT"),
  Ask(CoapThread, "id", "good", -1, "INT"),
  Ask(CoapThread, "id", "huge", 0, "INT"),
  Ask(CoapThread, "cache", "good", Null, "INT"),
  Ask(CoapThread, "cache", "good", Null, "bare"),
  Ask(CoapThread, "cache", "good", Null, UnknownType),
  Ask(CoapThread, "kill", "good", Null, "missing")}
=============================================================================
