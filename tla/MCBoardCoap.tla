---------------------------- MODULE MCBoardCoap ----------------------------
(***************************************************************************)
(* Two slots, so that the limit is reached and ids are used again after a  *)
(* stop, and (lambda_id_t) is a remainder by 3; room for one entry in a    *)
(* listing.                                                                *)
(***************************************************************************)
EXTENDS BoardCoap

CONSTANTS n1, n2, f1

Ask(op, key, type) == [op |-> op, key |-> key, type |-> type]

\* Every endpoint; good and bad types; ids 0 and 1, once as 4 cut to 8 bits and
\* once as -2; a name that may be unknown, one that is missing or too long.
MCRequests ==
  {Ask("fixed", Missing, Missing), Ask("list", Missing, Missing), Ask("list", Missing, "STRING"),
   Ask("list", Missing, UnknownType), Ask("id", 0, "INT"), Ask("id", 4, "STRING"),
   Ask("id", -2, "INT"), Ask("id", Missing, "INT"), Ask("id", 0, Missing),
   Ask("name", n1, "INT"), Ask("name", n2, "STRING"), Ask("name", f1, UnknownType),
   Ask("name", Missing, "INT"), Ask("name", n1, UnknownType)}
MCArgs == {Func, Null}
=============================================================================
