-------------------------- MODULE LambdaDirectory --------------------------
(***************************************************************************)
(* What a lambda registry promises its users: a directory from ids to      *)
(* lambdas in which no two lambdas that can be looked up share a name and  *)
(* no id is handed out twice until the directory is cleared.  Which free   *)
(* id a new lambda gets, and in what array it lives, is left open.         *)
(***************************************************************************)
CONSTANTS Ids, Lambdas, Findable, Null   \* a lambda is a record with an id and a name

VARIABLES
  dir,      \* the lambda registered under each id, or Null
  issued    \* the ids handed out since the last Clear

NameFree(d) ==
  d.name \in Findable =>
    \A i \in Ids : dir[i] # Null => dir[i].name # d.name

Add(d) ==
  /\ d.id \notin issued
  /\ NameFree(d)
  /\ dir' = [dir EXCEPT ![d.id] = d]
  /\ issued' = issued \cup {d.id}

Remove(i) ==
  /\ dir[i] # Null
  /\ dir' = [dir EXCEPT ![i] = Null]
  /\ UNCHANGED issued

Nobody == [i \in Ids |-> Null]

\* Every lambda goes, but its id stays used up.
Forget == dir' = Nobody /\ UNCHANGED issued

Clear == dir' = Nobody /\ issued' = {}

Init == dir = Nobody /\ issued = {}

Next ==
  \/ \E d \in Lambdas : Add(d)
  \/ \E i \in Ids : Remove(i)
  \/ Forget
  \/ Clear

Spec == Init /\ [][Next]_<<dir, issued>>
=============================================================================
