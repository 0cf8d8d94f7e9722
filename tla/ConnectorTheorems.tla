-------------------------- MODULE ConnectorTheorems --------------------------
(***************************************************************************)
(* What every step of the connector keeps, for any number of callers and   *)
(* lambdas and whatever the other end of the line sends.  ConnectorInv is  *)
(* inductive.  Its heart is Held: a call that has found its lambda keeps   *)
(* an id below the counter, so that a registration, which takes the id at  *)
(* the counter, cannot put another lambda under it.  What the memory of an *)
(* entry that has been given back holds is left open.                      *)
(***************************************************************************)
EXTENDS Connector, RegistryTheorems

\* What the peer sends and what it is sent.
Registrations   == [ptype : {"REGISTERED"}, layout : {"REGISTERED"},
                    name : Names, type : Types, cache : Policies]
Unregistrations == [ptype : {"UNREGISTERED"}, layout : {"UNREGISTERED"},
                    id : Ids, name : Names]
Mislabelled     == [ptype : {"REGISTERED"}, layout : {"UNREGISTERED"},
                    id : Ids, name : Names]
Results         == [ptype : {"RESULT"}, layout : {"RESULT"},
                    type : Types, id : Ids, name : Names, value : Nat \ {0}]
ErrorsFor(ids)  == [ptype : {"RESULT_ERROR"}, layout : {"RESULT_ERROR"},
                    id : ids, code : -128 .. 127]
Errors == ErrorsFor(Ids)
FromPeer ==
  Registrations \cup Unregistrations \cup Mislabelled \cup Results
    \cup ErrorsFor(0 .. MaxLambdas)

\* A type the board does not know reaches it as a byte like any other.
CallTypes   == Types \cup {UnknownType}
CallsById   == [ptype : {"CALL_BY_ID"}, id : 0 .. MaxLambdas, type : CallTypes]
CallsByName == [ptype : {"CALL_BY_NAME"}, name : Names, type : CallTypes]
ToPeer == CallsById \cup CallsByName

\* The packet that each step of the libspt thread is about.
RxOf(pcs, packets) == [pc : pcs, pkt : packets]
RxStates ==
  RxOf({"idle"}, {Null})
    \cup RxOf({"destroy", "clear"}, Unregistrations)
    \cup RxOf({"free", "store", "noerror", "cached"}, Results)
    \cup RxOf({"error"}, Errors)
    \cup RxOf({"broadcast"}, Results \cup Errors)

\* The entry of lambda id has not been given back (the negation of Gone).
Firm(r, x, id) == r.slot[id] # Null /\ ~(x.pc = "clear" /\ x.pkt.id = id)

\* From its lookup on a call holds on to the lambda it found, from its wait on
\* to the args object it read there, and from beginning to end to its request.
Committed == CallPcs \ {"idle", "lock", "lookup"}
Waited    == {"waiting", "woken", "timedout", "take", "late", "error", "clear", "fallback"}

Held(r, k) ==
  /\ k.pc # "idle" => k.req \in Requests
  /\ k.id # Null => k.id \in Ids /\ k.id < r.counter
  /\ k.arg # Null => k.arg \in Ids /\ k.arg < r.counter
  /\ k.pc \in Committed => k.id # Null
  /\ k.pc \in Waited => k.arg # Null

Checked(r, x, k) ==
  (k.pc = "send" /\ Firm(r, x, k.id)) => r.slot[k.id].cache # "CACHE_ONLY"

CallsInv ==
  /\ calls \in [Callers -> Calls]
  /\ owner \in Callers \cup {Null}
  /\ MutexHeld
  /\ \A c \in Callers : Held(lreg, calls[c]) /\ Checked(lreg, rx, calls[c])

SharedInv ==
  /\ lreg \in Registries /\ WellFormed(lreg)
  /\ args \in [Ids -> Arguments]
  /\ rx \in RxStates

LineInv ==
  /\ toLinux \in Seq(FromPeer)
  /\ toBoard \in Seq(ToPeer)
  /\ produced \in Nat

ConnectorInv == CallsInv /\ SharedInv /\ LineInv

-----------------------------------------------------------------------------
(***************************************************************************)
(* Lookups of a registry.                                                  *)
(***************************************************************************)
\* Looking up by name or by id gives a live entry, stored under its own id.
LEMMA LookupFinds ==
  ASSUME NEW r \in Registries, WellFormed(r)
  PROVE  /\ \A n : ByName(r, n) # Null =>
               /\ ByName(r, n) \in Entry
               /\ ByName(r, n).id \in Ids /\ ByName(r, n).id < r.counter
               /\ r.slot[ByName(r, n).id] = ByName(r, n)
         /\ \A id \in Nat : ById(r, id) # Null =>
               /\ ById(r, id) \in Entry
               /\ id \in Ids /\ ById(r, id).id = id /\ id < r.counter
               /\ r.slot[id] = ById(r, id)
<1>1. ASSUME NEW n, ByName(r, n) # Null
      PROVE  \E i \in Live(r) : ByName(r, n) = r.slot[i]
  <2>1. PICK i \in Hits(r, n) : TRUE
    BY <1>1 DEF ByName
  <2>2. ByName(r, n) = r.slot[i]
    BY <2>1, ByNameFinds
  <2> QED BY <2>1, <2>2 DEF Hits, Live
<1>2. ASSUME NEW i \in Live(r)
      PROVE  r.slot[i] \in Entry /\ r.slot[i].id = i /\ i \in Ids /\ i < r.counter
  BY <1>2 DEF Live, Registries, WellFormed, SlotsBelowCounter
<1>3. ASSUME NEW id \in Nat, ById(r, id) # Null
      PROVE  id \in Live(r) /\ ById(r, id) = r.slot[id]
  BY <1>3, RegistryAssumption DEF ById, Live, Ids, Registries
<1> QED BY <1>1, <1>2, <1>3

\* A registration that changes the registry takes the id at the counter and
\* leaves every id below it alone.
LEMMA RegisteredAtCounter ==
  ASSUME NEW r \in Registries, WellFormed(r), NEW n \in Names, NEW t \in Types,
         NEW c \in Policies, NEW oom \in BOOLEAN, r.counter \in Ids => r.counter \in Args,
         NEW s, s = Registered(r, n, t, c, r.counter, oom)
  PROVE  /\ s \in Registries /\ WellFormed(s)
         /\ r.counter <= s.counter
         /\ \A i \in Ids : i < r.counter => s.slot[i] = r.slot[i]
<1>1. r.counter \in Int /\ \A i \in Ids : i \in Int
  BY RegistryAssumption DEF Registries, Ids
<1>2. CASE r.counter \in Ids
  <2>1. s \in Registries /\ WellFormed(s)
    BY <1>2, RegisteredWellFormed
  <2>2. CASE RegisterFailure(r, n, oom) = 0
    <3> DEFINE e == [id |-> r.counter, name |-> n, type |-> t, cache |-> c, arg |-> r.counter]
    <3>1. s = [slot |-> [r.slot EXCEPT ![r.counter] = e], counter |-> r.counter + 1]
      BY <2>2 DEF Registered, RegisterNoMem
    <3>2. \A i \in Ids : s.slot[i] = IF i = r.counter THEN e ELSE r.slot[i]
      BY <3>1 DEF Registries
    <3>3. s.counter = r.counter + 1
      BY <3>1
    <3> HIDE DEF e
    <3> QED BY <1>1, <2>1, <3>2, <3>3
  <2>3. CASE RegisterFailure(r, n, oom) # 0
    <3>1. s = r \/ s = [r EXCEPT !.slot[r.counter] = Null]
      BY <2>3 DEF Registered
    <3>2. s.counter = r.counter /\ \A i \in Ids : i # r.counter => s.slot[i] = r.slot[i]
      BY <3>1 DEF Registries
    <3> QED BY <1>1, <2>1, <3>2
  <2> QED BY <2>2, <2>3
<1>3. CASE r.counter \notin Ids
  <2>1. r.counter >= MaxLambdas
    BY <1>3, RegistryAssumption DEF Registries, Ids
  <2>2. s = r
    BY <2>1 DEF Registered, RegisterFailure, RegisterNoMem, RegisterLimitReached
  <2> QED BY <1>1, <2>2
<1> QED BY <1>2, <1>3

-----------------------------------------------------------------------------
(***************************************************************************)
(* Memory.                                                                 *)
(***************************************************************************)
LEMMA FirmNotGone ==
  \A id : Firm(lreg, rx, id) <=> ~Gone(id)
  BY DEF Firm, Gone

\* A pointer leads to the args object of its lambda or of a later one.
LEMMA LambdasBelow ==
  ASSUME lreg.counter \in Int, NEW id \in Ids, id < lreg.counter
  PROVE  /\ LambdasRead(id) \subseteq {i \in Ids : i < lreg.counter}
         /\ Firm(lreg, rx, id) => LambdasRead(id) = {id}
  BY FirmNotGone DEF LambdasRead

\* A lookup finds an id below the counter, and if the entry is still there it is
\* the one that was asked for.
LEMMA FoundBelow ==
  ASSUME lreg \in Registries, WellFormed(lreg), NEW q \in Request,
         NEW id \in Found(q), id # Null
  PROVE  /\ id \in Ids /\ id < lreg.counter
         /\ q.by = "id" => id = q.key
         /\ (q.by # "id" /\ Firm(lreg, rx, id)) => NameEquals(lreg.slot[id], q.key)
<1>1. CASE q.by = "id"
  <2>1. q.key \in Nat /\ id = q.key /\ ById(lreg, q.key) # Null
    BY <1>1, RegistryAssumption DEF Request, Found
  <2> QED BY <1>1, <2>1, LookupFinds
<1>2. CASE q.by # "id"
  <2>1. \/ id \in Hits(lreg, q.key)
        \/ id \in Ids /\ id < lreg.counter /\ Gone(id)
    BY <1>2 DEF Found
  <2> QED BY <1>2, <2>1, FirmNotGone DEF Hits
<1> QED BY <1>1, <1>2

-----------------------------------------------------------------------------
(***************************************************************************)
(* The callers.                                                            *)
(***************************************************************************)
\* A call begins, whenever its caller thinks it did.
Begins(c) == \E q \in Requests, n \in Nat : BeginWith(c, q, n)

CallerStep(c) == Begins(c) \/ CallStep(c) \/ Timeout(c) \/ SpuriousWakeup(c) \/ Stray(c)

\* What a caller leaves alone.
LEMMA CallerLeaves ==
  ASSUME NEW c \in Callers, CallerStep(c)
  PROVE  /\ lreg' = lreg /\ rx' = rx /\ produced' = produced /\ toLinux' = toLinux
         /\ ~ClearError(c) => args' = args
         /\ ~Send(c) => toBoard' = toBoard
<1> USE DEF line
<1>1. CASE Begins(c) \/ Timeout(c) \/ SpuriousWakeup(c) \/ Stray(c)
  BY <1>1 DEF Begins, BeginWith, Timeout, SpuriousWakeup, Stray
<1>2. CASE Lock(c) \/ Lookup(c) \/ CheckType(c) \/ CheckCache(c) \/ Send(c) \/ Wait(c)
  BY <1>2 DEF Lock, Lookup, CheckType, CheckCache, Send, Wait
<1>3. CASE Relock(c) \/ TakeResult(c) \/ LookForError(c) \/ ReadError(c) \/ ClearError(c)
             \/ FallBack(c)
  BY <1>3 DEF Relock, TakeResult, LookForError, ReadError, ClearError, FallBack
<1> QED BY <1>1, <1>2, <1>3 DEF CallerStep, CallStep

\* One caller moves to k and takes, keeps or gives up the lock as k.pc demands.
LEMMA OneCaller ==
  ASSUME CallsInv, NEW c \in Callers, NEW k \in Calls,
         calls' = [calls EXCEPT ![c] = k], lreg' = lreg, rx' = rx,
         Held(lreg, k), Checked(lreg, rx, k),
         \/ owner' = owner /\ (k.pc \in Critical <=> calls[c].pc \in Critical)
         \/ owner = Null /\ owner' = c /\ k.pc \in Critical
         \/ calls[c].pc \in Critical /\ owner' = Null /\ k.pc \notin Critical
  PROVE  CallsInv'
<1> USE DEF CallsInv
<1>1. calls' \in [Callers -> Calls]
  OBVIOUS
<1>2. \A d \in Callers : calls'[d] = IF d = c THEN k ELSE calls[d]
  OBVIOUS
<1>3. owner' \in Callers \cup {Null}
  OBVIOUS
<1>4. MutexHeld'
  BY <1>2, ConnectorAssumption DEF MutexHeld
<1>5. \A d \in Callers : Held(lreg, calls'[d]) /\ Checked(lreg, rx, calls'[d])
  BY <1>2
<1>6. (\A d \in Callers : Held(lreg, calls[d]) /\ Checked(lreg, rx, calls[d]))'
  BY <1>5 DEF Held, Checked, Firm
<1> QED BY <1>1, <1>3, <1>4, <1>6

\* A caller that only moves on: to pc, with the lock as before.
LEMMA MovesOn ==
  ASSUME CallsInv, NEW c \in Callers, NEW pc \in CallPcs, Goto(c, pc),
         owner' = owner, lreg' = lreg, rx' = rx, calls[c].pc # "idle",
         pc \in Critical <=> calls[c].pc \in Critical,
         pc \in Committed => calls[c].pc \in Committed,
         pc \in Waited => calls[c].pc \in Waited,
         pc = "send" => Checked(lreg, rx, [calls[c] EXCEPT !.pc = "send"])
  PROVE  CallsInv'
<1> DEFINE k == [calls[c] EXCEPT !.pc = pc]
<1>1. calls[c] \in Calls /\ Held(lreg, calls[c])
  BY DEF CallsInv
<1>2. k \in Calls /\ k.pc = pc /\ k.id = calls[c].id /\ k.req = calls[c].req /\ k.arg = calls[c].arg
  BY <1>1 DEF Calls
<1>3. calls' = [calls EXCEPT ![c] = k]
  BY DEF Goto, CallsInv
<1>4. Held(lreg, k)
  BY <1>1, <1>2 DEF Held
<1>5. Checked(lreg, rx, k)
  BY <1>2 DEF Checked
<1> HIDE DEF k
<1> QED BY <1>2, <1>3, <1>4, <1>5, OneCaller

\* A caller that returns gives up the lock that it holds.
LEMMA Returns ==
  ASSUME CallsInv, NEW c \in Callers, NEW code \in -128 .. 127, NEW value \in Values,
         NEW a, a = calls[c].arg \/ (a \in Ids /\ a < lreg.counter),
         ReturnFrom(c, a, code, value), lreg' = lreg, rx' = rx, calls[c].pc \in Critical
  PROVE  CallsInv'
<1> DEFINE k == [calls[c] EXCEPT !.pc = "idle", !.req = Null, !.arg = a,
                                 !.code = code, !.value = value]
<1>1. calls[c] \in Calls /\ Held(lreg, calls[c])
  BY DEF CallsInv
<1>2. a \in Ids \cup {Null}
  BY <1>1 DEF Calls
<1>3. k \in Calls /\ k.pc = "idle" /\ k.id = calls[c].id /\ k.arg = a
  BY <1>1, <1>2 DEF Calls, CallPcs
<1>4. calls' = [calls EXCEPT ![c] = k]
  BY DEF ReturnFrom, CallsInv
<1>5. owner' = Null
  BY DEF ReturnFrom
<1>6. Held(lreg, k) /\ Checked(lreg, rx, k)
  BY <1>1, <1>3 DEF Held, Checked, Committed, Waited
<1> HIDE DEF k
<1>7. k.pc \notin Critical
  BY <1>3 DEF Critical
<1> QED BY <1>3, <1>4, <1>5, <1>6, <1>7, OneCaller

\* What a caller that has waited reads.
LEMMA ArgTyped ==
  ASSUME CallsInv, SharedInv, NEW c \in Callers, calls[c].pc \in Waited
  PROVE  /\ calls[c].arg \in Ids
         /\ args[calls[c].arg].ret \in Values
         /\ args[calls[c].arg].err \in -128 .. 127
         /\ args[calls[c].arg].raw \in BOOLEAN
<1>1. calls[c].arg \in Ids
  BY DEF CallsInv, Held
<1> QED BY <1>1 DEF SharedInv, Arguments

\* Writing an args object keeps its type, whatever an error and a value may be.
ArgumentsOf(errors, values) ==
  [cached : BOOLEAN, err : errors, raw : BOOLEAN, ret : values]

LEMMA FieldsWritten ==
  ASSUME NEW errors, NEW values, NEW a \in ArgumentsOf(errors, values)
  PROVE  /\ \A e \in errors : [a EXCEPT !.err = e, !.raw = FALSE] \in ArgumentsOf(errors, values)
         /\ \A v \in values : [a EXCEPT !.ret = v] \in ArgumentsOf(errors, values)
         /\ [a EXCEPT !.cached = TRUE] \in ArgumentsOf(errors, values)
<1>1. ASSUME NEW e \in errors
      PROVE  [a EXCEPT !.err = e, !.raw = FALSE] \in ArgumentsOf(errors, values)
  BY DEF ArgumentsOf
<1>2. ASSUME NEW v \in values
      PROVE  [a EXCEPT !.ret = v] \in ArgumentsOf(errors, values)
  BY DEF ArgumentsOf
<1>3. [a EXCEPT !.cached = TRUE] \in ArgumentsOf(errors, values)
  BY DEF ArgumentsOf
<1> QED BY <1>1, <1>2, <1>3

\* Writing one args object keeps the type of them all.
LEMMA ArgWritten ==
  ASSUME args \in [Ids -> Arguments], NEW id \in Ids
  PROVE  /\ \A e \in -128 .. 127 :
              [args EXCEPT ![id].err = e, ![id].raw = FALSE] \in [Ids -> Arguments]
         /\ \A v \in Values : [args EXCEPT ![id].ret = v] \in [Ids -> Arguments]
         /\ [args EXCEPT ![id].cached = TRUE] \in [Ids -> Arguments]
<1> DEFINE errors == -128 .. 127
<1>1. /\ args[id] \in ArgumentsOf(errors, Values)
      /\ Arguments = ArgumentsOf(errors, Values)
  BY DEF Arguments, ArgumentsOf
<1> HIDE DEF errors
<1>2. /\ \A e \in errors : [args[id] EXCEPT !.err = e, !.raw = FALSE] \in Arguments
      /\ \A v \in Values : [args[id] EXCEPT !.ret = v] \in Arguments
      /\ [args[id] EXCEPT !.cached = TRUE] \in Arguments
  BY <1>1, FieldsWritten
<1>3. \A e \in -128 .. 127 : [args[id] EXCEPT !.err = e, !.raw = FALSE] \in Arguments
  BY <1>2 DEF errors
<1>4. ASSUME NEW e \in -128 .. 127
      PROVE  [args EXCEPT ![id].err = e, ![id].raw = FALSE]
               = [args EXCEPT ![id] = [args[id] EXCEPT !.err = e, !.raw = FALSE]]
  OBVIOUS
<1>5. \A e \in -128 .. 127 :
        [args EXCEPT ![id].err = e, ![id].raw = FALSE] \in [Ids -> Arguments]
  BY <1>3, <1>4
<1> QED BY <1>2, <1>5

LEMMA CodesTyped ==
  /\ CallSuccess \in -128 .. 127 /\ CallCache \in -128 .. 127
  /\ CallCacheTimeout \in -128 .. 127 /\ CallNotFound \in -128 .. 127
  /\ CallWrongType \in -128 .. 127 /\ CallTimeout \in -128 .. 127
  /\ CallCacheEmpty \in -128 .. 127 /\ CallCacheTimeoutEmpty \in -128 .. 127
  /\ NoValue \in Values /\ Dangling \in Values
  BY DEF CallSuccess, CallCache, CallCacheTimeout, CallNotFound, CallWrongType,
         CallTimeout, CallCacheEmpty, CallCacheTimeoutEmpty, NoValue, Dangling, Values

LEMMA BeginsInv ==
  ASSUME CallsInv, NEW c \in Callers, NEW q \in Requests, NEW n \in Nat, BeginWith(c, q, n)
  PROVE  CallsInv'
<1> DEFINE k == [NoCall EXCEPT !.pc = "lock", !.req = q, !.since = n]
<1>1. calls' = [calls EXCEPT ![c] = k] /\ owner' = owner /\ lreg' = lreg /\ rx' = rx
  BY DEF BeginWith
<1>2. k \in Calls /\ k.pc = "lock" /\ k.req \in Requests /\ k.id = Null /\ k.arg = Null
  BY CodesTyped DEF NoCall, Calls, CallPcs
<1>3. Held(lreg, k) /\ Checked(lreg, rx, k)
  BY <1>2 DEF Held, Checked, Committed, Waited
<1>4. k.pc \notin Critical /\ calls[c].pc \notin Critical
  BY <1>2 DEF BeginWith, At, Critical
<1> HIDE DEF k
<1> QED BY <1>1, <1>2, <1>3, <1>4, OneCaller

LEMMA BeginInv ==
  ASSUME CallsInv, NEW c \in Callers, Begins(c)
  PROVE  CallsInv'
  BY BeginsInv DEF Begins

\* Lock and Relock: nobody has the lock, and c gets it.
LEMMA Locks ==
  ASSUME CallsInv, NEW c \in Callers, NEW pc \in Critical \ {"send"}, Goto(c, pc),
         owner = Null, owner' = c, lreg' = lreg, rx' = rx, calls[c].pc # "idle",
         pc \in Committed => calls[c].pc \in Committed,
         pc \in Waited => calls[c].pc \in Waited
  PROVE  CallsInv'
<1> DEFINE k == [calls[c] EXCEPT !.pc = pc]
<1>1. calls[c] \in Calls /\ Held(lreg, calls[c])
  BY DEF CallsInv
<1>2. k \in Calls /\ k.pc = pc /\ k.id = calls[c].id /\ k.req = calls[c].req /\ k.arg = calls[c].arg
  BY <1>1 DEF Calls, Critical, CallPcs
<1>3. calls' = [calls EXCEPT ![c] = k]
  BY DEF Goto, CallsInv
<1>4. Held(lreg, k) /\ Checked(lreg, rx, k)
  BY <1>1, <1>2 DEF Held, Checked
<1> HIDE DEF k
<1> QED BY <1>2, <1>3, <1>4, OneCaller

LEMMA LookupInv ==
  ASSUME CallsInv, SharedInv, NEW c \in Callers, Lookup(c)
  PROVE  CallsInv'
<1>1. /\ calls[c].pc = "lookup" /\ calls[c].pc \in Critical /\ calls[c] \in Calls
      /\ lreg' = lreg /\ rx' = rx /\ Held(lreg, calls[c])
  BY DEF Lookup, At, Critical, CallsInv
<1>2. CASE Return(c, CallNotFound, NoValue)
  BY <1>1, <1>2, CodesTyped, Returns DEF Return
<1>3. ASSUME NEW id \in Found(calls[c].req), id # Null, UNCHANGED owner,
             calls' = [calls EXCEPT ![c].pc = "type", ![c].id = id]
      PROVE  CallsInv'
  <2> DEFINE k == [calls[c] EXCEPT !.pc = "type", !.id = id]
  <2>1. calls[c].req \in Request
    BY <1>1, ConnectorAssumption DEF Held
  <2>2. id \in Ids /\ id < lreg.counter
    BY <1>3, <2>1, FoundBelow DEF SharedInv
  <2>3. /\ k \in Calls /\ k.pc = "type" /\ k.id = id
        /\ k.req = calls[c].req /\ k.arg = calls[c].arg
    BY <1>1, <2>2 DEF Calls, CallPcs
  <2>4. calls' = [calls EXCEPT ![c] = k]
    BY <1>3 DEF CallsInv
  <2>5. Held(lreg, k) /\ Checked(lreg, rx, k)
    BY <1>1, <1>3, <2>2, <2>3 DEF Held, Checked, Waited
  <2> HIDE DEF k
  <2>6. k.pc \in Critical
    BY <2>3 DEF Critical
  <2> QED BY <1>1, <1>3, <2>3, <2>4, <2>5, <2>6, OneCaller
<1> QED BY <1>2, <1>3 DEF Lookup

\* At "type" and at "cache" a call has its lambda and the lock.
LEMMA CheckTypeInv ==
  ASSUME CallsInv, NEW c \in Callers, CheckType(c)
  PROVE  CallsInv'
<1> USE DEF At, Critical, Committed, CallPcs, Waited
<1>1. /\ calls[c].pc = "type" /\ lreg' = lreg /\ rx' = rx
      /\ \/ Return(c, CallWrongType, NoValue)
         \/ Goto(c, "cache") /\ UNCHANGED owner
  BY DEF CheckType
<1>2. CASE Return(c, CallWrongType, NoValue)
  BY <1>1, <1>2, CodesTyped, Returns DEF Return
<1>3. CASE Goto(c, "cache") /\ UNCHANGED owner
  BY <1>1, <1>3, MovesOn
<1> QED BY <1>1, <1>2, <1>3

LEMMA CheckCacheInv ==
  ASSUME CallsInv, SharedInv, NEW c \in Callers, CheckCache(c)
  PROVE  CallsInv'
<1>1. /\ calls[c].pc = "cache" /\ lreg' = lreg /\ rx' = rx
      /\ calls[c].pc \in Critical /\ calls[c].pc \in Committed /\ calls[c] \in Calls
  BY DEF CheckCache, At, Critical, Committed, CallPcs, CallsInv
<1>2. calls[c].id \in Ids /\ calls[c].id < lreg.counter /\ lreg.counter \in Int
  BY <1>1, RegistryAssumption DEF CallsInv, Held, SharedInv, Registries
<1>3. PICK a \in LambdasRead(calls[c].id), policy \in PoliciesRead(calls[c].id) :
        \/ ReturnFrom(c, a, CallCache, args[a].ret)
        \/ Return(c, CallCacheEmpty, NoValue)
        \/ policy # "CACHE_ONLY" /\ Goto(c, "send") /\ UNCHANGED owner
  BY DEF CheckCache
<1>4. a \in Ids /\ a < lreg.counter /\ args[a].ret \in Values
  BY <1>2, <1>3, LambdasBelow DEF SharedInv, Arguments
<1>5. CASE ReturnFrom(c, a, CallCache, args[a].ret)
  BY <1>1, <1>4, <1>5, CodesTyped, Returns
<1>6. CASE Return(c, CallCacheEmpty, NoValue)
  BY <1>1, <1>6, CodesTyped, Returns DEF Return
<1>7. CASE policy # "CACHE_ONLY" /\ Goto(c, "send") /\ UNCHANGED owner
  <2>1. Firm(lreg, rx, calls[c].id) => policy = lreg.slot[calls[c].id].cache
    BY <1>3, FirmNotGone DEF PoliciesRead, PolicyOf
  <2>2. Checked(lreg, rx, [calls[c] EXCEPT !.pc = "send"])
    BY <1>1, <1>7, <2>1 DEF Checked, Calls
  <2>3. "send" \in CallPcs /\ "send" \in Critical /\ "send" \notin Waited
    BY DEF CallPcs, Critical, Waited
  <2> QED BY <1>1, <1>7, <2>2, <2>3, MovesOn
<1> QED BY <1>3, <1>5, <1>6, <1>7

\* Sending, and moving on with nothing but the place in the code.
LEMMA MovingInv ==
  ASSUME CallsInv, NEW c \in Callers,
         Send(c) \/ Stray(c) \/ Timeout(c) \/ SpuriousWakeup(c) \/ LookForError(c)
  PROVE  CallsInv'
<1> USE DEF At, Critical, Committed, CallPcs, Waited
<1>1. CASE Send(c)
  BY <1>1, MovesOn DEF Send
<1>2. CASE Stray(c)
  BY <1>2, MovesOn DEF Stray, Strays
<1>3. CASE Timeout(c)
  BY <1>3, MovesOn DEF Timeout
<1>4. CASE SpuriousWakeup(c)
  BY <1>4, MovesOn DEF SpuriousWakeup
<1>5. CASE LookForError(c)
  <2>1. PICK pc \in {"error", "fallback"} : Goto(c, pc)
    BY <1>5 DEF LookForError
  <2> QED BY <1>5, <2>1, MovesOn DEF LookForError
<1> QED BY <1>1, <1>2, <1>3, <1>4, <1>5

LEMMA LockingInv ==
  ASSUME CallsInv, NEW c \in Callers, Lock(c) \/ Relock(c)
  PROVE  CallsInv'
<1> USE DEF At, Critical, Committed, CallPcs, Waited
<1>1. CASE Lock(c)
  BY <1>1, Locks DEF Lock
<1>2. CASE Relock(c)
  BY <1>2, Locks DEF Relock
<1> QED BY <1>1, <1>2

LEMMA WaitInv ==
  ASSUME CallsInv, SharedInv, NEW c \in Callers, Wait(c)
  PROVE  CallsInv'
<1>1. calls[c] \in Calls /\ Held(lreg, calls[c]) /\ calls[c].pc = "sent"
  BY DEF CallsInv, Wait, At
<1>2. calls[c].id \in Ids /\ calls[c].id < lreg.counter /\ lreg.counter \in Int
  BY <1>1, RegistryAssumption DEF Held, Committed, CallPcs, SharedInv, Registries
<1>3. PICK a \in LambdasRead(calls[c].id) :
        calls' = [calls EXCEPT ![c].pc = "waiting", ![c].arg = a]
  BY DEF Wait
<1>4. a \in Ids /\ a < lreg.counter /\ a # Null
  BY <1>2, <1>3, LambdasBelow, ConnectorAssumption
<1> DEFINE k == [calls[c] EXCEPT !.pc = "waiting", !.arg = a]
<1>5. k \in Calls /\ k.pc = "waiting" /\ k.id = calls[c].id /\ k.req = calls[c].req /\ k.arg = a
  BY <1>1, <1>4 DEF Calls, CallPcs
<1>6. calls' = [calls EXCEPT ![c] = k] /\ owner' = Null /\ lreg' = lreg /\ rx' = rx
  BY <1>3 DEF Wait, CallsInv
<1>7. Held(lreg, k) /\ Checked(lreg, rx, k)
  BY <1>1, <1>4, <1>5 DEF Held, Checked, Committed, CallPcs
<1>8. k.pc \notin Critical /\ calls[c].pc \in Critical
  BY <1>1, <1>5 DEF Critical
<1> HIDE DEF k
<1> QED BY <1>5, <1>6, <1>7, <1>8, OneCaller

LEMMA ReadErrorInv ==
  ASSUME CallsInv, SharedInv, NEW c \in Callers, ReadError(c)
  PROVE  CallsInv'
<1> DEFINE a == args[calls[c].arg]
           k == [calls[c] EXCEPT !.pc = "clear", !.code = a.err, !.raw = a.raw]
<1>1. calls[c] \in Calls /\ Held(lreg, calls[c]) /\ calls[c].pc = "error"
  BY DEF CallsInv, ReadError, At
<1>2. a.err \in -128 .. 127 /\ a.raw \in BOOLEAN
  BY <1>1, ArgTyped DEF Waited
<1>3. calls' = [calls EXCEPT ![c] = k] /\ owner' = owner /\ lreg' = lreg /\ rx' = rx
  BY DEF ReadError, CallsInv
<1> HIDE DEF a
<1>4. k \in Calls /\ k.pc = "clear" /\ k.id = calls[c].id /\ k.req = calls[c].req
        /\ k.arg = calls[c].arg
  BY <1>1, <1>2 DEF Calls, CallPcs
<1>5. Held(lreg, k) /\ Checked(lreg, rx, k)
  BY <1>1, <1>4 DEF Held, Checked, Committed, CallPcs, Waited
<1>6. k.pc \in Critical /\ calls[c].pc \in Critical
  BY <1>1, <1>4 DEF Critical
<1> HIDE DEF k
<1> QED BY <1>3, <1>4, <1>5, <1>6, OneCaller

\* The three ends of wait_lambda_result.
LEMMA EndingInv ==
  ASSUME CallsInv, SharedInv, NEW c \in Callers,
         TakeResult(c) \/ ClearError(c) \/ FallBack(c)
  PROVE  CallsInv'
<1>1. lreg' = lreg /\ rx' = rx /\ calls[c].pc \in Critical /\ calls[c].pc \in Waited
  BY DEF TakeResult, ClearError, FallBack, At, Critical, Waited
<1>2. calls[c].code \in -128 .. 127
  BY DEF CallsInv, Calls
<1>3. \E code \in -128 .. 127, value \in Values : Return(c, code, value)
  <2>1. CASE TakeResult(c)
    BY <1>1, <2>1, ArgTyped, CodesTyped DEF TakeResult
  <2>2. CASE ClearError(c)
    BY <1>2, <2>2, CodesTyped DEF ClearError
  <2>3. CASE FallBack(c)
    BY <1>1, <2>3, ArgTyped, CodesTyped DEF FallBack
  <2> QED BY <2>1, <2>2, <2>3
<1> QED BY <1>1, <1>3, Returns DEF Return

\* What a caller does to the packets and to the shared memory.
LEMMA CallerKeepsRest ==
  ASSUME ConnectorInv, NEW c \in Callers, CallerStep(c)
  PROVE  SharedInv' /\ LineInv'
<1>1. lreg' = lreg /\ rx' = rx /\ produced' = produced /\ toLinux' = toLinux
  BY CallerLeaves
<1>2. args' \in [Ids -> Arguments]
  <2>1. CASE ClearError(c)
    <3>1. /\ args' = [args EXCEPT ![calls[c].arg].err = 0, ![calls[c].arg].raw = FALSE]
          /\ args \in [Ids -> Arguments]
      BY <2>1 DEF ClearError, ConnectorInv, SharedInv
    <3>2. calls[c].arg \in Ids
      BY <2>1, ArgTyped DEF ClearError, At, Waited, ConnectorInv
    <3>3. 0 \in -128 .. 127
      OBVIOUS
    <3> QED BY <3>1, <3>2, <3>3, ArgWritten
  <2>2. CASE ~ClearError(c)
    BY <2>2, CallerLeaves DEF ConnectorInv, SharedInv
  <2> QED BY <2>1, <2>2
<1>3. toBoard' \in Seq(ToPeer)
  <2>1. CASE Send(c)
    <3>1. calls[c].req \in Request
      BY <2>1, ConnectorAssumption DEF Send, At, ConnectorInv, CallsInv, Held
    <3>2. CallPacket(calls[c]) \in ToPeer
      BY <3>1 DEF CallPacket, CallByIdPacket, CallByNamePacket, ToPeer, CallsById,
                  CallsByName, CallTypes, Request
    <3>3. toBoard \in Seq(ToPeer)
      BY DEF ConnectorInv, LineInv
    <3> QED BY <2>1, <3>2, <3>3 DEF Send, SendToBoard, Put
  <2>2. CASE ~Send(c)
    BY <2>2, CallerLeaves DEF ConnectorInv, LineInv
  <2> QED BY <2>1, <2>2
<1>4. WellFormed(lreg)'
  BY <1>1 DEF ConnectorInv, SharedInv, WellFormed, SlotsBelowCounter, NamesUnique, Live
<1> QED BY <1>1, <1>2, <1>3, <1>4 DEF ConnectorInv, SharedInv, LineInv

LEMMA CallerInv ==
  ASSUME ConnectorInv, NEW c \in Callers, CallerStep(c)
  PROVE  ConnectorInv'
<1>1. CallsInv'
  BY BeginInv, LockingInv, LookupInv, CheckTypeInv, CheckCacheInv, MovingInv, WaitInv,
     ReadErrorInv, EndingInv DEF CallerStep, CallStep, ConnectorInv
<1> QED BY <1>1, CallerKeepsRest DEF ConnectorInv

-----------------------------------------------------------------------------
(***************************************************************************)
(* The libspt thread.                                                      *)
(***************************************************************************)
\* Nothing below the counter changes but that entries are given back.
OnlyGrows ==
  /\ lreg.counter <= lreg'.counter
  /\ \A i \in Ids : i < lreg.counter =>
       /\ lreg'.slot[i] \in {Null, lreg.slot[i]}
       /\ Firm(lreg', rx', i) => Firm(lreg, rx, i)

\* A step that touches neither the callers nor the connector's memory.
LEMMA CallersUntouched ==
  ASSUME CallsInv, calls' = calls, owner' = owner, lreg' = lreg, rx' = rx
  PROVE  CallsInv'
  BY DEF CallsInv, MutexHeld, Held, Checked, Firm

\* A registry that stays, as long as nothing is being given back, grows.
LEMMA StaysGrows ==
  ASSUME lreg' = lreg, lreg.counter \in Int, rx.pc # "clear" \/ rx' = rx
  PROVE  OnlyGrows
  BY DEF OnlyGrows, Firm

\* A registry that only grows leaves the held lambdas what they were.
LEMMA RegistryGrows ==
  ASSUME CallsInv, calls' = calls, owner' = owner, lreg.counter \in Int,
         lreg'.counter \in Int, OnlyGrows
  PROVE  CallsInv'
<1>1. \A i \in Ids : i \in Int
  BY RegistryAssumption DEF Ids
<1>2. ASSUME NEW c \in Callers
      PROVE  Held(lreg', calls[c]) /\ Checked(lreg', rx', calls[c])
  <2>1. Held(lreg, calls[c]) /\ Checked(lreg, rx, calls[c])
    BY DEF CallsInv
  <2>2. Held(lreg', calls[c])
    BY <1>1, <2>1 DEF Held, OnlyGrows
  <2>3. ASSUME calls[c].pc = "send", Firm(lreg', rx', calls[c].id)
        PROVE  lreg'.slot[calls[c].id].cache # "CACHE_ONLY"
    <3>1. calls[c].id \in Ids /\ calls[c].id < lreg.counter
      BY <2>1, <2>3 DEF Held, Committed, CallPcs
    <3>2. Firm(lreg, rx, calls[c].id) /\ lreg'.slot[calls[c].id] = lreg.slot[calls[c].id]
      BY <2>3, <3>1 DEF OnlyGrows, Firm
    <3> QED BY <2>1, <2>3, <3>2 DEF Checked
  <2> QED BY <2>2, <2>3 DEF Checked
<1>3. (\A c \in Callers : Held(lreg, calls[c]) /\ Checked(lreg, rx, calls[c]))'
  BY <1>2 DEF Held, Checked, Firm
<1> QED BY <1>3 DEF CallsInv, MutexHeld

\* A registration takes the id at the counter; with a name that fills the field
\* nothing happens.
LEMMA RegistersAbove ==
  ASSUME ConnectorInv, NEW p \in Registrations, HandleRegistered(p)
  PROVE  /\ lreg' \in Registries /\ WellFormed(lreg')
         /\ lreg.counter <= lreg'.counter /\ rx' = rx
         /\ \A i \in Ids : i < lreg.counter => lreg'.slot[i] = lreg.slot[i]
         /\ args' = args \/ \E junk \in Leftovers :
              args' = [args EXCEPT ![lreg.counter] = [NoArg EXCEPT !.err = junk, !.raw = TRUE]]
<1>1. p.name \in Names /\ p.type \in Types /\ p.cache \in Policies
  BY DEF Registrations
<1>2. lreg \in Registries /\ WellFormed(lreg)
  BY DEF ConnectorInv, SharedInv
<1>3. lreg.counter \in Ids => lreg.counter \in Args
  BY ConnectorAssumption
<1>4. /\ lreg' \in Registries /\ WellFormed(lreg')
      /\ lreg.counter <= lreg'.counter
      /\ \A i \in Ids : i < lreg.counter => lreg'.slot[i] = lreg.slot[i]
  <2>1. CASE lreg' = lreg
    BY <1>2, <2>1, RegistryAssumption DEF Registries
  <2>2. CASE lreg' # lreg
    <3>1. lreg' = Registered(lreg, p.name, p.type, p.cache, lreg.counter, FALSE)
      BY <2>2 DEF HandleRegistered, Mirrored
    <3>2. PICK oom \in BOOLEAN : oom = FALSE
      OBVIOUS
    <3>3. lreg' = Registered(lreg, p.name, p.type, p.cache, lreg.counter, oom)
      BY <3>1, <3>2, Zenon
    <3> QED BY <1>1, <1>2, <1>3, <3>3, RegisteredAtCounter
  <2> QED BY <2>1, <2>2
<1> QED BY <1>4 DEF HandleRegistered

\* handle_received_packet takes a registration.
LEMMA HandleRegisteredInv ==
  ASSUME ConnectorInv, NEW p \in Registrations, HandleRegistered(p), rx.pc = "idle",
         UNCHANGED <<owner, calls>>
  PROVE  CallsInv' /\ SharedInv' /\ OnlyGrows
<1>1. args \in [Ids -> Arguments] /\ rx \in RxStates /\ lreg \in Registries
  BY DEF ConnectorInv, SharedInv
<1>2. OnlyGrows
  BY RegistersAbove DEF OnlyGrows, Firm
<1>3. CallsInv'
  <2>1. lreg' \in Registries
    BY RegistersAbove
  <2>2. lreg.counter \in Int /\ lreg'.counter \in Int
    BY <1>1, <2>1, RegistryAssumption DEF Registries
  <2> QED BY <1>2, <2>2, RegistryGrows DEF ConnectorInv
<1>4. args' \in [Ids -> Arguments]
  <2>1. CASE args' = args
    BY <1>1, <2>1
  <2>2. CASE args' # args
    <3>1. PICK junk \in Leftovers :
            args' = [args EXCEPT ![lreg.counter] = [NoArg EXCEPT !.err = junk, !.raw = TRUE]]
      BY <2>2, RegistersAbove
    <3>2. [NoArg EXCEPT !.err = junk, !.raw = TRUE] \in Arguments
      BY ConnectorAssumption, CodesTyped DEF NoArg, Arguments
    <3> QED BY <1>1, <3>1, <3>2
  <2> QED BY <2>1, <2>2
<1>5. WellFormed(lreg)'
  BY RegistersAbove DEF WellFormed, SlotsBelowCounter, NamesUnique, Live
<1> QED BY <1>1, <1>2, <1>3, <1>4, <1>5, RegistersAbove DEF SharedInv

\* The next packet is one of the peer's, and the rest of them stay.
LEMMA NextPacket ==
  ASSUME LineInv, toLinux # << >>
  PROVE  Head(toLinux) \in FromPeer /\ Tail(toLinux) \in Seq(FromPeer)
  BY DEF LineInv

LEMMA FirstStates ==
  ASSUME NEW p \in FromPeer, p.ptype # "REGISTERED", ById(lreg, p.id) # Null
  PROVE  [pc |-> FirstStep(p), pkt |-> p] \in RxStates
<1>1. CASE p \in Unregistrations
  BY <1>1 DEF Unregistrations, FirstStep, RxStates, RxOf
<1>2. CASE p \in ErrorsFor(0 .. MaxLambdas)
  <2>1. p.id \in Ids
    BY <1>2, RegistryAssumption DEF ErrorsFor, ById, Ids
  <2>2. p \in Errors
    BY <1>2, <2>1 DEF ErrorsFor, Errors
  <2>3. FirstStep(p) = "error"
    BY <1>2 DEF ErrorsFor, FirstStep
  <2> QED BY <2>2, <2>3 DEF RxStates, RxOf
<1>3. CASE p \in Results
  <2>1. p.ptype = "RESULT"
    BY <1>3 DEF Results
  <2>2. FirstStep(p) \in {"free", "store"}
    BY <2>1 DEF FirstStep
  <2> QED BY <1>3, <2>2 DEF RxStates, RxOf
<1>4. p \notin Registrations /\ p \notin Mislabelled
  BY DEF Registrations, Mislabelled
<1> QED BY <1>1, <1>2, <1>3, <1>4 DEF FromPeer

LEMMA ReceiveInv ==
  ASSUME ConnectorInv, Receive
  PROVE  ConnectorInv'
<1> DEFINE p == Head(toLinux)
<1>1. p \in FromPeer /\ toLinux' \in Seq(FromPeer)
  BY NextPacket DEF Receive, ConnectorInv
<1>2. LineInv'
  BY <1>1 DEF Receive, ConnectorInv, LineInv
<1>3. CASE /\ UNCHANGED <<lreg, args>>
           /\ \/ rx' = rx
              \/ /\ rx' = [pc |-> FirstStep(p), pkt |-> p]
                 /\ p.ptype # "REGISTERED" /\ ById(lreg, p.id) # Null
  <2>1. rx' \in RxStates
    BY <1>1, <1>3, FirstStates DEF ConnectorInv, SharedInv
  <2>2. SharedInv'
    BY <1>3, <2>1 DEF ConnectorInv, SharedInv, WellFormed, SlotsBelowCounter, NamesUnique, Live
  <2>3. CallsInv'
    <3>1. lreg.counter \in Int
      BY RegistryAssumption DEF ConnectorInv, SharedInv, Registries
    <3>2. OnlyGrows
      BY <1>3, <3>1, StaysGrows DEF Receive
    <3> QED BY <1>3, <3>1, <3>2, RegistryGrows DEF Receive, ConnectorInv
  <2> QED BY <1>2, <2>2, <2>3 DEF ConnectorInv
<1>4. CASE p.ptype = p.layout /\ p.ptype = "REGISTERED" /\ HandleRegistered(p)
  <2>1. p \in Registrations
    BY <1>1, <1>4 DEF FromPeer, Unregistrations, Mislabelled, Results, ErrorsFor
  <2> HIDE DEF p
  <2>2. CallsInv' /\ SharedInv'
    BY <1>4, <2>1, HandleRegisteredInv DEF Receive
  <2> QED BY <1>2, <2>2 DEF ConnectorInv
<1> QED BY <1>3, <1>4 DEF Receive

\* The packet in the hands of the libspt thread fits the step it is at.
LEMMA RxPacket ==
  ASSUME SharedInv, rx.pc # "idle"
  PROVE  /\ rx.pkt.id \in Ids
         /\ rx.pc = "store" => rx.pkt.value \in Values
         /\ rx.pc = "error" => rx.pkt.code \in -128 .. 127
         /\ rx.pc \in {"free", "store", "noerror", "cached"} => rx.pkt \in Results
         /\ rx.pc = "error" => rx.pkt \in Errors
<1>1. rx \in RxStates
  BY DEF SharedInv
<1>2. rx.pc \in {"free", "store", "noerror", "cached"} => rx.pkt \in Results
  BY <1>1 DEF RxStates, RxOf
<1>3. rx.pc = "error" => rx.pkt \in Errors
  BY <1>1 DEF RxStates, RxOf
<1>4. rx.pkt \in Unregistrations \cup Results \cup Errors
  BY <1>1 DEF RxStates, RxOf
<1>5. rx.pkt.id \in Ids
  BY <1>4 DEF Unregistrations, Results, Errors, ErrorsFor
<1>6. rx.pc = "store" => rx.pkt.value \in Values
  BY <1>2 DEF Results, Values, Dangling, NoValue
<1>7. rx.pc = "error" => rx.pkt.code \in -128 .. 127
  BY <1>3 DEF Errors, ErrorsFor
<1> QED BY <1>2, <1>3, <1>5, <1>6, <1>7

\* The steps that write to an args object.
LEMMA RxWritesInv ==
  ASSUME ConnectorInv, RxFree \/ RxStore \/ RxNoError \/ RxCached \/ RxError
  PROVE  ConnectorInv'
<1>1. /\ UNCHANGED <<lreg, owner, calls, line, produced>>
      /\ rx.pc \in {"free", "store", "noerror", "cached", "error"}
  BY DEF RxFree, RxStore, RxNoError, RxCached, RxError
<1>2. args \in [Ids -> Arguments] /\ rx.pkt.id \in Ids /\ lreg.counter \in Int
  BY <1>1, RxPacket, RegistryAssumption DEF ConnectorInv, SharedInv, Registries
<1>3. args' \in [Ids -> Arguments]
  <2>1. CASE RxFree
    BY <1>2, <2>1, ArgWritten, CodesTyped DEF RxFree
  <2>2. CASE RxStore
    BY <1>2, <2>2, ArgWritten, RxPacket DEF RxStore, ConnectorInv
  <2>3. CASE RxNoError
    BY <1>2, <2>3, ArgWritten, CodesTyped DEF RxNoError
  <2>4. CASE RxCached
    BY <1>2, <2>4, ArgWritten DEF RxCached
  <2>5. CASE RxError
    BY <1>2, <2>5, ArgWritten, RxPacket DEF RxError, ConnectorInv
  <2> QED BY <2>1, <2>2, <2>3, <2>4, <2>5
<1>4. rx' \in RxStates
  <2>1. \E pc \in {"store", "noerror", "cached", "broadcast"} :
           rx' = [rx EXCEPT !.pc = pc] /\ (rx.pc = "error" => pc = "broadcast")
    BY DEF RxFree, RxStore, RxNoError, RxCached, RxError, RxGoto
  <2>2. rx = [pc |-> rx.pc, pkt |-> rx.pkt]
    BY DEF ConnectorInv, SharedInv, RxStates, RxOf
  <2>3. rx.pkt \in Results \/ (rx.pc = "error" /\ rx.pkt \in Errors)
    BY <1>1, RxPacket DEF ConnectorInv
  <2>4. PICK pc \in {"store", "noerror", "cached", "broadcast"} :
           rx' = [pc |-> pc, pkt |-> rx.pkt] /\ (rx.pc = "error" => pc = "broadcast")
    BY <2>1, <2>2
  <2> QED BY <2>3, <2>4 DEF RxStates, RxOf
<1>5. CallsInv'
  BY <1>1, <1>2, StaysGrows, RegistryGrows DEF ConnectorInv
<1>6. WellFormed(lreg)'
  BY <1>1 DEF ConnectorInv, SharedInv, WellFormed, SlotsBelowCounter, NamesUnique, Live
<1> QED BY <1>1, <1>3, <1>4, <1>5, <1>6 DEF ConnectorInv, SharedInv, LineInv, line

\* Waking the waiters changes no lock: a sleeper does not hold it.
LEMMA RxBroadcastInv ==
  ASSUME ConnectorInv, RxBroadcast
  PROVE  ConnectorInv'
<1> DEFINE woken(c) == [calls[c] EXCEPT !.pc = "woken"]
<1>1. ASSUME NEW c \in Callers
      PROVE  \/ calls'[c] = calls[c]
             \/ calls[c].pc = "waiting" /\ calls'[c] = woken(c)
  BY DEF RxBroadcast, Waiters, At
<1>2. ASSUME NEW c \in Callers, calls[c].pc = "waiting"
      PROVE  /\ woken(c) \in Calls /\ woken(c).pc = "woken" /\ woken(c).arg = calls[c].arg
             /\ woken(c).id = calls[c].id /\ woken(c).req = calls[c].req
  BY <1>2 DEF ConnectorInv, CallsInv, Calls, CallPcs
<1> HIDE DEF woken
<1>3. lreg' = lreg /\ owner' = owner /\ rx' = RxIdle /\ rx.pc = "broadcast"
      /\ UNCHANGED <<args, line, produced>>
  BY DEF RxBroadcast
<1>4. \A k : Checked(lreg, rx, k) => Checked(lreg, rx', k)
  BY <1>3 DEF Checked, Firm, RxIdle
<1>5. ASSUME NEW c \in Callers
      PROVE  /\ calls'[c] \in Calls
             /\ calls'[c].pc \in Critical <=> calls[c].pc \in Critical
             /\ Held(lreg, calls'[c]) /\ Checked(lreg, rx', calls'[c])
  <2>1. calls[c] \in Calls /\ Held(lreg, calls[c]) /\ Checked(lreg, rx', calls[c])
    BY <1>4 DEF ConnectorInv, CallsInv
  <2> QED BY <1>1, <1>2, <2>1 DEF Critical, Held, Checked, Committed, Waited, CallPcs
<1>6. calls' = [c \in Callers |-> calls'[c]]
  BY DEF RxBroadcast
<1>7. calls' \in [Callers -> Calls]
  BY <1>5, <1>6
<1>8. (\A c \in Callers : Held(lreg, calls[c]) /\ Checked(lreg, rx, calls[c]))'
  BY <1>3, <1>5 DEF Held, Checked, Firm
<1>9. CallsInv'
  BY <1>3, <1>5, <1>7, <1>8 DEF ConnectorInv, CallsInv, MutexHeld
<1>10. rx' \in RxStates
  BY <1>3 DEF RxIdle, RxStates, RxOf
<1>11. WellFormed(lreg)'
  BY <1>3 DEF ConnectorInv, SharedInv, WellFormed, SlotsBelowCounter, NamesUnique, Live
<1> QED BY <1>3, <1>9, <1>10, <1>11 DEF ConnectorInv, SharedInv, LineInv, line

\* The entry is given back, but its pointer is still there.
LEMMA RxUnregisterInv ==
  ASSUME ConnectorInv, RxUnregister
  PROVE  ConnectorInv'
<1>1. rx.pc = "destroy" /\ UNCHANGED <<lreg, args, owner, calls, line, produced>>
  BY DEF RxUnregister
<1>2. lreg.counter \in Int /\ rx \in RxStates
  BY RegistryAssumption DEF ConnectorInv, SharedInv, Registries
<1>3. CallsInv'
  BY <1>1, <1>2, StaysGrows, RegistryGrows DEF ConnectorInv
<1>4. rx' = [pc |-> "clear", pkt |-> rx.pkt] /\ rx.pkt \in Unregistrations
  BY <1>1, <1>2 DEF RxUnregister, RxGoto, RxStates, RxOf
<1>5. rx' \in RxStates
  BY <1>4 DEF RxStates, RxOf
<1>6. WellFormed(lreg)'
  BY <1>1 DEF ConnectorInv, SharedInv, WellFormed, SlotsBelowCounter, NamesUnique, Live
<1> QED BY <1>1, <1>3, <1>5, <1>6 DEF ConnectorInv, SharedInv, LineInv, line

LEMMA RxClears ==
  ASSUME ConnectorInv, RxClear
  PROVE  /\ OnlyGrows /\ lreg.counter \in Int /\ lreg'.counter = lreg.counter
         /\ lreg' \in Registries /\ WellFormed(lreg')
<1>1. /\ rx.pkt.id \in Ids /\ rx.pkt.id \in Nat /\ lreg \in Registries /\ WellFormed(lreg)
      /\ lreg.counter \in Int /\ rx.pc = "clear" /\ lreg' = Unregistered(lreg, rx.pkt.id)
  BY RxPacket, RegistryAssumption DEF RxClear, ConnectorInv, SharedInv, Ids, Registries
<1>2. lreg' \in Registries /\ WellFormed(lreg')
  BY <1>1, UnregisteredWellFormed
<1>3. lreg'.counter = lreg.counter /\ \A i \in Ids : lreg'.slot[i] \in {Null, lreg.slot[i]}
  BY <1>1 DEF Unregistered, Registries
<1>4. ASSUME rx.pkt.id < lreg.counter PROVE lreg'.slot[rx.pkt.id] = Null
  <2>1. ById(lreg, rx.pkt.id) = lreg.slot[rx.pkt.id]
    BY <1>1, <1>4, RegistryAssumption DEF ById, Ids
  <2> QED BY <1>1, <2>1 DEF Unregistered, Registries
<1>5. \A i \in Ids : i < lreg.counter /\ Firm(lreg', rx', i) => Firm(lreg, rx, i)
  BY <1>3, <1>4 DEF Firm
<1> QED BY <1>1, <1>2, <1>3, <1>5 DEF OnlyGrows

LEMMA RxClearInv ==
  ASSUME ConnectorInv, RxClear
  PROVE  ConnectorInv'
<1>1. CallsInv'
  BY RxClears, RegistryGrows DEF RxClear, ConnectorInv
<1>2. rx' \in RxStates
  BY DEF RxClear, RxIdle, RxStates, RxOf
<1>3. WellFormed(lreg)'
  BY RxClears DEF WellFormed, SlotsBelowCounter, NamesUnique, Live
<1> QED BY <1>1, <1>2, <1>3, RxClears DEF RxClear, ConnectorInv, SharedInv, LineInv, line

LEMMA RxGrows ==
  ASSUME ConnectorInv, RxStep
  PROVE  OnlyGrows /\ lreg.counter \in Int /\ lreg'.counter \in Int
<1>1. lreg \in Registries /\ lreg.counter \in Int
  BY RegistryAssumption DEF ConnectorInv, SharedInv, Registries
<1>2. CASE lreg' = lreg /\ rx.pc # "clear"
  BY <1>1, <1>2, StaysGrows
<1>3. CASE RxClear
  BY <1>3, RxClears
<1>4. CASE Receive /\ lreg' # lreg
  <2> DEFINE p == Head(toLinux)
  <2>1. p \in FromPeer /\ p.ptype = "REGISTERED" /\ p.ptype = p.layout /\ HandleRegistered(p)
    BY <1>4, NextPacket DEF Receive, ConnectorInv
  <2>2. p \in Registrations
    BY <2>1 DEF FromPeer, Unregistrations, Mislabelled, Results, ErrorsFor
  <2> HIDE DEF p
  <2>3. lreg' \in Registries /\ OnlyGrows
    BY <2>1, <2>2, RegistersAbove DEF OnlyGrows, Firm
  <2> QED BY <1>1, <2>3, RegistryAssumption DEF Registries
<1> QED BY <1>2, <1>3, <1>4
    DEF RxStep, Receive, RxUnregister, RxFree, RxStore, RxNoError, RxCached, RxError, RxBroadcast

LEMMA RxInv ==
  ASSUME ConnectorInv, RxStep
  PROVE  ConnectorInv'
  BY ReceiveInv, RxUnregisterInv, RxClearInv, RxWritesInv, RxBroadcastInv DEF RxStep

-----------------------------------------------------------------------------
(***************************************************************************)
(* The start, the restart, and every step.                                 *)
(***************************************************************************)
LEMMA FreshConnector == ConnectorInit => CallsInv /\ SharedInv
<1> SUFFICES ASSUME ConnectorInit PROVE CallsInv /\ SharedInv
  OBVIOUS
<1> USE DEF ConnectorInit
<1>1. NoCall \in Calls /\ NoCall.pc = "idle" /\ NoArg \in Arguments
  BY CodesTyped DEF NoCall, Calls, CallPcs, NoArg, Arguments
<1>2. CallsInv
  BY <1>1, ConnectorAssumption
     DEF CallsInv, MutexHeld, Held, Checked, Critical, Committed, Waited, CallPcs, NoCall
<1>3. SharedInv
  BY <1>1, EmptyWellFormed DEF SharedInv, RxIdle, RxStates, RxOf
<1> QED BY <1>2, <1>3

LEMMA RestartInv ==
  ASSUME ConnectorInv, Restart
  PROVE  ConnectorInv'
<1>1. Initialised(ZeroedRegistry) = ZeroedRegistry
  BY DEF Initialised, ZeroedRegistry
<1>3. ConnectorInit'
  BY <1>1 DEF Restart, ConnectorInit
<1>4. (CallsInv /\ SharedInv)'
  BY <1>3, FreshConnector, PTL
<1> QED BY <1>4 DEF Restart, ConnectorInv, LineInv, line

\* The connector's steps keep the invariant, and so does whatever leaves the
\* connector alone and the packets typed.
LEMMA CallerSteps ==
  ASSUME ConnectorInv, NEW c \in Callers,
         Begin(c) \/ CallStep(c) \/ Timeout(c) \/ SpuriousWakeup(c) \/ Stray(c)
  PROVE  CallerStep(c)
  BY DEF CallerStep, Begin, Begins, ConnectorInv, LineInv

LEMMA ConnectorStepInv ==
  ASSUME ConnectorInv, ConnectorNext
  PROVE  ConnectorInv'
  BY CallerInv, CallerSteps, RxInv, RestartInv DEF ConnectorNext

LEMMA OthersStepInv ==
  ASSUME ConnectorInv, UNCHANGED connectorVars, LineInv'
  PROVE  ConnectorInv'
  BY CallersUntouched DEF connectorVars, ConnectorInv, SharedInv, WellFormed, SlotsBelowCounter,
                          NamesUnique, Live

LEMMA ConnectorInitInv == ConnectorInit /\ SerialInit => ConnectorInv
<1>1. SerialInit => LineInv
  BY DEF SerialInit, LineInv
<1> QED BY <1>1, FreshConnector DEF ConnectorInv

LEMMA ConnectorTyped == ConnectorInv => ConnectorTypeOK
<1> SUFFICES ASSUME ConnectorInv PROVE ConnectorTypeOK
  OBVIOUS
<1>1. rx.pc \in RxPcs
  BY DEF ConnectorInv, SharedInv, RxStates, RxOf, RxPcs
<1> QED BY <1>1 DEF ConnectorInv, CallsInv, SharedInv, Arguments, ConnectorTypeOK
=============================================================================
