----------------------------- MODULE Connector -----------------------------
(***************************************************************************)
(* The Linux connector, linuxconnector/rs_connector.c, in the process of   *)
(* the REST server.  The callers are that server's HTTP and CoAP threads:  *)
(* they take accessing_registry for a call and wait on the condition       *)
(* variable of the called lambda.  The libspt thread runs                  *)
(* handle_received_packet and never takes the mutex, so each of its steps  *)
(* on shared memory comes between any two steps of a caller.               *)
(***************************************************************************)
EXTENDS Registry, Serial

CONSTANTS
  Callers,      \* threads that call lambdas
  Requests,     \* what they may ask for
  Leftovers,    \* bytes that last_call_error may hold in fresh malloc memory
  FreedTypes,   \* types that the bytes of freed memory may be read as
  SpuriousWakeups,   \* whether pthread_cond_timedwait may return unprompted
  ConnectorRestarts  \* whether the REST server is stopped and started again

AllTypes    == {"INT", "DOUBLE", "STRING"}
AllPolicies == {"NO_CACHE", "CALL_ONCE", "CACHE_ONLY", "ON_TIMEOUT"}

\* RS_CALL_*
CallSuccess           == 0
CallCache             == 1
CallCacheTimeout      == 2
CallNotFound          == -1
CallWrongType         == -2
CallTimeout           == -3
CallCacheEmpty        == -4
CallCacheTimeoutEmpty == -5
CallCodes == CallCacheTimeoutEmpty .. CallCacheTimeout

\* A generic_lambda_return: the number of a value made on the board, or one of
NoValue  == 0     \* bytes nobody has written
Dangling == -1    \* a char * to memory that has been freed

\* (rs_lambda_type_t) -1, what a text that names no type is read as.
UnknownType == "UNKNOWN"

Request == [by : {"id"}, key : 0 .. MaxLambdas, type : Types \cup {UnknownType}]
             \cup [by : {"name"}, key : Names, type : Types \cup {UnknownType}]

ASSUME ConnectorAssumption ==
  /\ Types \subseteq AllTypes
  /\ Policies \subseteq AllPolicies
  /\ Ids \subseteq Args
  /\ Null \notin Callers
  /\ Null \notin Ids
  /\ Requests \subseteq Request
  /\ Leftovers \subseteq -128 .. 127 /\ Leftovers # {}
  /\ FreedTypes \subseteq AllTypes \cup {UnknownType} /\ FreedTypes # {}
  /\ SpuriousWakeups \in BOOLEAN
  /\ ConnectorRestarts \in BOOLEAN

VARIABLES
  lreg,     \* this process's lambda registry
  args,     \* per id, the rs_linux_registered_lambda its entry points to
  owner,    \* the thread that holds accessing_registry, or Null
  calls,    \* per caller, where it is in call_lambda_by_id/by_name and its locals
  rx        \* where the libspt thread is in handle_received_packet

connectorVars == <<lreg, args, owner, calls, rx>>

\* `raw` is a ghost: `err` is still the byte that malloc left there.
NoArg  == [cached |-> FALSE, err |-> 0, raw |-> FALSE, ret |-> NoValue]
RxIdle == [pc |-> "idle", pkt |-> Null]

\* `id` is the lambda a call has a pointer to, `arg` the object it has read from
\* there.  Between two calls a record keeps what the last one returned.  Ghosts:
\* `since`, how many values existed when the call began, and `raw`, whether the
\* code returned is a byte nobody wrote.
NoCall == [pc |-> "idle", req |-> Null, id |-> Null, arg |-> Null, since |-> 0,
           raw |-> FALSE, code |-> CallNotFound, value |-> NoValue]

ConnectorInit ==
  /\ lreg = ZeroedRegistry
  /\ args = [i \in Ids |-> NoArg]
  /\ owner = Null
  /\ calls = [c \in Callers |-> NoCall]
  /\ rx = RxIdle

PolicyOf(id) == lreg.slot[id].cache

(***************************************************************************)
(* Memory.  The entry of lambda id has been given back; its pointer is     *)
(* cleared after that.  Whoever still has the pointer reads what is there  *)
(* now: the old bytes, those of a lambda registered since in the same      *)
(* block, or anything (a cache byte that is no policy acts as NO_CACHE).   *)
(* The args object of an entry has its id and is never given back.         *)
(***************************************************************************)
Gone(id) == lreg.slot[id] = Null \/ (rx.pc = "clear" /\ rx.pkt.id = id)

LambdasRead(id) == IF Gone(id) THEN {i \in Ids : id <= i /\ i < lreg.counter} ELSE {id}
TypesRead(id) == IF Gone(id) THEN FreedTypes ELSE {lreg.slot[id].type}
PoliciesRead(id) == IF Gone(id) THEN Policies \cup {"NO_CACHE"} ELSE {PolicyOf(id)}

\* The ids, or Null, that a lookup may find: strcmp on an entry given back and
\* not yet cleared may match or not.
Found(q) ==
  IF q.by = "id" THEN {IF ById(lreg, q.key) = Null THEN Null ELSE q.key}
  ELSE LET hits  == {i \in Hits(lreg, q.key) : ~Gone(i)}
           stale == {i \in Ids : i < lreg.counter /\ lreg.slot[i] # Null /\ Gone(i)}
       IN  {i \in hits \cup stale : \A j \in hits : i <= j}
             \cup (IF hits = {} THEN {Null} ELSE {})

-----------------------------------------------------------------------------
(***************************************************************************)
(* call_lambda_by_id and call_lambda_by_name.                              *)
(***************************************************************************)
At(c, pc) == calls[c].pc = pc
Goto(c, pc) == calls' = [calls EXCEPT ![c].pc = pc]

\* Unlock the registry and return code; *result then holds value, which came
\* from the args object a.
ReturnFrom(c, a, code, value) ==
  /\ owner' = Null
  /\ calls' = [calls EXCEPT ![c].pc = "idle", ![c].req = Null, ![c].arg = a,
                            ![c].code = code, ![c].value = value]

Return(c, code, value) == ReturnFrom(c, calls[c].arg, code, value)

BeginWith(c, q, since) ==
  /\ At(c, "idle")
  /\ calls' = [calls EXCEPT ![c] = [NoCall EXCEPT !.pc = "lock", !.req = q, !.since = since]]
  /\ UNCHANGED <<lreg, args, owner, rx, line, produced>>

Begin(c) == \E q \in Requests : BeginWith(c, q, produced)

Lock(c) ==
  /\ At(c, "lock")
  /\ owner = Null
  /\ owner' = c
  /\ Goto(c, "lookup")
  /\ UNCHANGED <<lreg, args, rx, line, produced>>

\* Mutant: an unknown lambda returns with the mutex held.
LookupKeepsLock(c) ==
  /\ At(c, "lookup")
  /\ \E id \in Found(calls[c].req) :
       calls' = [calls EXCEPT ![c].pc = IF id = Null THEN "idle" ELSE "type", ![c].id = id]
  /\ UNCHANGED <<lreg, args, owner, rx, line, produced>>

Lookup(c) ==
  /\ At(c, "lookup")
  /\ \E id \in Found(calls[c].req) :
       \/ id = Null /\ Return(c, CallNotFound, NoValue)
       \/ /\ id # Null
          /\ calls' = [calls EXCEPT ![c].pc = "type", ![c].id = id]
          /\ UNCHANGED owner
  /\ UNCHANGED <<lreg, args, rx, line, produced>>

\* Mutant: the expected type is not compared.
CheckTypeNot(c) ==
  /\ At(c, "type")
  /\ Goto(c, "cache")
  /\ UNCHANGED <<lreg, args, owner, rx, line, produced>>

CheckType(c) ==
  /\ At(c, "type")
  /\ \E type \in TypesRead(calls[c].id) :
       \/ type # calls[c].req.type /\ Return(c, CallWrongType, NoValue)
       \/ type = calls[c].req.type /\ Goto(c, "cache") /\ UNCHANGED owner
  /\ UNCHANGED <<lreg, args, rx, line, produced>>

\* Mutant: an empty cache always leads to a call.
CheckCacheCalls(c) ==
  /\ At(c, "cache")
  /\ \E a \in LambdasRead(calls[c].id), policy \in PoliciesRead(calls[c].id) :
       IF policy \in {"CALL_ONCE", "CACHE_ONLY"} /\ args[a].cached
       THEN ReturnFrom(c, a, CallCache, args[a].ret)
       ELSE Goto(c, "send") /\ UNCHANGED owner
  /\ UNCHANGED <<lreg, args, rx, line, produced>>

\* Mutant: whatever is cached is returned.
CheckCacheFirst(c) ==
  /\ At(c, "cache")
  /\ \E a \in LambdasRead(calls[c].id) :
       IF args[a].cached THEN ReturnFrom(c, a, CallCache, args[a].ret)
       ELSE Goto(c, "send") /\ UNCHANGED owner
  /\ UNCHANGED <<lreg, args, rx, line, produced>>

\* check_lambda_cache
CheckCache(c) ==
  /\ At(c, "cache")
  /\ \E a \in LambdasRead(calls[c].id), policy \in PoliciesRead(calls[c].id) :
       \/ /\ policy \in {"CALL_ONCE", "CACHE_ONLY"} /\ args[a].cached
          /\ ReturnFrom(c, a, CallCache, args[a].ret)
       \/ /\ policy = "CACHE_ONLY" /\ ~args[a].cached
          /\ Return(c, CallCacheEmpty, NoValue)
       \/ /\ policy = "CALL_ONCE" => ~args[a].cached
          /\ policy # "CACHE_ONLY"
          /\ Goto(c, "send")
          /\ UNCHANGED owner
  /\ UNCHANGED <<lreg, args, rx, line, produced>>

CallPacket(call) ==
  IF call.req.by = "id" THEN CallByIdPacket(call.req.key, call.req.type)
  ELSE CallByNamePacket(call.req.key, call.req.type)

Send(c) ==
  /\ At(c, "send")
  /\ SendToBoard(CallPacket(calls[c]))
  /\ Goto(c, "sent")
  /\ UNCHANGED <<lreg, args, owner, rx, toLinux, produced>>

(***************************************************************************)
(* wait_lambda_result.  pthread_cond_timedwait gives up the mutex as it    *)
(* starts to wait, and takes it again before it returns.                   *)
(***************************************************************************)
Wait(c) ==
  /\ At(c, "sent")
  /\ \E a \in LambdasRead(calls[c].id) :
       calls' = [calls EXCEPT ![c].pc = "waiting", ![c].arg = a]
  /\ owner' = Null
  /\ UNCHANGED <<lreg, args, rx, line, produced>>

\* The pointer read from an entry given back may as well lead nowhere.  What
\* the thread does then is undefined; here it stays where it is, the mutex held.
Strays(c) == (At(c, "cache") \/ At(c, "sent")) /\ Gone(calls[c].id)

Stray(c) ==
  /\ Strays(c)
  /\ Goto(c, "lost")
  /\ UNCHANGED <<lreg, args, owner, rx, line, produced>>

\* Mutant: pthread_cond_wait, which has no end of its own.
TimeoutNever(c) ==
  /\ At(c, "waiting") /\ FALSE
  /\ Goto(c, "timedout")
  /\ UNCHANGED <<lreg, args, owner, rx, line, produced>>

Timeout(c) ==
  /\ At(c, "waiting")
  /\ Goto(c, "timedout")
  /\ UNCHANGED <<lreg, args, owner, rx, line, produced>>

SpuriousWakeup(c) ==
  /\ SpuriousWakeups
  /\ At(c, "waiting")
  /\ Goto(c, "woken")
  /\ UNCHANGED <<lreg, args, owner, rx, line, produced>>

Relock(c) ==
  /\ owner = Null
  /\ owner' = c
  /\ \/ At(c, "woken") /\ Goto(c, "take")
     \/ At(c, "timedout") /\ Goto(c, "late")
  /\ UNCHANGED <<lreg, args, rx, line, produced>>

TakeResult(c) ==
  /\ At(c, "take")
  /\ Return(c, CallSuccess, args[calls[c].arg].ret)
  /\ UNCHANGED <<lreg, args, rx, line, produced>>

\* After a timeout an error left by the board is returned and cleared: three
\* accesses to last_call_error, each of which the libspt thread may precede.
LookForError(c) ==
  /\ At(c, "late")
  /\ Goto(c, IF args[calls[c].arg].err # 0 THEN "error" ELSE "fallback")
  /\ UNCHANGED <<lreg, args, owner, rx, line, produced>>

ReadError(c) ==
  LET arg == args[calls[c].arg] IN
  /\ At(c, "error")
  /\ calls' = [calls EXCEPT ![c].pc = "clear", ![c].code = arg.err, ![c].raw = arg.raw]
  /\ UNCHANGED <<lreg, args, owner, rx, line, produced>>

\* Mutant: the error stays for the next call.
ClearErrorNot(c) ==
  /\ At(c, "clear")
  /\ Return(c, calls[c].code, NoValue)
  /\ UNCHANGED <<lreg, args, rx, line, produced>>

ClearError(c) ==
  /\ At(c, "clear")
  /\ Return(c, calls[c].code, NoValue)
  /\ args' = [args EXCEPT ![calls[c].arg].err = 0, ![calls[c].arg].raw = FALSE]
  /\ UNCHANGED <<lreg, rx, line, produced>>

\* Mutant: data_cached is not looked at after a timeout.
FallBackBlindly(c) ==
  /\ At(c, "fallback")
  /\ \E policy \in PoliciesRead(calls[c].id) :
       \/ policy # "ON_TIMEOUT" /\ Return(c, CallTimeout, NoValue)
       \/ policy = "ON_TIMEOUT" /\ Return(c, CallCacheTimeout, args[calls[c].arg].ret)
  /\ UNCHANGED <<lreg, args, rx, line, produced>>

FallBack(c) ==
  LET arg == args[calls[c].arg] IN
  /\ At(c, "fallback")
  /\ \E policy \in PoliciesRead(calls[c].id) :
       \/ policy # "ON_TIMEOUT" /\ Return(c, CallTimeout, NoValue)
       \/ policy = "ON_TIMEOUT" /\ arg.cached /\ Return(c, CallCacheTimeout, arg.ret)
       \/ policy = "ON_TIMEOUT" /\ ~arg.cached /\ Return(c, CallCacheTimeoutEmpty, NoValue)
  /\ UNCHANGED <<lreg, args, rx, line, produced>>

-----------------------------------------------------------------------------
(***************************************************************************)
(* handle_received_packet, on the libspt thread.                           *)
(***************************************************************************)
RxGoto(pc) == rx' = [rx EXCEPT !.pc = pc]

\* The registration a REGISTERED packet asks for.  A name that fills the field
\* of the packet has no terminator: strlen runs on into the type and cache
\* bytes and the name is too long.
Mirrored(p) ==
  IF p.name \in FullNames THEN lreg
  ELSE Registered(lreg, p.name, p.type, p.cache, lreg.counter, FALSE)

\* Mutant: data_cached is left as malloc gave it.
HandleRegisteredRaw(p) ==
  /\ lreg' = Mirrored(p)
  /\ IF lreg' = lreg THEN UNCHANGED args
     ELSE \E any \in BOOLEAN : args' = [args EXCEPT ![lreg.counter] = [NoArg EXCEPT !.cached = any]]
  /\ UNCHANGED rx

HandleRegistered(p) ==
  /\ lreg' = Mirrored(p)
  /\ IF lreg' = lreg THEN UNCHANGED args
     ELSE \E junk \in Leftovers :
            args' = [args EXCEPT ![lreg.counter] = [NoArg EXCEPT !.err = junk, !.raw = TRUE]]
  /\ UNCHANGED rx

\* Where the handler of a packet about a known lambda goes first.
FirstStep(p) ==
  CASE p.ptype = "UNREGISTERED" -> "destroy"
    [] p.ptype = "RESULT_ERROR" -> "error"
    [] p.ptype = "RESULT" /\ p.type = "STRING" -> "free"
    [] p.ptype = "RESULT" /\ p.type # "STRING" -> "store"

\* Take the next packet; one of the wrong size is dropped, and so is one about
\* a lambda that is not registered here.
Receive ==
  /\ rx.pc = "idle"
  /\ toLinux # << >>
  /\ toLinux' = Tail(toLinux)
  /\ LET p == Head(toLinux) IN
       \/ p.ptype # p.layout /\ UNCHANGED <<lreg, args, rx>>
       \/ p.ptype = p.layout /\ p.ptype = "REGISTERED" /\ HandleRegistered(p)
       \/ /\ p.ptype = p.layout /\ p.ptype # "REGISTERED"
          /\ rx' = IF ById(lreg, p.id) = Null THEN rx
                   ELSE [pc |-> FirstStep(p), pkt |-> p]
          /\ UNCHANGED <<lreg, args>>
  /\ UNCHANGED <<owner, calls, toBoard, produced>>

Waiters(id) == {c \in Callers : At(c, "waiting") /\ calls[c].arg = id}

\* The entry is given back, and in the next step its pointer cleared.  Before
\* that pthread_cond_destroy waits until nobody waits on the condition variable.
RxUnregister ==
  /\ rx.pc = "destroy"
  /\ Waiters(rx.pkt.id) = {}
  /\ RxGoto("clear")
  /\ UNCHANGED <<lreg, args, owner, calls, line, produced>>

RxClear ==
  /\ rx.pc = "clear"
  /\ lreg' = Unregistered(lreg, rx.pkt.id)
  /\ rx' = RxIdle
  /\ UNCHANGED <<args, owner, calls, line, produced>>

\* free(arg->ret.ret_s) of the string that is about to be replaced.
RxFree ==
  /\ rx.pc = "free"
  /\ args' = IF args[rx.pkt.id].cached THEN [args EXCEPT ![rx.pkt.id].ret = Dangling] ELSE args
  /\ RxGoto("store")
  /\ UNCHANGED <<lreg, owner, calls, line, produced>>

RxStore ==
  /\ rx.pc = "store"
  /\ args' = [args EXCEPT ![rx.pkt.id].ret = rx.pkt.value]
  /\ RxGoto("noerror")
  /\ UNCHANGED <<lreg, owner, calls, line, produced>>

RxNoError ==
  /\ rx.pc = "noerror"
  /\ args' = [args EXCEPT ![rx.pkt.id].err = CallSuccess, ![rx.pkt.id].raw = FALSE]
  /\ RxGoto("cached")
  /\ UNCHANGED <<lreg, owner, calls, line, produced>>

RxCached ==
  /\ rx.pc = "cached"
  /\ args' = [args EXCEPT ![rx.pkt.id].cached = TRUE]
  /\ RxGoto("broadcast")
  /\ UNCHANGED <<lreg, owner, calls, line, produced>>

RxError ==
  /\ rx.pc = "error"
  /\ args' = [args EXCEPT ![rx.pkt.id].err = rx.pkt.code, ![rx.pkt.id].raw = FALSE]
  /\ RxGoto("broadcast")
  /\ UNCHANGED <<lreg, owner, calls, line, produced>>

RxBroadcast ==
  /\ rx.pc = "broadcast"
  /\ calls' = [c \in Callers |-> IF c \in Waiters(rx.pkt.id)
                                 THEN [calls[c] EXCEPT !.pc = "woken"] ELSE calls[c]]
  /\ rx' = RxIdle
  /\ UNCHANGED <<lreg, args, owner, line, produced>>

-----------------------------------------------------------------------------
(***************************************************************************)
(* The process is killed, whatever its threads do, and rs_linux_start runs *)
(* in a new one.  It never ends by itself: main() waits for the CoAP       *)
(* thread, which has no end, and rs_linux_stop behind it is not reached.   *)
(* What was on the line stays for the new process.                         *)
(***************************************************************************)
Restart ==
  /\ ConnectorRestarts
  /\ lreg' = Initialised(ZeroedRegistry)
  /\ args' = [i \in Ids |-> NoArg]
  /\ owner' = Null
  /\ calls' = [c \in Callers |-> NoCall]
  /\ rx' = RxIdle
  /\ UNCHANGED <<line, produced>>

CallStep(c) ==
  \/ Lock(c)
  \/ Lookup(c)
  \/ CheckType(c)
  \/ CheckCache(c)
  \/ Send(c)
  \/ Wait(c)
  \/ Relock(c)
  \/ TakeResult(c)
  \/ LookForError(c)
  \/ ReadError(c)
  \/ ClearError(c)
  \/ FallBack(c)

RxStep ==
  \/ Receive
  \/ RxUnregister
  \/ RxClear
  \/ RxFree
  \/ RxStore
  \/ RxNoError
  \/ RxCached
  \/ RxError
  \/ RxBroadcast

ConnectorNext ==
  \/ \E c \in Callers : Begin(c) \/ CallStep(c) \/ Timeout(c) \/ SpuriousWakeup(c) \/ Stray(c)
  \/ RxStep
  \/ Restart

-----------------------------------------------------------------------------
(***************************************************************************)
(* Properties.  They are checked by the modules that give the connector a  *)
(* peer: ConnectorPeer and RiotSystem.                                     *)
(***************************************************************************)
CallPcs == {"idle", "lock", "lookup", "type", "cache", "send", "sent", "waiting",
            "woken", "timedout", "take", "late", "error", "clear", "fallback", "lost"}
Critical == {"lookup", "type", "cache", "send", "sent", "take", "late", "error", "clear",
             "fallback", "lost"}
RxPcs == {"idle", "destroy", "clear", "free", "store", "noerror", "cached", "error", "broadcast"}

Values == {v \in Int : v >= Dangling}

Arguments == [cached : BOOLEAN, err : -128 .. 127, raw : BOOLEAN, ret : Values]

Calls == [pc : CallPcs, req : Requests \cup {Null}, id : Ids \cup {Null},
          arg : Ids \cup {Null}, since : Nat, raw : BOOLEAN, code : -128 .. 127,
          value : Values]

\* TypeOK: every variable of the connector holds what its C type can.
ConnectorTypeOK ==
  /\ lreg \in Registries
  /\ args \in [Ids -> Arguments]
  /\ owner \in Callers \cup {Null}
  /\ calls \in [Callers -> Calls]
  /\ rx.pc \in RxPcs

(***************************************************************************)
(* MutexHeld: a thread holds accessing_registry exactly while it is in the *)
(* critical part of a call: no return path keeps the lock, none gives up a *)
(* lock that another thread holds, and nobody sleeps with the lock held    *)
(* although the wait gives it up and takes it again.                       *)
(***************************************************************************)
MutexHeld == \A c \in Callers : owner = c <=> calls[c].pc \in Critical

(***************************************************************************)
(* CacheOnlyNeverCalled: a call that reaches the board is for a lambda     *)
(* whose policy is not RS_CACHE_ONLY, whoever called and whatever the      *)
(* libspt thread did since the cache was checked, as long as the lambda is *)
(* registered.  On the board such a lambda may have no function to run.    *)
(***************************************************************************)
CacheOnlyNeverCalled ==
  [][\A c \in Callers :
       (At(c, "send") /\ calls'[c].pc = "sent" /\ ~Gone(calls[c].id))
          => PolicyOf(calls[c].id) # "CACHE_ONLY"]_<<connectorVars, line>>

(***************************************************************************)
(* CodesFitPolicies: what a finished call returned is one of the codes of  *)
(* its lambda's cache policy (or an error of the lookup, or one that the   *)
(* board reported), so that the web server may tell a cached value from a  *)
(* fresh one by the code alone.  Two calls are excepted.  The first one of *)
(* a lambda to time out may return the byte that malloc left in            *)
(* last_call_error, which is any code at all (`raw`).  And a call whose    *)
(* lambda has been unregistered may have read any policy.                  *)
(***************************************************************************)
PolicyCodes(policy) ==
  CASE policy = "NO_CACHE"   -> {CallSuccess, CallTimeout}
    [] policy = "CALL_ONCE"  -> {CallSuccess, CallTimeout, CallCache}
    [] policy = "CACHE_ONLY" -> {CallCache, CallCacheEmpty}
    [] policy = "ON_TIMEOUT" -> {CallSuccess, CallCacheTimeout, CallCacheTimeoutEmpty}

CodesFitPolicies ==
  \A c \in Callers :
    (At(c, "idle") /\ calls[c].id # Null /\ ~Gone(calls[c].id) /\ ~calls[c].raw)
      => calls[c].code \in PolicyCodes(PolicyOf(calls[c].id)) \cup {CallNotFound, CallWrongType}

(***************************************************************************)
(* JunkReportedOnce: the byte nobody wrote is returned by one call of its  *)
(* lambda at most: no other caller has been told it, or is about to be.    *)
(* last_call_error is tested, read and cleared in three steps, during      *)
(* which the libspt thread may write it.                                   *)
(***************************************************************************)
JunkReportedOnce ==
  \A c, d \in Callers :
    (calls[c].raw /\ calls[d].raw /\ calls[c].arg = calls[d].arg) => c = d

(***************************************************************************)
(* RepliesCarryValues: a call that is answered from the cache, at once or  *)
(* after a timeout, returns a value that the board made, or a string that  *)
(* has been freed since, but never the unwritten union, although the       *)
(* libspt thread fills it in without the lock; and so does one that is     *)
(* woken once any result of the lambda has come.  A code read from         *)
(* last_call_error is not among these: one that a result clears while it   *)
(* is being read is a success without a value.                             *)
(***************************************************************************)
RepliesCarryValues ==
  [][\A c \in Callers :
       (/\ At(c, "cache") \/ At(c, "fallback") \/ (At(c, "take") /\ args[calls[c].arg].cached)
        /\ calls'[c].pc = "idle"
        /\ calls'[c].code \in {CallSuccess, CallCache, CallCacheTimeout})
          => calls'[c].value # NoValue]_connectorVars

(***************************************************************************)
(* Fairness, for the modules that need it.  The locks of pthreads are not  *)
(* fair, but a thread that finds the mutex free again and again gets it at *)
(* last (SF); every other step of a thread is its own next instruction,    *)
(* the end of one second, or a wait for room on the line (WF).             *)
(***************************************************************************)
GetsMutex(c) == Lock(c) \/ Relock(c)

RunsOn(c) == Lookup(c) \/ CheckType(c) \/ CheckCache(c) \/ Send(c) \/ Wait(c) \/ Timeout(c)
               \/ TakeResult(c) \/ LookForError(c) \/ ReadError(c) \/ ClearError(c) \/ FallBack(c)

(***************************************************************************)
(* What the documentation says and the code does not do.                   *)
(***************************************************************************)

\* rs_constants.h:60 - "The call was successfully", of RS_CALL_SUCCESS, where
\* rs_packets.h:45 has "Lambda call produced an error" for RESULT_ERROR: no
\* call returns success while an error is the last thing the board said.
SuccessIsNoError ==
  [][\A c \in Callers :
       (At(c, "take") /\ calls'[c].pc = "idle") => args[calls[c].arg].err = 0]_<<connectorVars, line>>

\* rs_constants.h:70 - "Result could not be retrieved in time", of
\* RS_CALL_TIMEOUT: no call sleeps until its timeout when the value it waits
\* for has been received and announced before it lay down.
NeverSleepsOnAnAnswer ==
  \A c \in Callers :
    (At(c, "waiting") /\ rx.pc = "idle") =>
      ~(args[calls[c].arg].cached /\ args[calls[c].arg].ret > calls[c].since)

\* rs_packets.h:109 - "Never retrieve a value from cache", of NO_CACHE: the
\* value that a successful call returns was made after the call began.
NoCacheIsFresh ==
  \A c \in Callers :
    (At(c, "idle") /\ calls[c].code = CallSuccess /\ PolicyOf(calls[c].id) = "NO_CACHE")
      => calls[c].value > calls[c].since
=============================================================================
