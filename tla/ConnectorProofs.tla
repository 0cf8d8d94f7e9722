--------------------------- MODULE ConnectorProofs ---------------------------
(***************************************************************************)
(* The connector with any peer that keeps to the packets, for any number   *)
(* of callers and lambdas, whatever malloc leaves in last_call_error and   *)
(* whatever is read of an entry that has been given back: its types, its   *)
(* lock, its registry, that no call goes out for a CACHE_ONLY lambda, what *)
(* codes and values the calls return, and that a byte nobody wrote is      *)
(* returned once.  A call's lambda stays the one that was asked for,       *)
(* although the libspt thread changes the registry without the lock.       *)
(***************************************************************************)
EXTENDS ConnectorPeer, ConnectorTheorems

\* Lambda id is the one that q asks for, and of type t, as long as it is there.
Suits(r, x, id, q) ==
  /\ q.by = "id" => id = q.key
  /\ (q.by # "id" /\ Firm(r, x, id)) => NameEquals(r.slot[id], q.key)

OfType(r, x, id, t) == Firm(r, x, id) => r.slot[id].type = t

\* What a call knows of the lambda under its id; only a lookup that fails
\* returns without one.
Bound(r, x, k) ==
  /\ k.pc \in {"lock", "lookup"} => k.id = Null
  /\ k.pc \in Committed => Suits(r, x, k.id, k.req)
  /\ k.pc \in Committed \ {"type"} => OfType(r, x, k.id, k.req.type)
  /\ (k.pc = "idle" /\ k.id = Null) => k.code = CallNotFound

CallsBound == \A c \in Callers : Bound(lreg, rx, calls[c])

\* RS_CALL_* that the board reports, and what stands for no error.
ErrorCodes == {CallSuccess, CallNotFound, CallWrongType}

\* From the decision to ask the board on.
Asking == Committed \ {"type", "cache", "lost"}

Coded(r, x, k) ==
  /\ (k.pc \in Asking /\ Firm(r, x, k.id)) => r.slot[k.id].cache # "CACHE_ONLY"
  /\ (k.pc = "clear" /\ ~k.raw) => k.code \in ErrorCodes
  /\ (k.pc = "idle" /\ k.id # Null /\ Firm(r, x, k.id) /\ ~k.raw)
        => k.code \in PolicyCodes(r.slot[k.id].cache) \cup {CallNotFound, CallWrongType}

\* The packets on their way to the connector.
InFlight == {toLinux[k] : k \in DOMAIN toLinux}

ErrorsCoded ==
  /\ \A i \in Ids : args[i].raw \/ args[i].err \in ErrorCodes
  /\ rx.pc = "error" => rx.pkt.code \in ErrorCodes
  /\ \A p \in InFlight : p.ptype = "RESULT_ERROR" => p.code \in ErrorCodes

CodesInv == (\A c \in Callers : Coded(lreg, rx, calls[c])) /\ ErrorsCoded

\* A byte that nobody wrote: who returns it has cleared it, or is about to.
Reported(a, k) ==
  k.raw => k.pc \in {"clear", "idle"} /\ k.arg \in Ids /\ (k.pc = "idle" => ~a[k.arg].raw)

JunkInv == JunkReportedOnce /\ \A c \in Callers : Reported(args, calls[c])

\* What is marked as cached is there, and what is about to be marked.
CachedInv ==
  /\ \A i \in Ids : args[i].cached => args[i].ret # NoValue
  /\ rx.pc \in {"noerror", "cached"} => args[rx.pkt.id].ret # NoValue

-----------------------------------------------------------------------------
(***************************************************************************)
(* The values, in a process that is not restarted: what a new process      *)
(* registers under an id need not be what the results under way are of.    *)
(***************************************************************************)
TypedAs(r, id, t) == r.slot[id] # Null => r.slot[id].type = t

\* A result is a value of the lambda that its id stands for here.
FitsHere(r, n, p) ==
  p.id \in Ids /\ p.id < r.counter /\ p.value \in 1 .. n /\ TypedAs(r, p.id, p.type)

RxResult == rx.pc \in {"free", "store", "noerror", "cached"}

ResultsFit ==
  /\ \A p \in InFlight : p.ptype = "RESULT" => FitsHere(lreg, produced, p)
  /\ RxResult => FitsHere(lreg, produced, rx.pkt)
  /\ rx.pc = "free" => rx.pkt.type = "STRING"

\* What the union of lambda i holds; only strings are freed.
MadeAt(a, r, n, i) ==
  /\ a.ret \in {NoValue, Dangling} \cup 1 .. n
  /\ a.ret = Dangling => i < r.counter /\ TypedAs(r, i, "STRING")

MadeInv == ResultsFit /\ \A i \in Ids : MadeAt(args[i], lreg, produced, i)

-----------------------------------------------------------------------------
(***************************************************************************)
(* Packets in flight.                                                      *)
(***************************************************************************)
LEMMA Sends ==
  ASSUME LineInv, NEW p, SendToLinux(p)
  PROVE  InFlight' \subseteq InFlight \cup {p}
<1>1. toLinux \in Seq(FromPeer \cup {p})
  BY DEF LineInv
<1>2. CASE toLinux' = Append(toLinux, p)
  <2>1. \A k \in DOMAIN toLinux' :
           toLinux'[k] = p \/ (k \in DOMAIN toLinux /\ toLinux'[k] = toLinux[k])
    BY <1>1, <1>2
  <2> QED BY <2>1 DEF InFlight
<1>3. CASE toLinux' = toLinux
  BY <1>3 DEF InFlight
<1> QED BY <1>2, <1>3 DEF SendToLinux, Put

LEMMA TakesHead ==
  ASSUME LineInv, toLinux # << >>, toLinux' = Tail(toLinux)
  PROVE  InFlight' \subseteq InFlight /\ Head(toLinux) \in InFlight
<1>1. toLinux \in Seq(FromPeer)
  BY DEF LineInv
<1>2. \A k \in DOMAIN toLinux' : k + 1 \in DOMAIN toLinux /\ toLinux'[k] = toLinux[k + 1]
  BY <1>1
<1>3. 1 \in DOMAIN toLinux /\ Head(toLinux) = toLinux[1]
  BY <1>1
<1> QED BY <1>2, <1>3 DEF InFlight

-----------------------------------------------------------------------------
(***************************************************************************)
(* What a caller's step makes of its record.                               *)
(***************************************************************************)
Same(m, k) == k.id = m.id /\ k.req = m.req /\ k.arg = m.arg /\ k.raw = m.raw /\ k.code = m.code

Starts(m, k) ==
  m.pc = "idle" /\ k.pc = "lock" /\ k.id = Null /\ k.raw = FALSE /\ k.req \in Requests

Moves(m, k) ==
  /\ Same(m, k)
  /\ \/ m.pc = "lock" /\ k.pc = "lookup"
     \/ m.pc = "type" /\ k.pc = "cache" /\ OfType(lreg, rx, m.id, m.req.type)
     \/ /\ m.pc = "cache" /\ k.pc = "send"
        /\ Firm(lreg, rx, m.id) => lreg.slot[m.id].cache # "CACHE_ONLY"
     \/ m.pc \in Asking \ {"clear"} /\ k.pc \in Asking \ {"send", "clear", "waiting"}
     \/ m.pc \in {"cache", "sent"} /\ k.pc = "lost"

FindsOne(m, k) ==
  /\ m.pc = "lookup" /\ k.pc = "type" /\ k.req = m.req /\ k.raw = m.raw
  /\ k.id \in Found(m.req) \ {Null}

Waits(m, k) ==
  m.pc = "sent" /\ k.pc = "waiting" /\ k.id = m.id /\ k.req = m.req /\ k.raw = m.raw

Reads(m, k) ==
  /\ m.pc = "error" /\ k.pc = "clear" /\ k.id = m.id /\ k.req = m.req /\ k.arg = m.arg
  /\ k.code = args[m.arg].err /\ k.raw = args[m.arg].raw

\* Where policy and pc allow the code.
Allowed(m, code) ==
  (Firm(lreg, rx, m.id) /\ (m.pc # "cache" => lreg.slot[m.id].cache # "CACHE_ONLY"))
    => code \in PolicyCodes(lreg.slot[m.id].cache)

Finishes(m, k) ==
  /\ k.pc = "idle" /\ k.id = m.id /\ k.raw = m.raw
  /\ \/ m.pc = "lookup" /\ k.code = CallNotFound
     \/ m.pc = "type" /\ k.code = CallWrongType
     \/ m.pc = "clear" /\ k.code = m.code /\ k.arg = m.arg
     \/ m.pc \in {"cache", "take", "fallback"} /\ Allowed(m, k.code)

Becomes(m, k) ==
  Starts(m, k) \/ Moves(m, k) \/ FindsOne(m, k) \/ Waits(m, k) \/ Reads(m, k) \/ Finishes(m, k)

\* A request in progress is one, and its lambda has an id.
LEMMA CallerTyped ==
  ASSUME CallsInv, NEW c \in Callers
  PROVE  /\ calls[c] \in Calls
         /\ calls[c].id \in Ids \cup {Null}
         /\ calls[c].id # Null => calls[c].id \in Ids /\ calls[c].id < lreg.counter
         /\ calls[c].pc # "idle" => calls[c].req \in Request
         /\ calls[c].pc \in Committed => calls[c].id # Null
         /\ calls[c].arg # Null => calls[c].arg \in Ids /\ calls[c].arg < lreg.counter
<1>1. calls[c] \in Calls /\ Held(lreg, calls[c])
  BY DEF CallsInv
<1> QED BY <1>1, ConnectorAssumption DEF Calls, Held

LEMMA CallerGoes ==
  ASSUME CallsInv, NEW c \in Callers, NEW pc, Goto(c, pc)
  PROVE  /\ \A d \in Callers : d # c => calls'[d] = calls[d]
         /\ calls'[c].pc = pc /\ Same(calls[c], calls'[c])
<1>1. calls \in [Callers -> Calls] /\ calls[c] \in Calls
  BY DEF CallsInv
<1>2. calls'[c] = [calls[c] EXCEPT !.pc = pc]
  BY <1>1 DEF Goto
<1> QED BY <1>1, <1>2 DEF Goto, Calls, Same

LEMMA CallerReturns ==
  ASSUME CallsInv, NEW c \in Callers, NEW a, NEW code, NEW value, ReturnFrom(c, a, code, value)
  PROVE  /\ \A d \in Callers : d # c => calls'[d] = calls[d]
         /\ calls'[c].pc = "idle" /\ calls'[c].id = calls[c].id
         /\ calls'[c].raw = calls[c].raw /\ calls'[c].arg = a
         /\ calls'[c].code = code /\ calls'[c].value = value
<1>1. calls \in [Callers -> Calls] /\ calls[c] \in Calls
  BY DEF CallsInv
<1>2. calls'[c] = [calls[c] EXCEPT !.pc = "idle", !.req = Null, !.arg = a,
                                   !.code = code, !.value = value]
  BY <1>1 DEF ReturnFrom
<1> QED BY <1>1, <1>2 DEF ReturnFrom, Calls

LEMMA PolicyKnown ==
  ASSUME lreg \in Registries, NEW id \in Ids, Firm(lreg, rx, id)
  PROVE  /\ PoliciesRead(id) = {lreg.slot[id].cache}
         /\ lreg.slot[id].cache \in {"NO_CACHE", "CALL_ONCE", "CACHE_ONLY", "ON_TIMEOUT"}
<1>1. lreg.slot[id] \in Entry
  BY DEF Registries, Firm
<1> QED BY <1>1, FirmNotGone, ConnectorAssumption DEF Entry, AllPolicies, PoliciesRead, PolicyOf

\* The steps that only move on.
LEMMA CallerMoves ==
  ASSUME CallsInv, NEW c \in Callers,
         Lock(c) \/ Send(c) \/ Relock(c) \/ LookForError(c) \/ Timeout(c)
           \/ SpuriousWakeup(c) \/ Stray(c)
  PROVE  (\A d \in Callers : d # c => calls'[d] = calls[d]) /\ Moves(calls[c], calls'[c])
<1> USE DEF At, Asking, Committed, CallPcs
<1>1. PICK pc : Goto(c, pc) /\ \/ calls[c].pc = "lock" /\ pc = "lookup"
                               \/ /\ calls[c].pc \in Asking \ {"clear"}
                                  /\ pc \in Asking \ {"send", "clear", "waiting"}
                               \/ calls[c].pc \in {"cache", "sent"} /\ pc = "lost"
  <2>1. CASE Lock(c) \/ Send(c) \/ Timeout(c)
    BY <2>1 DEF Lock, Send, Timeout
  <2>2. CASE SpuriousWakeup(c) \/ Stray(c)
    BY <2>2 DEF SpuriousWakeup, Stray, Strays
  <2>3. CASE Relock(c)
    BY <2>3 DEF Relock
  <2>4. CASE LookForError(c)
    <3>1. PICK pc \in {"error", "fallback"} : Goto(c, pc)
      BY <2>4 DEF LookForError
    <3> QED BY <2>4, <3>1 DEF LookForError
  <2> QED BY <2>1, <2>2, <2>3, <2>4
<1> QED BY <1>1, CallerGoes DEF Moves

LEMMA CallerBecomes ==
  ASSUME CallsInv, SharedInv, NEW c \in Callers, CallerStep(c)
  PROVE  (\A d \in Callers : d # c => calls'[d] = calls[d]) /\ Becomes(calls[c], calls'[c])
<1> DEFINE m == calls[c]
           k == calls'[c]
           id == calls[c].id
           P == lreg.slot[id].cache
<1>1. calls \in [Callers -> Calls] /\ m \in Calls /\ lreg \in Registries
  BY DEF CallsInv, SharedInv
<1>2. ASSUME NEW r, calls' = [calls EXCEPT ![c] = r]
      PROVE  k = r /\ \A d \in Callers : d # c => calls'[d] = calls[d]
  BY <1>1, <1>2
<1>3. CASE Begins(c)
  <2>1. PICK q \in Requests, n \in Nat :
          m.pc = "idle" /\ calls' = [calls EXCEPT ![c] = [NoCall EXCEPT !.pc = "lock", !.req = q, !.since = n]]
    BY <1>3 DEF Begins, BeginWith, At
  <2>2. k = [NoCall EXCEPT !.pc = "lock", !.req = q, !.since = n]
    BY <1>2, <2>1
  <2>3. k.pc = "lock" /\ k.id = Null /\ k.raw = FALSE /\ k.req = q
    <3> HIDE DEF k
    <3> QED BY <2>2 DEF NoCall
  <2>4. Starts(m, k)
    BY <2>1, <2>3 DEF Starts
  <2> QED BY <1>2, <2>1, <2>4 DEF Becomes
<1>4. CASE Lookup(c)
  <2>1. m.pc = "lookup"
    BY <1>4 DEF Lookup, At
  <2>2. CASE Return(c, CallNotFound, NoValue)
    BY <2>1, <2>2, CallerReturns DEF Return, Finishes, Becomes
  <2>3. CASE \E i \in Found(m.req) \ {Null} : calls' = [calls EXCEPT ![c].pc = "type", ![c].id = i]
    <3>1. PICK i \in Found(m.req) \ {Null} : calls' = [calls EXCEPT ![c].pc = "type", ![c].id = i]
      BY <2>3
    <3>2. calls' = [calls EXCEPT ![c] = [m EXCEPT !.pc = "type", !.id = i]]
      BY <3>1
    <3>3. FindsOne(m, k)
      BY <1>1, <1>2, <2>1, <3>2 DEF FindsOne, Calls
    <3> QED BY <1>2, <3>2, <3>3 DEF Becomes
  <2> QED BY <1>4, <2>2, <2>3 DEF Lookup
<1>5. CASE CheckType(c)
  <2>1. m.pc = "type" /\ \/ Return(c, CallWrongType, NoValue)
                         \/ Goto(c, "cache") /\ m.req.type \in TypesRead(id)
    BY <1>5 DEF CheckType, At
  <2>2. m.req.type \in TypesRead(id) => OfType(lreg, rx, id, m.req.type)
    BY FirmNotGone DEF TypesRead, OfType
  <2>3. CASE Return(c, CallWrongType, NoValue)
    BY <2>1, <2>3, CallerReturns DEF Return, Finishes, Becomes
  <2>4. CASE Goto(c, "cache") /\ m.req.type \in TypesRead(id)
    BY <2>1, <2>2, <2>4, CallerGoes DEF Moves, Becomes
  <2> QED BY <2>1, <2>3, <2>4
<1>6. m.pc \in Committed => id \in Ids
  BY CallerTyped
<1>7. CASE CheckCache(c)
  <2>1. m.pc = "cache" /\ id \in Ids
    BY <1>6, <1>7 DEF CheckCache, At, Committed, CallPcs
  <2>2. PICK a \in LambdasRead(id), policy \in PoliciesRead(id) :
          \/ policy \in {"CALL_ONCE", "CACHE_ONLY"} /\ ReturnFrom(c, a, CallCache, args[a].ret)
          \/ policy = "CACHE_ONLY" /\ ReturnFrom(c, m.arg, CallCacheEmpty, NoValue)
          \/ policy # "CACHE_ONLY" /\ Goto(c, "send")
    BY <1>7 DEF CheckCache, Return
  <2>3. Firm(lreg, rx, id) => policy = P
    BY <1>1, <2>1, <2>2, PolicyKnown
  <2>4. CASE policy \in {"CALL_ONCE", "CACHE_ONLY"} /\ ReturnFrom(c, a, CallCache, args[a].ret)
    <3>1. Allowed(m, CallCache)
      BY <2>3, <2>4 DEF Allowed, PolicyCodes
    <3> QED BY <2>1, <2>4, <3>1, CallerReturns DEF Finishes, Becomes
  <2>5. CASE policy = "CACHE_ONLY" /\ ReturnFrom(c, m.arg, CallCacheEmpty, NoValue)
    <3>1. Allowed(m, CallCacheEmpty)
      BY <2>3, <2>5 DEF Allowed, PolicyCodes
    <3> QED BY <2>1, <2>5, <3>1, CallerReturns DEF Finishes, Becomes
  <2>6. CASE policy # "CACHE_ONLY" /\ Goto(c, "send")
    BY <2>1, <2>3, <2>6, CallerGoes DEF Moves, Becomes
  <2> QED BY <2>2, <2>4, <2>5, <2>6
<1>8. CASE Wait(c)
  <2>1. PICK a : m.pc = "sent" /\ calls' = [calls EXCEPT ![c] = [m EXCEPT !.pc = "waiting", !.arg = a]]
    BY <1>8 DEF Wait, At
  <2>2. Waits(m, k)
    BY <1>1, <1>2, <2>1 DEF Waits, Calls
  <2> QED BY <1>2, <2>1, <2>2 DEF Becomes
<1>9. CASE ReadError(c)
  <2>1. /\ m.pc = "error"
        /\ calls' = [calls EXCEPT ![c] = [m EXCEPT !.pc = "clear", !.code = args[m.arg].err,
                                                   !.raw = args[m.arg].raw]]
    BY <1>9 DEF ReadError, At
  <2>2. Reads(m, k)
    BY <1>1, <1>2, <2>1 DEF Reads, Calls
  <2> QED BY <1>2, <2>1, <2>2 DEF Becomes
<1>10. CASE TakeResult(c)
  <2>1. m.pc = "take" /\ id \in Ids /\ ReturnFrom(c, m.arg, CallSuccess, args[m.arg].ret)
    BY <1>6, <1>10 DEF TakeResult, At, Return, Committed, CallPcs
  <2>2. Allowed(m, CallSuccess)
    <3> SUFFICES ASSUME Firm(lreg, rx, id), P # "CACHE_ONLY" PROVE CallSuccess \in PolicyCodes(P)
      BY <2>1 DEF Allowed
    <3>1. P \in {"NO_CACHE", "CALL_ONCE", "ON_TIMEOUT"}
      BY <1>1, <2>1, PolicyKnown
    <3> HIDE DEF P
    <3> QED BY <3>1 DEF PolicyCodes
  <2> QED BY <2>1, <2>2, CallerReturns DEF Finishes, Becomes
<1>11. CASE ClearError(c)
  BY <1>11, CallerReturns DEF ClearError, At, Return, Finishes, Becomes
<1>12. CASE FallBack(c)
  <2>1. m.pc = "fallback" /\ id \in Ids
    BY <1>6, <1>12 DEF FallBack, At, Committed, CallPcs
  <2>2. PICK policy \in PoliciesRead(id) : \E code, value :
          /\ ReturnFrom(c, m.arg, code, value)
          /\ policy # "ON_TIMEOUT" => code = CallTimeout
          /\ policy = "ON_TIMEOUT" => code \in {CallCacheTimeout, CallCacheTimeoutEmpty}
    BY <1>12 DEF FallBack, Return
  <2>3. PICK code, value :
          /\ ReturnFrom(c, m.arg, code, value)
          /\ policy # "ON_TIMEOUT" => code = CallTimeout
          /\ policy = "ON_TIMEOUT" => code \in {CallCacheTimeout, CallCacheTimeoutEmpty}
    BY <2>2
  <2>4. Allowed(m, code)
    <3> SUFFICES ASSUME Firm(lreg, rx, id), P # "CACHE_ONLY" PROVE code \in PolicyCodes(P)
      BY <2>1 DEF Allowed
    <3>1. P \in {"NO_CACHE", "CALL_ONCE", "ON_TIMEOUT"} /\ policy = P
      BY <1>1, <2>1, <2>2, PolicyKnown
    <3> HIDE DEF P
    <3> QED BY <2>3, <3>1 DEF PolicyCodes
  <2> QED BY <2>1, <2>3, <2>4, CallerReturns DEF Finishes, Becomes
<1>13. CASE Lock(c) \/ Send(c) \/ Relock(c) \/ LookForError(c) \/ Timeout(c)
              \/ SpuriousWakeup(c) \/ Stray(c)
  BY <1>13, CallerMoves DEF Becomes
<1> QED BY <1>3, <1>4, <1>5, <1>7, <1>8, <1>9, <1>10, <1>11, <1>12, <1>13
    DEF CallerStep, CallStep

\* What a caller does to the args objects: it clears the error it has read.
LEMMA CallerArgs ==
  ASSUME CallsInv, SharedInv, NEW c \in Callers, CallerStep(c), NEW i \in Ids
  PROVE  /\ args'[i].ret = args[i].ret /\ args'[i].cached = args[i].cached
         /\ \/ args'[i].err = args[i].err /\ args'[i].raw = args[i].raw
            \/ args'[i].err = 0 /\ args'[i].raw = FALSE
         /\ (calls[c].pc = "clear" /\ i = calls[c].arg) => args'[i].raw = FALSE
<1>1. args[i] \in Arguments /\ args \in [Ids -> Arguments]
  BY DEF SharedInv
<1>2. CASE ClearError(c)
  <2>1. args'[i] = IF i = calls[c].arg THEN [args[i] EXCEPT !.err = 0, !.raw = FALSE] ELSE args[i]
    BY <1>1, <1>2 DEF ClearError
  <2> QED BY <1>1, <2>1 DEF Arguments
<1>3. CASE ~ClearError(c)
  <2>1. args' = args
    BY <1>3, CallerLeaves
  <2>2. calls[c].pc # "clear"
    BY <1>3 DEF CallerStep, Begins, BeginWith, CallStep, Timeout, SpuriousWakeup, Stray, Strays, Lock,
                Lookup, CheckType, CheckCache, Send, Wait, Relock, TakeResult, LookForError,
                ReadError, FallBack, At
  <2> QED BY <2>1, <2>2
<1> QED BY <1>2, <1>3

-----------------------------------------------------------------------------
(***************************************************************************)
(* What a step of the libspt thread does.                                  *)
(***************************************************************************)
\* A caller is left alone, or woken up.
LEMMA RxCallers ==
  ASSUME ConnectorInv, RxStep, NEW c \in Callers
  PROVE  \/ calls'[c] = calls[c]
         \/ /\ calls[c].pc = "waiting" /\ calls'[c].pc = "woken" /\ Same(calls[c], calls'[c])
<1>1. calls[c] \in Calls
  BY DEF ConnectorInv, CallsInv
<1>2. CASE RxBroadcast
  <2>1. \/ calls'[c] = calls[c]
        \/ calls[c].pc = "waiting" /\ calls'[c] = [calls[c] EXCEPT !.pc = "woken"]
    BY <1>2 DEF RxBroadcast, Waiters, At
  <2> QED BY <1>1, <2>1 DEF Calls, Same
<1>3. CASE ~RxBroadcast
  <2>1. calls' = calls
    BY <1>3 DEF RxStep, Receive, RxUnregister, RxClear, RxFree, RxStore, RxNoError, RxCached, RxError
  <2> QED BY <2>1
<1> QED BY <1>2, <1>3

\* A packet goes into its hands as it is; a registration writes a new object.
LEMMA TakesUp ==
  ASSUME ConnectorInv, Receive
  PROVE  /\ InFlight' \subseteq InFlight /\ rx.pc = "idle" /\ produced' = produced
         /\ \/ rx' = rx
            \/ \E p \in InFlight : /\ rx' = [pc |-> FirstStep(p), pkt |-> p]
                                   /\ FirstStep(p) \in {"destroy", "error", "free", "store"}
                                   /\ FirstStep(p) = "error" => p.ptype = "RESULT_ERROR"
                                   /\ FirstStep(p) \in {"free", "store"} => p.ptype = "RESULT"
                                   /\ FirstStep(p) = "free" => p.type = "STRING"
         /\ \A i \in Ids : \/ args'[i] = args[i]
                           \/ /\ i = lreg.counter /\ args'[i].raw = TRUE
                              /\ args'[i].ret = NoValue /\ args'[i].cached = FALSE
<1> DEFINE p == Head(toLinux)
<1>1. toLinux # << >> /\ toLinux' = Tail(toLinux) /\ LineInv /\ args \in [Ids -> Arguments]
  BY DEF Receive, ConnectorInv, SharedInv
<1>2. InFlight' \subseteq InFlight /\ p \in InFlight /\ p \in FromPeer
  BY <1>1, TakesHead, NextPacket
<1> HIDE DEF p
<1>3. \/ rx' = rx
      \/ rx' = [pc |-> FirstStep(p), pkt |-> p] /\ p.ptype # "REGISTERED"
  BY DEF Receive, HandleRegistered, p
<1>4. p.ptype # "REGISTERED" => p.ptype \in {"UNREGISTERED", "RESULT", "RESULT_ERROR"}
  BY <1>2 DEF FromPeer, Registrations, Unregistrations, Mislabelled, Results, ErrorsFor
<1>5. p.ptype # "REGISTERED" =>
        /\ FirstStep(p) \in {"destroy", "error", "free", "store"}
        /\ FirstStep(p) = "error" => p.ptype = "RESULT_ERROR"
        /\ FirstStep(p) \in {"free", "store"} => p.ptype = "RESULT"
        /\ FirstStep(p) = "free" => p.type = "STRING"
  BY <1>4 DEF FirstStep
<1>6. CASE args' = args
  BY <1>2, <1>3, <1>5, <1>6 DEF Receive
<1>7. CASE args' # args
  <2>1. PICK junk \in Leftovers :
          args' = [args EXCEPT ![lreg.counter] = [NoArg EXCEPT !.err = junk, !.raw = TRUE]]
    BY <1>7 DEF Receive, HandleRegistered
  <2> DEFINE new == [NoArg EXCEPT !.err = junk, !.raw = TRUE]
  <2>2. new.raw = TRUE /\ new.ret = NoValue /\ new.cached = FALSE
    BY DEF NoArg
  <2>3. \A i \in Ids : args'[i] = IF i = lreg.counter THEN new ELSE args[i]
    BY <1>1, <2>1
  <2> HIDE DEF new
  <2> QED BY <1>2, <1>3, <1>5, <2>2, <2>3 DEF Receive
<1> QED BY <1>6, <1>7

\* e becomes f when the libspt thread, at pc with packet p, has it in its hands.
Written(pc, p, e, f) ==
  /\ f.cached = (e.cached \/ pc = "cached")
  /\ pc \notin {"free", "store"} => f.ret = e.ret
  /\ pc = "free" => f.ret \in {e.ret, Dangling}
  /\ pc = "store" => f.ret = p.value
  /\ pc \notin {"noerror", "error"} => f.err = e.err /\ f.raw = e.raw
  /\ pc = "noerror" => f.err = 0 /\ f.raw = FALSE
  /\ pc = "error" => f.err = p.code /\ f.raw = FALSE

\* Where it goes with a packet that it has in its hands.
Onward(pc) ==
  CASE pc = "destroy" -> "clear"
    [] pc = "free"    -> "store"
    [] pc = "store"   -> "noerror"
    [] pc = "noerror" -> "cached"
    [] pc = "cached"  -> "broadcast"
    [] pc = "error"   -> "broadcast"
    [] OTHER          -> "idle"

LEMMA RxWrites ==
  ASSUME ConnectorInv, RxStep, ~Receive
  PROVE  /\ rx.pc # "idle" /\ rx.pkt.id \in Ids /\ InFlight' = InFlight /\ produced' = produced
         /\ rx'.pc = Onward(rx.pc) /\ (rx'.pc # "idle" => rx'.pkt = rx.pkt)
         /\ \A i \in Ids : i # rx.pkt.id => args'[i] = args[i]
         /\ Written(rx.pc, rx.pkt, args[rx.pkt.id], args'[rx.pkt.id])
<1> DEFINE id == rx.pkt.id
<1>1. rx = [pc |-> rx.pc, pkt |-> rx.pkt] /\ args \in [Ids -> Arguments]
  BY DEF ConnectorInv, SharedInv, RxStates, RxOf
<1>2. rx.pc # "idle" /\ toLinux' = toLinux /\ produced' = produced
  BY DEF RxStep, RxUnregister, RxClear, RxFree, RxStore, RxNoError, RxCached, RxError, RxBroadcast, line
<1>3. id \in Ids
  BY <1>2, RxPacket DEF ConnectorInv
<1>4. args[id] \in Arguments
  BY <1>1, <1>3
<1>5. rx'.pc = Onward(rx.pc) /\ (rx'.pc # "idle" => rx'.pkt = rx.pkt)
  BY <1>1 DEF RxStep, RxUnregister, RxClear, RxFree, RxStore, RxNoError, RxCached, RxError,
              RxBroadcast, RxGoto, RxIdle, Onward
<1>6. ASSUME NEW f, args' = [args EXCEPT ![id] = f]
      PROVE  args'[id] = f /\ \A i \in Ids : i # id => args'[i] = args[i]
  BY <1>1, <1>3, <1>6
<1>7. \E f : args' = [args EXCEPT ![id] = f] /\ Written(rx.pc, rx.pkt, args[id], f)
  <2>1. CASE args' = args /\ rx.pc \in {"destroy", "clear", "free", "broadcast"}
    <3>1. args' = [args EXCEPT ![id] = args[id]]
      BY <1>1, <1>3, <2>1
    <3>2. Written(rx.pc, rx.pkt, args[id], args[id])
      BY <1>4, <2>1 DEF Written, Arguments
    <3> QED BY <3>1, <3>2
  <2>2. CASE RxFree /\ args' # args
    <3>1. args' = [args EXCEPT ![id] = [args[id] EXCEPT !.ret = Dangling]] /\ rx.pc = "free"
      BY <2>2 DEF RxFree
    <3>2. Written(rx.pc, rx.pkt, args[id], [args[id] EXCEPT !.ret = Dangling])
      BY <1>4, <3>1 DEF Written, Arguments
    <3> QED BY <3>1, <3>2
  <2>3. CASE RxStore
    <3>1. args' = [args EXCEPT ![id] = [args[id] EXCEPT !.ret = rx.pkt.value]] /\ rx.pc = "store"
      BY <2>3 DEF RxStore
    <3>2. Written(rx.pc, rx.pkt, args[id], [args[id] EXCEPT !.ret = rx.pkt.value])
      BY <1>4, <3>1 DEF Written, Arguments
    <3> QED BY <3>1, <3>2
  <2>4. CASE RxNoError
    <3>1. /\ args' = [args EXCEPT ![id] = [args[id] EXCEPT !.err = 0, !.raw = FALSE]]
          /\ rx.pc = "noerror"
      BY <2>4 DEF RxNoError, CallSuccess
    <3>2. Written(rx.pc, rx.pkt, args[id], [args[id] EXCEPT !.err = 0, !.raw = FALSE])
      BY <1>4, <3>1 DEF Written, Arguments
    <3> QED BY <3>1, <3>2
  <2>5. CASE RxCached
    <3>1. args' = [args EXCEPT ![id] = [args[id] EXCEPT !.cached = TRUE]] /\ rx.pc = "cached"
      BY <2>5 DEF RxCached
    <3>2. Written(rx.pc, rx.pkt, args[id], [args[id] EXCEPT !.cached = TRUE])
      BY <1>4, <3>1 DEF Written, Arguments
    <3> QED BY <3>1, <3>2
  <2>6. CASE RxError
    <3> DEFINE code == rx.pkt.code
               f == [args[id] EXCEPT !.err = code, !.raw = FALSE]
    <3>1. args' = [args EXCEPT ![id] = f] /\ rx.pc = "error"
      BY <2>6 DEF RxError
    <3>2. f.err = code /\ f.raw = FALSE /\ f.ret = args[id].ret /\ f.cached = args[id].cached
      <4> HIDE DEF code
      <4> QED BY <1>4 DEF Arguments
    <3> HIDE DEF f
    <3>3. f.cached = (args[id].cached \/ rx.pc = "cached")
      BY <1>4, <3>1, <3>2 DEF Arguments
    <3>4. Written(rx.pc, rx.pkt, args[id], f)
      BY <3>1, <3>2, <3>3 DEF Written
    <3> QED BY <3>1, <3>4
  <2> QED BY <2>1, <2>2, <2>3, <2>4, <2>5, <2>6
      DEF RxStep, RxUnregister, RxClear, RxFree, RxBroadcast
<1>8. PICK f : args' = [args EXCEPT ![id] = f] /\ Written(rx.pc, rx.pkt, args[id], f)
  BY <1>7
<1>9. args'[id] = f /\ \A i \in Ids : i # id => args'[i] = args[i]
  BY <1>6, <1>8
<1>10. InFlight' = InFlight
  BY <1>2 DEF InFlight
<1> QED BY <1>2, <1>3, <1>5, <1>8, <1>9, <1>10

-----------------------------------------------------------------------------
(***************************************************************************)
(* Every call keeps to the lambda that was asked for.                      *)
(***************************************************************************)
LEMMA CallerBound ==
  ASSUME ConnectorInv, CallsBound, NEW c \in Callers, CallerStep(c)
  PROVE  CallsBound'
<1> DEFINE m == calls[c]
           k == calls'[c]
<1>1. /\ lreg' = lreg /\ rx' = rx /\ Becomes(m, k)
      /\ \A d \in Callers : d # c => calls'[d] = calls[d]
  BY CallerLeaves, CallerBecomes DEF ConnectorInv
<1>2. Bound(lreg, rx, m) /\ Held(lreg, m)
  BY DEF CallsBound, ConnectorInv, CallsInv
<1> HIDE DEF m, k
<1>3. Bound(lreg, rx, k)
  <2> USE DEF Bound, Committed, CallPcs, Asking
  <2>1. CASE Starts(m, k)
    BY <2>1 DEF Starts
  <2>2. CASE Moves(m, k)
    BY <1>2, <2>2 DEF Moves, Same
  <2>3. CASE FindsOne(m, k)
    <3>1. m.req \in Request /\ lreg \in Registries /\ WellFormed(lreg)
      BY <1>2, <2>3, ConnectorAssumption DEF FindsOne, Held, ConnectorInv, SharedInv
    <3>2. Suits(lreg, rx, k.id, k.req)
      BY <2>3, <3>1, FoundBelow DEF FindsOne, Suits
    <3> QED BY <2>3, <3>2 DEF FindsOne
  <2>4. CASE Waits(m, k) \/ Reads(m, k)
    BY <1>2, <2>4 DEF Waits, Reads
  <2>5. CASE Finishes(m, k)
    BY <1>2, <2>5 DEF Finishes, Held
  <2> QED BY <1>1, <2>1, <2>2, <2>3, <2>4, <2>5 DEF Becomes
<1>4. \A d \in Callers : Bound(lreg, rx, calls'[d])
  BY <1>1, <1>3 DEF CallsBound, k
<1> QED BY <1>1, <1>4 DEF CallsBound, Bound, Suits, OfType, Firm

LEMMA RxBound ==
  ASSUME ConnectorInv, CallsBound, RxStep
  PROVE  CallsBound'
<1>1. OnlyGrows
  BY RxGrows
<1>2. ASSUME NEW c \in Callers
      PROVE  Bound(lreg', rx', calls'[c])
  <2>1. Bound(lreg, rx, calls[c]) /\ Held(lreg, calls[c])
    BY DEF CallsBound, ConnectorInv, CallsInv
  <2>2. Bound(lreg', rx', calls[c])
    <3>1. CASE calls[c].pc \in Committed
      <4>1. /\ calls[c].id \in Ids
            /\ Firm(lreg', rx', calls[c].id) =>
                 Firm(lreg, rx, calls[c].id) /\ lreg'.slot[calls[c].id] = lreg.slot[calls[c].id]
        BY <1>1, <2>1, <3>1 DEF Held, OnlyGrows, Firm
      <4> QED BY <2>1, <3>1, <4>1 DEF Bound, Suits, OfType
    <3>2. CASE calls[c].pc \notin Committed
      BY <2>1, <3>2 DEF Bound
    <3> QED BY <3>1, <3>2
  <2> QED BY <2>2, RxCallers DEF Bound, Same, Committed, CallPcs
<1> QED BY <1>2 DEF CallsBound, Bound, Suits, OfType, Firm

LEMMA RestartBound == Restart => CallsBound'
  BY DEF Restart, CallsBound, Bound, NoCall, Committed

LEMMA OthersBound == CallsBound /\ UNCHANGED connectorVars => CallsBound'
  BY DEF connectorVars, CallsBound, Bound, Suits, OfType, Firm

-----------------------------------------------------------------------------
(***************************************************************************)
(* The codes.                                                              *)
(***************************************************************************)
LEMMA CallerCodes ==
  ASSUME ConnectorInv, CodesInv, NEW c \in Callers, CallerStep(c)
  PROVE  CodesInv'
<1> DEFINE m == calls[c]
           k == calls'[c]
<1>1. /\ lreg' = lreg /\ rx' = rx /\ Becomes(m, k) /\ toLinux' = toLinux
      /\ \A d \in Callers : d # c => calls'[d] = calls[d]
  BY CallerLeaves, CallerBecomes DEF ConnectorInv
<1>2. Coded(lreg, rx, m) /\ Held(lreg, m)
  BY DEF CodesInv, ConnectorInv, CallsInv
<1>3. Reads(m, k) => m.arg \in Ids
  BY <1>2 DEF Reads, Held, Waited
<1>4. \A id \in Ids : Firm(lreg, rx, id) =>
        lreg.slot[id].cache \in {"NO_CACHE", "CALL_ONCE", "CACHE_ONLY", "ON_TIMEOUT"}
  BY PolicyKnown DEF ConnectorInv, SharedInv
<1> HIDE DEF m, k
<1>5. Coded(lreg, rx, k)
  <2> USE DEF Coded, Asking, Committed, CallPcs
  <2>1. CASE Starts(m, k)
    BY <2>1 DEF Starts
  <2>2. CASE Moves(m, k)
    BY <1>2, <2>2 DEF Moves, Same
  <2>3. CASE FindsOne(m, k)
    BY <2>3 DEF FindsOne
  <2>4. CASE Waits(m, k)
    BY <1>2, <2>4 DEF Waits
  <2>5. CASE Reads(m, k)
    BY <1>2, <1>3, <2>5 DEF Reads, CodesInv, ErrorsCoded
  <2>6. CASE Finishes(m, k)
    <3> SUFFICES ASSUME k.id # Null, Firm(lreg, rx, k.id), ~k.raw
                 PROVE  k.code \in PolicyCodes(lreg.slot[k.id].cache) \cup {CallNotFound, CallWrongType}
      BY <2>6 DEF Finishes
    <3>1. CASE m.pc \in {"lookup", "type"}
      BY <2>6, <3>1 DEF Finishes
    <3>2. CASE m.pc = "clear"
      <4>1. m.id = k.id /\ k.id \in Ids /\ lreg.slot[k.id].cache # "CACHE_ONLY"
        BY <1>2, <2>6, <3>2 DEF Finishes, Held
      <4>2. lreg.slot[k.id].cache \in {"NO_CACHE", "CALL_ONCE", "ON_TIMEOUT"}
        BY <1>4, <4>1
      <4>3. k.code \in ErrorCodes
        BY <1>2, <2>6, <3>2 DEF Finishes
      <4>4. CallSuccess \in PolicyCodes(lreg.slot[k.id].cache)
        BY <4>2 DEF PolicyCodes
      <4> QED BY <4>3, <4>4 DEF ErrorCodes
    <3>3. CASE m.pc \in {"cache", "take", "fallback"}
      BY <1>2, <2>6, <3>3 DEF Finishes, Allowed
    <3> QED BY <2>6, <3>1, <3>2, <3>3 DEF Finishes
  <2> QED BY <1>1, <2>1, <2>2, <2>3, <2>4, <2>5, <2>6 DEF Becomes
<1>6. \A d \in Callers : Coded(lreg, rx, calls'[d])
  BY <1>1, <1>5 DEF CodesInv, k
<1>7. \A i \in Ids : args'[i].raw \/ args'[i].err \in ErrorCodes
  BY CallerArgs DEF ConnectorInv, CodesInv, ErrorsCoded, ErrorCodes, CallSuccess
<1>8. InFlight' = InFlight
  BY <1>1 DEF InFlight
<1> QED BY <1>1, <1>6, <1>7, <1>8 DEF CodesInv, ErrorsCoded, Coded, Firm

LEMMA RxCodes ==
  ASSUME ConnectorInv, CodesInv, RxStep
  PROVE  CodesInv'
<1>1. OnlyGrows
  BY RxGrows
<1>2. ASSUME NEW c \in Callers
      PROVE  Coded(lreg', rx', calls'[c])
  <2>1. Coded(lreg, rx, calls[c]) /\ Held(lreg, calls[c])
    BY DEF CodesInv, ConnectorInv, CallsInv
  <2>2. Coded(lreg', rx', calls[c])
    <3>1. CASE calls[c].id # Null
      <4>1. /\ calls[c].id \in Ids
            /\ Firm(lreg', rx', calls[c].id) =>
                 Firm(lreg, rx, calls[c].id) /\ lreg'.slot[calls[c].id] = lreg.slot[calls[c].id]
        BY <1>1, <2>1, <3>1 DEF Held, OnlyGrows, Firm
      <4> QED BY <2>1, <4>1 DEF Coded
    <3>2. CASE calls[c].id = Null
      BY <2>1, <3>2 DEF Coded, Held, Asking
    <3> QED BY <3>1, <3>2
  <2> QED BY <2>2, RxCallers DEF Coded, Same, Asking, Committed, CallPcs
<1>3. ErrorsCoded'
  <2>1. ErrorsCoded
    BY DEF CodesInv
  <2>2. CASE Receive
    <3>1. \A i \in Ids : args'[i].raw \/ args'[i].err \in ErrorCodes
      BY <2>1, <2>2, TakesUp DEF ErrorsCoded
    <3>2. rx'.pc = "error" => rx'.pkt.code \in ErrorCodes
      <4>1. CASE rx' = rx
        BY <2>1, <4>1 DEF ErrorsCoded
      <4>2. CASE rx' # rx
        <5>1. PICK p \in InFlight : /\ rx' = [pc |-> FirstStep(p), pkt |-> p]
                                    /\ FirstStep(p) = "error" => p.ptype = "RESULT_ERROR"
          BY <2>2, <4>2, TakesUp
        <5> QED BY <2>1, <5>1 DEF ErrorsCoded
      <4> QED BY <4>1, <4>2
    <3> QED BY <2>1, <2>2, <3>1, <3>2, TakesUp DEF ErrorsCoded
  <2>3. CASE ~Receive
    <3>1. ASSUME NEW i \in Ids
          PROVE  args'[i].raw \/ args'[i].err \in ErrorCodes
      BY <2>1, <2>3, RxWrites DEF ErrorsCoded, Written, ErrorCodes, CallSuccess
    <3>2. rx'.pc # "error"
      BY <2>3, RxWrites DEF Onward
    <3> QED BY <2>1, <2>3, <3>1, <3>2, RxWrites DEF ErrorsCoded
  <2> QED BY <2>2, <2>3
<1> QED BY <1>2, <1>3 DEF CodesInv, Coded, Firm

LEMMA RestartCodes ==
  ASSUME CodesInv, Restart
  PROVE  CodesInv'
<1>1. InFlight' = InFlight
  BY DEF Restart, line, InFlight
<1> QED BY <1>1 DEF Restart, CodesInv, Coded, ErrorsCoded, NoCall, NoArg, RxIdle, Asking, Committed,
                    ErrorCodes, CallSuccess

LEMMA OthersCodes ==
  ASSUME CodesInv, UNCHANGED connectorVars,
         \A p \in InFlight' : p.ptype = "RESULT_ERROR" => p.code \in ErrorCodes
  PROVE  CodesInv'
  BY DEF connectorVars, CodesInv, Coded, ErrorsCoded, Firm

-----------------------------------------------------------------------------
(***************************************************************************)
(* The byte that nobody wrote.                                             *)
(***************************************************************************)
LEMMA CallerJunk ==
  ASSUME ConnectorInv, JunkInv, NEW c \in Callers, CallerStep(c)
  PROVE  JunkInv'
<1> DEFINE m == calls[c]
           k == calls'[c]
<1>1. Becomes(m, k) /\ \A d \in Callers : d # c => calls'[d] = calls[d]
  BY CallerBecomes DEF ConnectorInv
<1>2. Reported(args, m) /\ Held(lreg, m)
  BY DEF JunkInv, ConnectorInv, CallsInv
<1>3. \A i \in Ids : /\ args'[i].raw => args[i].raw
                     /\ (m.pc = "clear" /\ i = m.arg) => ~args'[i].raw
  BY CallerArgs DEF ConnectorInv
<1>4. ASSUME NEW d \in Callers, d # c, calls[d].pc = "clear"
      PROVE  m.pc # "error"
  BY <1>4 DEF ConnectorInv, CallsInv, MutexHeld, Critical
<1>5. \/ ~k.raw
      \/ m.raw /\ m.pc = "clear" /\ k.pc = "idle" /\ k.arg = m.arg
      \/ Reads(m, k)
  <2> HIDE DEF m, k
  <2> QED BY <1>1, <1>2 DEF Becomes, Starts, Moves, FindsOne, Waits, Finishes, Reported, Same,
                            Asking, Committed, CallPcs
<1>6. ASSUME NEW d \in Callers
      PROVE  Reported(args', calls'[d])
  <2>1. CASE d # c
    BY <1>1, <1>3, <2>1 DEF JunkInv, Reported
  <2>2. CASE d = c
    <3> HIDE DEF m, k
    <3>1. Reported(args', k)
      BY <1>2, <1>3, <1>5 DEF Reported, Reads, Held, Waited
    <3> QED BY <2>2, <3>1 DEF k
  <2> QED BY <2>1, <2>2
<1>7. ASSUME NEW d \in Callers, d # c, k.raw, calls[d].raw, k.arg = calls[d].arg
      PROVE  FALSE
  <2>1. CASE m.raw /\ k.arg = m.arg
    BY <1>7, <2>1 DEF JunkInv, JunkReportedOnce
  <2>2. CASE Reads(m, k)
    <3>1. m.pc = "error" /\ k.arg = m.arg /\ args[m.arg].raw
      BY <1>7, <2>2 DEF Reads
    <3>2. Reported(args, calls[d]) /\ calls[d].arg = m.arg
      BY <1>7, <3>1 DEF JunkInv
    <3>3. calls[d].pc = "clear"
      BY <1>7, <3>1, <3>2 DEF Reported
    <3> QED BY <1>4, <1>7, <3>1, <3>3
  <2> QED BY <1>5, <1>7, <2>1, <2>2
<1>8. JunkReportedOnce'
  <2> SUFFICES ASSUME NEW d \in Callers, NEW e \in Callers, calls'[d].raw, calls'[e].raw,
                      calls'[d].arg = calls'[e].arg, d # e
               PROVE  FALSE
    BY DEF JunkReportedOnce
  <2>1. CASE d = c
    BY <1>1, <1>7, <2>1
  <2>2. CASE e = c
    BY <1>1, <1>7, <2>2
  <2>3. CASE d # c /\ e # c
    BY <1>1, <2>3 DEF JunkInv, JunkReportedOnce
  <2> QED BY <2>1, <2>2, <2>3
<1> QED BY <1>6, <1>8 DEF JunkInv, Reported

LEMMA RxJunk ==
  ASSUME ConnectorInv, JunkInv, RxStep
  PROVE  JunkInv'
<1>1. ASSUME NEW c \in Callers
      PROVE  /\ calls'[c].raw = calls[c].raw /\ calls'[c].arg = calls[c].arg
             /\ calls[c].raw => calls'[c].pc = calls[c].pc
  BY RxCallers DEF JunkInv, Reported, Same
<1>2. ASSUME NEW i \in Ids, i < lreg.counter
      PROVE  args'[i].raw => args[i].raw
  <2>1. lreg.counter \in Int /\ i # lreg.counter
    BY <1>2, RegistryAssumption DEF ConnectorInv, SharedInv, Registries
  <2>2. CASE Receive
    BY <2>1, <2>2, TakesUp
  <2>3. CASE ~Receive
    BY <2>3, RxWrites DEF Written
  <2> QED BY <2>2, <2>3
<1>3. ASSUME NEW c \in Callers
      PROVE  Reported(args', calls'[c])
  <2>1. Reported(args, calls[c]) /\ Held(lreg, calls[c])
    BY DEF JunkInv, ConnectorInv, CallsInv
  <2>2. calls[c].raw => calls[c].arg \in Ids /\ calls[c].arg < lreg.counter
    BY <2>1, ConnectorAssumption DEF Reported, Held
  <2> QED BY <1>1, <1>2, <2>1, <2>2 DEF Reported
<1> QED BY <1>1, <1>3 DEF JunkInv, JunkReportedOnce, Reported

LEMMA RestartJunk == Restart => JunkInv'
  BY DEF Restart, JunkInv, JunkReportedOnce, Reported, NoCall

LEMMA OthersJunk == JunkInv /\ UNCHANGED connectorVars => JunkInv'
  BY DEF connectorVars, JunkInv, JunkReportedOnce, Reported

-----------------------------------------------------------------------------
(***************************************************************************)
(* What is cached.                                                         *)
(***************************************************************************)
LEMMA CallerCached ==
  ASSUME ConnectorInv, CachedInv, NEW c \in Callers, CallerStep(c)
  PROVE  CachedInv'
<1>1. rx' = rx
  BY CallerLeaves
<1>2. rx.pc # "idle" => rx.pkt.id \in Ids
  BY RxPacket DEF ConnectorInv
<1> QED BY <1>1, <1>2, CallerArgs DEF ConnectorInv, CachedInv

LEMMA RxCachedInv ==
  ASSUME ConnectorInv, CachedInv, RxStep
  PROVE  CachedInv'
<1>1. CASE Receive
  <2>1. rx'.pc \notin {"noerror", "cached"}
    <3>1. CASE rx' = rx
      BY <1>1, <3>1, TakesUp
    <3>2. CASE rx' # rx
      <4>1. PICK p \in InFlight : /\ rx' = [pc |-> FirstStep(p), pkt |-> p]
                                  /\ FirstStep(p) \in {"destroy", "error", "free", "store"}
        BY <1>1, <3>2, TakesUp
      <4> QED BY <4>1
    <3> QED BY <3>1, <3>2
  <2>2. \A i \in Ids : args'[i].cached => args'[i].ret # NoValue
    BY <1>1, TakesUp DEF CachedInv
  <2> QED BY <2>1, <2>2 DEF CachedInv
<1>2. CASE ~Receive
  <2>1. rx.pc = "store" => rx.pkt.value # NoValue
    BY RxPacket DEF ConnectorInv, Results, NoValue
  <2>2. Dangling # NoValue
    BY DEF Dangling, NoValue
  <2>3. rx.pkt.id \in Ids /\ Written(rx.pc, rx.pkt, args[rx.pkt.id], args'[rx.pkt.id])
    BY <1>2, RxWrites
  <2>4. args'[rx.pkt.id].cached => args'[rx.pkt.id].ret # NoValue
    BY <2>1, <2>2, <2>3 DEF CachedInv, Written
  <2>5. rx'.pc \in {"noerror", "cached"} => args'[rx'.pkt.id].ret # NoValue
    BY <1>2, <2>1, <2>3, RxWrites DEF CachedInv, Written, Onward
  <2> QED BY <1>2, <2>4, <2>5, RxWrites DEF CachedInv
<1> QED BY <1>1, <1>2

LEMMA RestartCached == Restart => CachedInv'
  BY DEF Restart, CachedInv, NoArg, RxIdle

LEMMA OthersCached == CachedInv /\ UNCHANGED connectorVars => CachedInv'
  BY DEF connectorVars, CachedInv

-----------------------------------------------------------------------------
(***************************************************************************)
(* The values.  What fits stays fitting: ids keep their type, and values   *)
(* are only added.                                                         *)
(***************************************************************************)
Advances ==
  /\ OnlyGrows /\ lreg.counter \in Int /\ lreg'.counter \in Int
  /\ produced \in Nat /\ produced' \in Nat /\ produced <= produced'

LEMMA CallerAdvances ==
  ASSUME ConnectorInv, NEW c \in Callers, CallerStep(c)
  PROVE  Advances
<1>1. lreg' = lreg /\ rx' = rx /\ produced' = produced
  BY CallerLeaves
<1> QED BY <1>1, StaysGrows, RegistryAssumption
        DEF Advances, ConnectorInv, SharedInv, LineInv, Registries

LEMMA RxAdvances == ConnectorInv /\ RxStep => Advances
<1> SUFFICES ASSUME ConnectorInv, RxStep PROVE Advances
  OBVIOUS
<1>1. produced' = produced
  BY TakesUp, RxWrites
<1> QED BY <1>1, RxGrows DEF Advances, ConnectorInv, LineInv

LEMMA OthersAdvance ==
  ASSUME ConnectorInv, UNCHANGED connectorVars, produced' \in Nat, produced <= produced'
  PROVE  Advances
  BY StaysGrows, RegistryAssumption DEF Advances, connectorVars, ConnectorInv, SharedInv, LineInv, Registries

LEMMA StaysFit ==
  ASSUME Advances
  PROVE  /\ \A p : FitsHere(lreg, produced, p) => FitsHere(lreg', produced', p)
         /\ \A i \in Ids : \A a : MadeAt(a, lreg, produced, i) => MadeAt(a, lreg', produced', i)
<1>1. \A i \in Ids : i \in Int
  BY RegistryAssumption DEF Ids
<1>2. ASSUME NEW i \in Ids, NEW t, i < lreg.counter, TypedAs(lreg, i, t)
      PROVE  i < lreg'.counter /\ TypedAs(lreg', i, t)
  BY <1>1, <1>2 DEF Advances, OnlyGrows, TypedAs
<1>3. 1 .. produced \subseteq 1 .. produced'
  BY DEF Advances
<1> QED BY <1>2, <1>3 DEF FitsHere, MadeAt

LEMMA CallerMade ==
  ASSUME ConnectorInv, MadeInv, NEW c \in Callers, CallerStep(c)
  PROVE  MadeInv'
<1>1. lreg' = lreg /\ rx' = rx /\ produced' = produced /\ InFlight' = InFlight
  BY CallerLeaves DEF InFlight
<1>2. \A i \in Ids : MadeAt(args'[i], lreg, produced, i)
  BY CallerArgs DEF ConnectorInv, MadeInv, MadeAt
<1> QED BY <1>1, <1>2 DEF MadeInv, ResultsFit, RxResult, FitsHere, MadeAt, TypedAs

LEMMA RxMade ==
  ASSUME ConnectorInv, MadeInv, RxStep
  PROVE  MadeInv'
<1>1. Advances
  BY RxAdvances
<1>2. InFlight' \subseteq InFlight
  BY TakesUp, RxWrites
<1>3. /\ RxResult' => FitsHere(lreg, produced, rx'.pkt)
      /\ rx'.pc = "free" => rx'.pkt.type = "STRING"
  <2>1. CASE Receive
    <3>1. CASE rx' = rx
      BY <3>1 DEF MadeInv, ResultsFit, RxResult
    <3>2. CASE rx' # rx
      <4>1. PICK p \in InFlight : /\ rx' = [pc |-> FirstStep(p), pkt |-> p]
                                  /\ FirstStep(p) \in {"destroy", "error", "free", "store"}
                                  /\ FirstStep(p) \in {"free", "store"} => p.ptype = "RESULT"
                                  /\ FirstStep(p) = "free" => p.type = "STRING"
        BY <2>1, <3>2, TakesUp
      <4> QED BY <4>1 DEF MadeInv, ResultsFit, RxResult
    <3> QED BY <3>1, <3>2
  <2>2. CASE ~Receive
    <3>1. rx'.pc = Onward(rx.pc) /\ (rx'.pc # "idle" => rx'.pkt = rx.pkt)
      BY <2>2, RxWrites
    <3>2. RxResult' => RxResult /\ rx'.pkt = rx.pkt
      BY <3>1 DEF RxResult, Onward
    <3>3. rx'.pc # "free"
      BY <3>1 DEF Onward
    <3> QED BY <3>2, <3>3 DEF MadeInv, ResultsFit
  <2> QED BY <2>1, <2>2
<1>4. ASSUME NEW i \in Ids
      PROVE  MadeAt(args'[i], lreg, produced, i)
  <2>1. MadeAt(args[i], lreg, produced, i)
    BY DEF MadeInv
  <2>2. CASE Receive
    <3>1. NoValue # Dangling
      BY DEF NoValue, Dangling
    <3> QED BY <2>1, <2>2, <3>1, TakesUp DEF MadeAt
  <2>3. CASE ~Receive
    <3>1. i # rx.pkt.id => args'[i] = args[i]
      BY <2>3, RxWrites
    <3>2. ASSUME i = rx.pkt.id PROVE Written(rx.pc, rx.pkt, args[i], args'[i])
      BY <2>3, <3>2, RxWrites
    <3>3. CASE rx.pc \notin {"free", "store"}
      BY <2>1, <3>1, <3>2, <3>3 DEF Written, MadeAt
    <3>4. CASE rx.pc = "free"
      <4>1. FitsHere(lreg, produced, rx.pkt) /\ rx.pkt.type = "STRING"
        BY <3>4 DEF MadeInv, ResultsFit, RxResult
      <4> QED BY <2>1, <3>1, <3>2, <3>4, <4>1 DEF Written, MadeAt, FitsHere
    <3>5. CASE rx.pc = "store"
      <4>1. rx.pkt.value \in 1 .. produced
        BY <3>5 DEF MadeInv, ResultsFit, RxResult, FitsHere
      <4>2. rx.pkt.value # Dangling
        BY <4>1 DEF Dangling
      <4> QED BY <2>1, <3>1, <3>2, <3>5, <4>1, <4>2 DEF Written, MadeAt
    <3> QED BY <3>3, <3>4, <3>5
  <2> QED BY <2>2, <2>3
<1>5. \A p \in InFlight' : p.ptype = "RESULT" => FitsHere(lreg', produced', p)
  BY <1>1, <1>2, StaysFit DEF MadeInv, ResultsFit
<1>6. RxResult' => FitsHere(lreg', produced', rx'.pkt)
  BY <1>1, <1>3, StaysFit
<1>7. \A i \in Ids : MadeAt(args'[i], lreg', produced', i)
  BY <1>1, <1>4, StaysFit
<1>8. (\A p \in InFlight : p.ptype = "RESULT" => FitsHere(lreg, produced, p))'
  BY <1>5 DEF FitsHere, TypedAs
<1> QED BY <1>3, <1>6, <1>7, <1>8 DEF MadeInv, ResultsFit, RxResult, FitsHere, MadeAt, TypedAs

\* Whoever else moves may send results that fit.
LEMMA OthersMade ==
  ASSUME ConnectorInv, MadeInv, UNCHANGED connectorVars, produced' \in Nat, produced <= produced',
         \A p \in InFlight' : p \in InFlight \/ (p.ptype = "RESULT" => FitsHere(lreg, produced', p))
  PROVE  MadeInv'
<1>1. Advances
  BY OthersAdvance
<1>2. lreg' = lreg /\ args' = args /\ rx' = rx
  BY DEF connectorVars
<1>3. \A p : FitsHere(lreg, produced, p) => FitsHere(lreg, produced', p)
  BY <1>1, <1>2, StaysFit
<1>4. \A i \in Ids : MadeAt(args[i], lreg, produced', i)
  BY <1>1, <1>2, StaysFit DEF MadeInv
<1> QED BY <1>2, <1>3, <1>4 DEF MadeInv, ResultsFit, RxResult, FitsHere, MadeAt, TypedAs

-----------------------------------------------------------------------------
(***************************************************************************)
(* The start.                                                              *)
(***************************************************************************)
LEMMA FreshStart == ConnectorInit /\ SerialInit => CallsBound /\ CodesInv /\ JunkInv /\ CachedInv /\ MadeInv
<1> SUFFICES ASSUME ConnectorInit, SerialInit
             PROVE  CallsBound /\ CodesInv /\ JunkInv /\ CachedInv /\ MadeInv
  OBVIOUS
<1> USE DEF ConnectorInit, NoCall, NoArg, RxIdle
<1>1. InFlight = {}
  BY DEF SerialInit, InFlight
<1>2. CallsBound /\ JunkInv /\ CachedInv
  BY DEF CallsBound, Bound, Committed, JunkInv, JunkReportedOnce, Reported, CachedInv
<1>3. CodesInv
  BY <1>1 DEF CodesInv, Coded, ErrorsCoded, ErrorCodes, CallSuccess, Asking, Committed
<1>4. MadeInv
  BY <1>1 DEF MadeInv, ResultsFit, RxResult, MadeAt, NoValue, Dangling
<1> QED BY <1>2, <1>3, <1>4

-----------------------------------------------------------------------------
(***************************************************************************)
(* The packets of the peer.                                                *)
(***************************************************************************)

\* What a packet of the peer says is true of the connector's registry: results
\* are new values of lambdas that are registered under their ids.
PeerPacket(p) ==
  /\ p \in FromPeer
  /\ p.ptype = "RESULT" => /\ lreg.slot[p.id] # Null /\ p.id < lreg.counter
                           /\ p.type = lreg.slot[p.id].type
                           /\ produced' = produced + 1 /\ p.value = produced'
  /\ p.ptype = "RESULT_ERROR" => PeerErrors /\ p.code = CallNotFound

\* A result of a registered lambda, an error and a cancelled registration.
LEMMA OfEntry ==
  ASSUME lreg \in Registries, WellFormed(lreg), produced \in Nat, NEW i \in Live(lreg)
  PROVE  /\ produced' = produced + 1 =>
              PeerPacket(ResultPacket(lreg.slot[i].type, i, lreg.slot[i].name, produced'))
         /\ PeerErrors => PeerPacket(ErrorPacket(i, CallNotFound))
         /\ PeerPacket(UnregisteredPacket("UNREGISTERED", i, lreg.slot[i].name))
<1>1. /\ lreg.slot[i] \in Entry /\ lreg.slot[i] # Null /\ i \in Ids /\ i < lreg.counter
      /\ i \in 0 .. MaxLambdas
  BY RegistryAssumption DEF Live, Registries, WellFormed, SlotsBelowCounter, Ids
<1>2. lreg.slot[i].name \in Names /\ lreg.slot[i].type \in Types
  BY <1>1 DEF Entry, Names
<1>3. ASSUME produced' = produced + 1
      PROVE  PeerPacket(ResultPacket(lreg.slot[i].type, i, lreg.slot[i].name, produced'))
  BY <1>1, <1>2, <1>3 DEF ResultPacket, PeerPacket, FromPeer, Results
<1>4. ErrorPacket(i, CallNotFound) \in FromPeer
  BY <1>1, CodesTyped DEF ErrorPacket, FromPeer, ErrorsFor
<1>5. UnregisteredPacket("UNREGISTERED", i, lreg.slot[i].name) \in FromPeer
  BY <1>1, <1>2 DEF UnregisteredPacket, FromPeer, Unregistrations
<1> QED BY <1>3, <1>4, <1>5 DEF PeerPacket, ErrorPacket, UnregisteredPacket

\* All that the peer does is to take calls off the line and put a packet on it.
LEMMA PeerSends ==
  ASSUME ConnectorInv, PeerNext
  PROVE  /\ UNCHANGED connectorVars
         /\ toBoard' \in Seq(ToPeer) /\ produced' \in {produced, produced + 1}
         /\ toLinux' = toLinux \/ \E p : PeerPacket(p) /\ SendToLinux(p)
<1>1. UNCHANGED connectorVars
  BY DEF PeerNext, PeerRegister, PeerUnregister, PeerAnswer, PeerPush
<1>2. /\ lreg \in Registries /\ WellFormed(lreg)
      /\ toBoard \in Seq(ToPeer) /\ produced \in Nat
  BY DEF ConnectorInv, SharedInv, LineInv
<1>3. CASE PeerRegister
  <2>1. \A o \in Offers : PeerPacket(RegisteredPacket(o.name, o.type, o.cache))
    BY PeerAssumption DEF RegisteredPacket, PeerPacket, FromPeer, Registrations
  <2> QED BY <1>1, <1>2, <1>3, <2>1 DEF PeerRegister
<1>4. CASE PeerUnregister
  BY <1>1, <1>2, <1>4, OfEntry DEF PeerUnregister
<1>5. CASE PeerPush
  BY <1>1, <1>2, <1>5, OfEntry DEF PeerPush
<1>6. CASE PeerAnswer
  <2> DEFINE q == Head(toBoard)
             e == Called(q)
  <2>1. toBoard # << >> /\ q \in ToPeer /\ toBoard' \in Seq(ToPeer)
    BY <1>2, <1>6 DEF PeerAnswer
  <2>2. e # Null => e.id \in Live(lreg) /\ lreg.slot[e.id] = e
    <3>1. CASE q \in CallsById
      <4>1. q.ptype = "CALL_BY_ID" /\ q.id \in Nat
        BY <3>1, RegistryAssumption DEF CallsById
      <4> QED BY <1>2, <4>1, LookupFinds DEF Called, Live
    <3>2. CASE q \in CallsByName
      <4>1. q.ptype = "CALL_BY_NAME"
        BY <3>2 DEF CallsByName
      <4> QED BY <1>2, <4>1, LookupFinds DEF Called, Live
    <3> QED BY <2>1, <3>1, <3>2 DEF ToPeer
  <2>3. \/ toLinux' = toLinux /\ produced' = produced
        \/ /\ e # Null /\ produced' = produced + 1
           /\ SendToLinux(ResultPacket(e.type, e.id, e.name, produced'))
        \/ /\ e # Null /\ PeerErrors /\ produced' = produced
           /\ SendToLinux(ErrorPacket(e.id, CallNotFound))
    BY <1>6 DEF PeerAnswer
  <2> HIDE DEF e
  <2> QED BY <1>1, <1>2, <2>1, <2>2, <2>3, OfEntry
<1> QED BY <1>3, <1>4, <1>5, <1>6 DEF PeerNext

\* Whatever the peer does, the packets it sends are of their type.
LEMMA PeerInv ==
  ASSUME ConnectorInv, PeerNext
  PROVE  ConnectorInv'
<1>1. toLinux \in Seq(FromPeer) /\ produced \in Nat
  BY DEF ConnectorInv, LineInv
<1>2. \A p \in FromPeer : SendToLinux(p) => toLinux' \in Seq(FromPeer)
  BY <1>1 DEF SendToLinux, Put
<1>3. LineInv'
  BY <1>1, <1>2, PeerSends DEF PeerPacket, LineInv
<1> QED BY <1>3, PeerSends, OthersStepInv

LEMMA NextInv == ConnectorInv /\ [Next]_vars => ConnectorInv'
<1> SUFFICES ASSUME ConnectorInv, [Next]_vars PROVE ConnectorInv'
  OBVIOUS
<1>1. CASE UNCHANGED vars
  <2>1. LineInv'
    BY <1>1 DEF vars, line, ConnectorInv, LineInv
  <2> QED BY <1>1, <2>1, OthersStepInv DEF vars
<1>2. CASE Next
  BY <1>2, ConnectorStepInv, PeerInv DEF Next
<1> QED BY <1>1, <1>2

LEMMA AlwaysInv == Spec => []ConnectorInv
  BY ConnectorInitInv, NextInv, PTL DEF Spec, Init

\* The lock of rs_connector.c, for any number of callers: a thread holds
\* accessing_registry exactly while it is in the critical part of a call.
THEOREM MutexAlwaysHeld == Spec => []MutexHeld
<1>1. ConnectorInv => MutexHeld
  BY DEF ConnectorInv, CallsInv
<1> QED BY <1>1, AlwaysInv, PTL

\* Every variable of rs_connector.c keeps its type; in particular no packet
\* makes it write outside its array of lambdas.
THEOREM ConnectorTypeCorrect == Spec => []ConnectorTypeOK
  BY AlwaysInv, ConnectorTyped, PTL

\* The connector's own registry is well formed, whatever packets arrive.
THEOREM ConnectorRegistryWellFormed == Spec => []WellFormed(lreg)
<1>1. ConnectorInv => WellFormed(lreg)
  BY DEF ConnectorInv, SharedInv
<1> QED BY <1>1, AlwaysInv, PTL

\* No call goes out for a CACHE_ONLY lambda that is registered, although the
\* policy was read some steps before and the libspt thread changes the registry
\* meanwhile.
THEOREM CacheOnlyIsNeverCalled == Spec => CacheOnlyNeverCalled
<1>1. ConnectorInv /\ [Next]_vars =>
        [\A c \in Callers :
           (At(c, "send") /\ calls'[c].pc = "sent" /\ ~Gone(calls[c].id))
              => PolicyOf(calls[c].id) # "CACHE_ONLY"]_<<connectorVars, line>>
  BY FirmNotGone DEF ConnectorInv, CallsInv, Checked, PolicyOf, At
<1> QED BY <1>1, AlwaysInv, PTL DEF Spec, CacheOnlyNeverCalled

-----------------------------------------------------------------------------
(***************************************************************************)
(* The calls keep to their lambdas, and what they return.                  *)
(***************************************************************************)
LEMMA PeerUntouched == ConnectorInv /\ (PeerNext \/ UNCHANGED vars) => UNCHANGED connectorVars
  BY PeerSends DEF vars

LEMMA NextBound == ConnectorInv /\ CallsBound /\ [Next]_vars => CallsBound'
  BY CallerSteps, CallerBound, RxBound, RestartBound, OthersBound, PeerUntouched
     DEF Next, ConnectorNext

LEMMA NextCodes == ConnectorInv /\ CodesInv /\ [Next]_vars => CodesInv'
<1> SUFFICES ASSUME ConnectorInv, CodesInv, [Next]_vars PROVE CodesInv'
  OBVIOUS
<1>1. CASE ConnectorNext
  BY <1>1, CallerSteps, CallerCodes, RxCodes, RestartCodes DEF ConnectorNext
<1>2. CASE PeerNext
  <2>1. \A p \in InFlight' : p.ptype = "RESULT_ERROR" => p.code \in ErrorCodes
    <3>1. CASE toLinux' = toLinux
      BY <3>1 DEF InFlight, CodesInv, ErrorsCoded
    <3>2. CASE toLinux' # toLinux
      <4>1. PICK p : PeerPacket(p) /\ SendToLinux(p)
        BY <1>2, <3>2, PeerSends
      <4>2. p.ptype = "RESULT_ERROR" => p.code \in ErrorCodes
        BY <4>1 DEF PeerPacket, ErrorCodes
      <4> QED BY <4>1, <4>2, Sends DEF ConnectorInv, CodesInv, ErrorsCoded
    <3> QED BY <3>1, <3>2
  <2> QED BY <1>2, <2>1, PeerSends, OthersCodes
<1>3. CASE UNCHANGED vars
  <2>1. UNCHANGED connectorVars /\ InFlight' = InFlight
    BY <1>3 DEF vars, line, InFlight
  <2> QED BY <2>1, OthersCodes DEF CodesInv, ErrorsCoded
<1> QED BY <1>1, <1>2, <1>3 DEF Next

\* The code that a call returns is one of its lambda's policy, an error of the
\* lookup or one that the board reported, whatever malloc leaves in the memory
\* of last_call_error: the policy is read twice, errors are left in the lambda
\* without the lock, and only a call that reads the byte nobody wrote, or one
\* whose lambda has been unregistered, may return another.
THEOREM ReturnCodesFit == Spec => []CodesFitPolicies
<1>1. Init => CodesInv
  BY FreshStart DEF Init
<1>2. CodesInv => CodesFitPolicies
  BY FirmNotGone DEF CodesInv, Coded, CodesFitPolicies, PolicyOf, At
<1> QED BY <1>1, <1>2, NextCodes, AlwaysInv, PTL DEF Spec

LEMMA NextJunk == ConnectorInv /\ JunkInv /\ [Next]_vars => JunkInv'
  BY CallerSteps, CallerJunk, RxJunk, RestartJunk, OthersJunk, PeerUntouched
     DEF Next, ConnectorNext

\* The byte that malloc left in a lambda's last_call_error is returned by one
\* call at most, although the libspt thread may write it while a call tests,
\* reads and clears it, and another call may be woken or time out meanwhile.
THEOREM JunkIsReportedOnce == Spec => []JunkReportedOnce
<1>1. Init => JunkInv
  BY FreshStart DEF Init
<1>2. JunkInv => JunkReportedOnce
  BY DEF JunkInv
<1> QED BY <1>1, <1>2, NextJunk, AlwaysInv, PTL DEF Spec

-----------------------------------------------------------------------------
(***************************************************************************)
(* The values.                                                             *)
(***************************************************************************)
LEMMA NextCached == ConnectorInv /\ CachedInv /\ [Next]_vars => CachedInv'
  BY CallerSteps, CallerCached, RxCachedInv, RestartCached, OthersCached, PeerUntouched
     DEF Next, ConnectorNext

\* A caller that returns something from the cache, or what it was woken for.
LEMMA CallerCarries ==
  ASSUME ConnectorInv, CachedInv, NEW c \in Callers, CallerStep(c),
         At(c, "cache") \/ At(c, "fallback") \/ (At(c, "take") /\ args[calls[c].arg].cached),
         calls'[c].pc = "idle", calls'[c].code \in {CallSuccess, CallCache, CallCacheTimeout}
  PROVE  calls'[c].value # NoValue
<1> USE DEF At, CallSuccess, CallCache, CallCacheTimeout
<1>1. CallsInv /\ SharedInv
  BY DEF ConnectorInv
<1>2. calls[c].id # Null => calls[c].id \in Ids /\ calls[c].id < lreg.counter
  BY <1>1, CallerTyped
<1>3. CASE CheckCache(c)
  <2>1. calls[c].id \in Ids /\ calls[c].id < lreg.counter /\ lreg.counter \in Int
    BY <1>1, <1>2, <1>3, CallerTyped, RegistryAssumption
       DEF CheckCache, Committed, CallPcs, SharedInv, Registries
  <2>2. \A a \in LambdasRead(calls[c].id) : a \in Ids
    BY <2>1, LambdasBelow
  <2>3. CASE \E a \in LambdasRead(calls[c].id) :
               args[a].cached /\ ReturnFrom(c, a, CallCache, args[a].ret)
    BY <1>1, <2>2, <2>3, CallerReturns DEF CachedInv
  <2>4. CASE Return(c, CallCacheEmpty, NoValue)
    BY <1>1, <2>4, CallerReturns DEF Return, CallCacheEmpty
  <2>5. CASE Goto(c, "send")
    BY <1>1, <2>5, CallerGoes
  <2> QED BY <1>3, <2>3, <2>4, <2>5 DEF CheckCache
<1>4. ASSUME calls[c].pc \in {"take", "fallback"} PROVE calls[c].arg \in Ids
  BY <1>1, <1>4, ArgTyped DEF Waited
<1>5. CASE TakeResult(c)
  <2>1. /\ args[calls[c].arg].cached /\ calls[c].arg \in Ids
        /\ ReturnFrom(c, calls[c].arg, CallSuccess, args[calls[c].arg].ret)
    BY <1>4, <1>5 DEF TakeResult, Return
  <2> QED BY <1>1, <2>1, CallerReturns DEF CachedInv
<1>6. CASE FallBack(c)
  <2>1. calls[c].arg \in Ids
    BY <1>4, <1>6 DEF FallBack
  <2>2. \/ ReturnFrom(c, calls[c].arg, CallTimeout, NoValue)
        \/ ReturnFrom(c, calls[c].arg, CallCacheTimeoutEmpty, NoValue)
        \/ /\ args[calls[c].arg].cached
           /\ ReturnFrom(c, calls[c].arg, CallCacheTimeout, args[calls[c].arg].ret)
    BY <1>6 DEF FallBack, Return
  <2> QED BY <1>1, <2>1, <2>2, CallerReturns DEF CachedInv, CallTimeout, CallCacheTimeoutEmpty
<1>7. CASE Stray(c)
  BY <1>1, <1>7, CallerGoes DEF Stray
<1> QED BY <1>3, <1>5, <1>6, <1>7
    DEF CallerStep, CallStep, Begins, BeginWith, Lock, Lookup, CheckType, Send, Wait, Relock,
        LookForError, ReadError, ClearError, Timeout, SpuriousWakeup

\* A call that is answered from the cache, at once or after a timeout, or that
\* is woken when a result of its lambda has come, returns a value that the
\* board has made or a string that has been freed, never the unwritten union,
\* although the libspt thread stores value and flag without the lock: the value
\* is there before it is marked.  With errors from the board, wakeups of their
\* own, any bytes in fresh memory, and restarts.
THEOREM RepliesAlwaysCarryValues == Spec => RepliesCarryValues
<1> DEFINE Carries ==
             \A c \in Callers :
               (/\ At(c, "cache") \/ At(c, "fallback") \/ (At(c, "take") /\ args[calls[c].arg].cached)
                /\ calls'[c].pc = "idle"
                /\ calls'[c].code \in {CallSuccess, CallCache, CallCacheTimeout})
                  => calls'[c].value # NoValue
<1>1. Init => CachedInv
  BY FreshStart DEF Init
<1>2. ASSUME ConnectorInv, CachedInv, [Next]_vars PROVE [Carries]_connectorVars
  <2> SUFFICES ASSUME ConnectorNext PROVE Carries
    BY <1>2, PeerUntouched DEF Next
  <2> SUFFICES ASSUME NEW c \in Callers,
                      At(c, "cache") \/ At(c, "fallback") \/ (At(c, "take") /\ args[calls[c].arg].cached),
                      calls'[c].pc = "idle",
                      calls'[c].code \in {CallSuccess, CallCache, CallCacheTimeout}
               PROVE  calls'[c].value # NoValue
    OBVIOUS
  <2>1. CASE \E d \in Callers : CallerStep(d)
    <3>1. PICK d \in Callers : CallerStep(d)
      BY <2>1
    <3>2. CASE d = c
      BY <1>2, <3>1, <3>2, CallerCarries
    <3>3. CASE d # c
      BY <1>2, <3>1, <3>3, CallerBecomes DEF ConnectorInv, At
    <3> QED BY <3>2, <3>3
  <2>2. CASE RxStep
    BY <1>2, <2>2, RxCallers DEF At
  <2>3. CASE Restart
    BY <2>3 DEF Restart, NoCall, CallNotFound, CallSuccess, CallCache, CallCacheTimeout
  <2> QED BY <1>2, <2>1, <2>2, <2>3, CallerSteps DEF ConnectorNext
<1> QED BY <1>1, <1>2, NextCached, AlwaysInv, PTL DEF Spec, RepliesCarryValues

\* What the peer sends fits its lambdas.
LEMMA PeerMade ==
  ASSUME ConnectorInv, MadeInv, PeerNext
  PROVE  MadeInv'
<1>1. produced' \in {produced, produced + 1} /\ produced \in Nat /\ UNCHANGED connectorVars
  BY PeerSends DEF ConnectorInv, LineInv
<1>2. ASSUME NEW p, PeerPacket(p), p.ptype = "RESULT"
      PROVE  FitsHere(lreg, produced', p)
  <2>1. p.id \in Ids
    BY <1>2 DEF PeerPacket, FromPeer, Registrations, Unregistrations, Mislabelled, Results, ErrorsFor
  <2> QED BY <1>1, <1>2, <2>1 DEF PeerPacket, FitsHere, TypedAs
<1>3. \A p \in InFlight' : p \in InFlight \/
         (p.ptype = "RESULT" => FitsHere(lreg, produced', p))
  <2>1. CASE toLinux' = toLinux
    BY <2>1 DEF InFlight
  <2>2. CASE toLinux' # toLinux
    <3>1. PICK p : PeerPacket(p) /\ SendToLinux(p)
      BY <2>2, PeerSends
    <3> QED BY <1>2, <3>1, Sends DEF ConnectorInv
  <2> QED BY <2>1, <2>2
<1> QED BY <1>1, <1>3, OthersMade

LEMMA StutterMade ==
  ASSUME ConnectorInv, MadeInv, UNCHANGED vars
  PROVE  MadeInv'
<1>1. UNCHANGED connectorVars /\ InFlight' = InFlight /\ produced' = produced
  BY DEF vars, line, InFlight
<1>2. produced \in Nat
  BY DEF ConnectorInv, LineInv
<1> QED BY <1>1, <1>2, OthersMade
=============================================================================
