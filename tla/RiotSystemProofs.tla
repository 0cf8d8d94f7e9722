-------------------------- MODULE RiotSystemProofs --------------------------
(***************************************************************************)
(* The whole system, for any number of lambdas, names and callers, any     *)
(* application (every Scope), on a line that may lose packets: the types   *)
(* of both sides and the registry of each.                                 *)
(* Then, for sides that are kept in step, that the two registries agree on *)
(* every lambda and every result fits the lambda that is called.           *)
(***************************************************************************)
EXTENDS RiotSystem, ConnectorTheorems

\* What the board keeps; an answer being made is about a lambda in the array.
BoardInv ==
  /\ breg \in Registries /\ WellFormed(breg)
  /\ phase \in {"off", "starting", "on", "stopping"}
  /\ spt.pc \in {"idle", "answer"}
  /\ spt.pc = "answer" => spt.id \in Ids /\ spt.type \in Types /\ spt.value \in Nat \ {0}
  /\ fault \in {"", "nullfunction", "overrun"}
  /\ names \subseteq Names

IInv == ConnectorInv /\ BoardInv

-----------------------------------------------------------------------------
\* The packet that a step announces, if any, is one that the connector knows.
LEMMA Announced ==
  ASSUME LineInv, NEW p \in FromPeer, Announce(p)
  PROVE  toLinux' \in Seq(FromPeer)
  BY DEF LineInv, Announce, SendToLinux, Put

\* And a result that is sent; a string may be the end of the board.
LEMMA Sent ==
  ASSUME LineInv, NEW id, NEW t, NEW v, SendResult(id, t, v),
         ResultPacket(t, id, ById(breg, id).name, v) \in FromPeer
  PROVE  toLinux' \in Seq(FromPeer) /\ fault' \in {fault, "overrun"}
  BY Announced DEF SendResult, LineInv

\* A live lambda of the board, in a packet.
LEMMA BoardPackets ==
  ASSUME BoardInv, NEW id \in Ids, NEW v \in Nat \ {0}, ById(breg, id) # Null
  PROVE  /\ ResultPacket(ById(breg, id).type, id, ById(breg, id).name, v) \in FromPeer
         /\ UnregisteredPacket("REGISTERED", id, ById(breg, id).name) \in FromPeer
<1>1. id \in Nat
  BY RegistryAssumption DEF Ids
<1>2. ById(breg, id) \in Entry
  BY <1>1, LookupFinds DEF BoardInv
<1>3. ById(breg, id).name \in Names /\ ById(breg, id).type \in Types
  BY <1>2 DEF Entry, Names
<1> QED BY <1>3 DEF ResultPacket, UnregisteredPacket, FromPeer, Results, Mislabelled

-----------------------------------------------------------------------------
(***************************************************************************)
(* The steps of the board, each with what it does to the line.             *)
(***************************************************************************)
LEMMA RegisterInv ==
  ASSUME IInv, NEW n \in Names, NEW t \in Types, NEW c \in Policies,
         NEW f \in {Func, Null}, register_lambda(n, t, c, f)
  PROVE  BoardInv' /\ LineInv'
<1>1. breg \in Registries /\ WellFormed(breg) /\ f \in Args
  BY BoardAssumption DEF IInv, BoardInv
<1>2. PICK oom \in BOOLEAN : oom = FALSE
  OBVIOUS
<1>3. breg' = Registered(breg, n, t, c, f, FALSE)
  BY DEF register_lambda
<1>4. breg' = Registered(breg, n, t, c, f, oom)
  BY <1>2, <1>3, Zenon
<1>5. breg' \in Registries /\ WellFormed(breg')
  BY <1>1, <1>4, RegisteredWellFormed
<1>6. RegisteredPacket(n, t, c) \in FromPeer
  BY DEF RegisteredPacket, FromPeer, Registrations
<1>7. toLinux' \in Seq(FromPeer)
  <2>1. toLinux' = toLinux \/ Announce(RegisteredPacket(n, t, c))
    BY DEF register_lambda
  <2> QED BY <1>6, <2>1, Announced DEF IInv, ConnectorInv, LineInv
<1> QED BY <1>5, <1>7 DEF register_lambda, IInv, ConnectorInv, LineInv, BoardInv

LEMMA UnregisterInv ==
  ASSUME IInv, NEW id \in Ids, unregister_lambda(id)
  PROVE  BoardInv' /\ LineInv'
<1>1. id \in Nat
  BY RegistryAssumption DEF Ids
<1>2. breg' \in Registries /\ WellFormed(breg')
  BY <1>1, UnregisteredWellFormed DEF unregister_lambda, IInv, BoardInv
<1>3. UnregisteredPacket("REGISTERED", id, ById(breg, id).name) \in FromPeer
  <2>1. ById(breg, id) # Null /\ BoardInv
    BY DEF unregister_lambda, IInv
  <2>2. PICK v \in Nat \ {0} : TRUE
    BY 1 \in Nat \ {0}
  <2> QED BY <2>1, <2>2, BoardPackets
<1>4. toLinux' \in Seq(FromPeer)
  BY <1>3, Announced DEF unregister_lambda, IInv, ConnectorInv
<1> QED BY <1>2, <1>4 DEF unregister_lambda, IInv, ConnectorInv, LineInv, BoardInv

LEMMA PushInv ==
  ASSUME IInv, NEW id \in Ids, NEW t \in Types, push_result(id, t)
  PROVE  BoardInv' /\ LineInv'
<1>1. produced' \in Nat \ {0}
  <2>1. produced \in Nat
    BY DEF IInv, ConnectorInv, LineInv
  <2>2. produced' = produced + 1
    BY DEF push_result
  <2> QED BY <2>1, <2>2
<1>2. ResultPacket(t, id, ById(breg, id).name, produced') \in FromPeer
  BY <1>1, BoardPackets DEF push_result, CanAnswer, IInv
<1>3. toLinux' \in Seq(FromPeer) /\ fault' \in {fault, "overrun"}
  BY <1>2, Sent DEF push_result, IInv, ConnectorInv
<1> QED BY <1>1, <1>3 DEF push_result, IInv, ConnectorInv, LineInv, BoardInv

LEMMA StartStopInv ==
  ASSUME IInv, rs_start \/ rs_started \/ rs_stop \/ rs_stopped
  PROVE  BoardInv' /\ LineInv'
<1>1. LineInv'
  BY DEF rs_start, rs_started, rs_stop, rs_stopped, line, IInv, ConnectorInv, LineInv
<1>2. breg' \in Registries /\ WellFormed(breg')
  <2>1. breg \in Registries /\ WellFormed(breg)
    BY DEF IInv, BoardInv
  <2>2. CASE rs_start
    BY <2>1, <2>2, EmptyWellFormed DEF rs_start
  <2>3. CASE rs_stop
    BY <2>1, <2>3, FreedEmpty, EmptyWellFormed DEF rs_stop
  <2>4. CASE breg' = breg
    BY <2>1, <2>4
  <2> QED BY <2>2, <2>3, <2>4 DEF rs_started, rs_stopped
<1> QED BY <1>1, <1>2 DEF rs_start, rs_started, rs_stop, rs_stopped, IInv, BoardInv

\* Evaluating a lambda makes a value or ends the program.
LEMMA EvaluateTyped ==
  ASSUME BoardInv, LineInv, NEW e, Evaluate(e)
  PROVE  /\ fault' \in {fault, "nullfunction"}
         /\ fault' # "nullfunction" => produced' = produced + 1
         /\ produced' \in Nat
<1>1. produced' \in Nat
  <2>1. produced \in Nat
    BY DEF LineInv
  <2>2. produced' = produced \/ produced' = produced + 1
    BY Zenon DEF Evaluate
  <2> QED BY <2>1, <2>2
<1>2. \/ fault' = "nullfunction"
      \/ fault' = fault /\ produced' = produced + 1
  BY DEF Evaluate
<1> QED BY <1>1, <1>2

LEMMA HandleCallInv ==
  ASSUME IInv, HandleCall
  PROVE  BoardInv' /\ LineInv'
<1> DEFINE p  == Head(toBoard)
           id == CalledId(p)
<1>1. /\ toBoard \in Seq(ToPeer) /\ toLinux \in Seq(FromPeer) /\ produced \in Nat
      /\ breg \in Registries /\ WellFormed(breg)
  BY DEF IInv, ConnectorInv, LineInv, BoardInv
<1>2. p \in ToPeer /\ toBoard' \in Seq(ToPeer)
  <2>1. toBoard # << >> /\ toBoard' = Tail(toBoard)
    BY DEF HandleCall
  <2> QED BY <1>1, <2>1
<1>3. id # Null => id \in 0 .. MaxLambdas /\ id \in Nat
  <2>1. CASE p \in CallsById
    BY <2>1, RegistryAssumption DEF CallsById, CalledId
  <2>2. CASE p \in CallsByName
    <3>1. p.ptype # "CALL_BY_ID"
      BY <2>2 DEF CallsByName
    <3>2. id # Null => ByName(breg, p.name) # Null /\ id = ByName(breg, p.name).id
      BY <3>1 DEF CalledId
    <3>3. id # Null => id \in Ids
      BY <1>1, <3>2, LookupFinds
    <3> QED BY <3>3, RegistryAssumption DEF Ids
  <2> QED BY <1>2, <2>1, <2>2 DEF ToPeer
<1>4. CallError(id, p.type) \in -128 .. 127
  BY DEF CallError, NotFound, WrongType
<1>5. UNCHANGED <<breg, phase, names>> /\ spt.pc = "idle"
  BY DEF HandleCall
<1> HIDE DEF id, p
<1>6. CASE UNCHANGED <<spt, fault, toLinux, produced>>
  BY <1>1, <1>2, <1>5, <1>6 DEF IInv, BoardInv, LineInv
<1>7. CASE /\ id # Null /\ Announce(ErrorPacket(id, CallError(id, p.type)))
           /\ UNCHANGED <<spt, fault, produced>>
  <2>1. ErrorPacket(id, CallError(id, p.type)) \in FromPeer
    BY <1>3, <1>4, <1>7 DEF ErrorPacket, FromPeer, ErrorsFor
  <2>2. toLinux' \in Seq(FromPeer)
    BY <1>7, <2>1, Announced DEF IInv, ConnectorInv
  <2> QED BY <1>1, <1>2, <1>5, <1>7, <2>2 DEF IInv, BoardInv, LineInv
<1>8. CASE /\ id # Null /\ CallError(id, p.type) = 0
           /\ Evaluate(ById(breg, id))
           /\ spt' = IF fault' # "" THEN spt
                     ELSE [pc |-> "answer", id |-> id, type |-> p.type, value |-> produced']
           /\ UNCHANGED toLinux
  <2>1. /\ fault' \in {fault, "nullfunction"} /\ produced' \in Nat
        /\ fault' # "nullfunction" => produced' = produced + 1
    BY <1>8, EvaluateTyped DEF IInv, ConnectorInv
  <2>2. id \in Ids /\ p.type \in Types
    <3>1. ById(breg, id) # Null /\ ById(breg, id).type = p.type
      <4>1. NotFound # 0 /\ WrongType # 0
        BY DEF NotFound, WrongType
      <4> QED BY <1>8, <4>1 DEF CallError
    <3>2. id \in Ids /\ ById(breg, id) \in Entry
      BY <1>1, <1>3, <1>8, <3>1, LookupFinds
    <3> QED BY <3>1, <3>2 DEF Entry
  <2>3. \/ spt' = spt
        \/ /\ spt'.pc = "answer" /\ spt'.id \in Ids /\ spt'.type \in Types
           /\ spt'.value \in Nat \ {0}
    <3>1. CASE fault' # ""
      BY <1>8, <3>1
    <3>2. CASE fault' = ""
      <4>1. spt' = [pc |-> "answer", id |-> id, type |-> p.type, value |-> produced']
        BY <1>8, <3>2
      <4>2. produced' \in Nat \ {0}
        <5>1. fault' # "nullfunction"
          BY <3>2
        <5>2. produced' = produced + 1
          BY <2>1, <5>1
        <5> QED BY <1>1, <5>2
      <4> QED BY <2>2, <4>1, <4>2
    <3> QED BY <3>1, <3>2
  <2>4. BoardInv'
    BY <1>5, <2>1, <2>3 DEF IInv, BoardInv
  <2> QED BY <1>1, <1>2, <1>8, <2>1, <2>4 DEF LineInv
<1> QED BY <1>6, <1>7, <1>8 DEF HandleCall, id, p

LEMMA AnswerInv ==
  ASSUME IInv, Answer
  PROVE  BoardInv' /\ LineInv'
<1>1. toLinux' \in Seq(FromPeer) /\ fault' \in {fault, "overrun"}
  <2>1. CASE CanAnswer(spt.id, spt.type)
    <3>1. ResultPacket(spt.type, spt.id, ById(breg, spt.id).name, spt.value) \in FromPeer
      BY <2>1, BoardPackets DEF Answer, CanAnswer, IInv, BoardInv
    <3> QED BY <2>1, <3>1, Sent DEF Answer, IInv, ConnectorInv
  <2>2. CASE ~CanAnswer(spt.id, spt.type)
    BY <2>2 DEF Answer, IInv, ConnectorInv, LineInv
  <2> QED BY <2>1, <2>2
<1> QED BY <1>1 DEF Answer, SptIdle, IInv, ConnectorInv, LineInv, BoardInv

LEMMA LocalCallInv ==
  ASSUME IInv, NEW id \in Ids, NEW t \in Types, LocalCall(id, t)
  PROVE  BoardInv' /\ LineInv'
<1>1. fault' \in {fault, "nullfunction"} /\ produced' \in Nat
  BY EvaluateTyped DEF LocalCall, IInv, ConnectorInv
<1> QED BY <1>1 DEF LocalCall, line, IInv, ConnectorInv, LineInv, BoardInv

LEMMA BoardStepInv ==
  ASSUME IInv, BoardNext
  PROVE  BoardInv' /\ LineInv'
  BY RegisterInv, UnregisterInv, PushInv, StartStopInv, HandleCallInv, AnswerInv,
     LocalCallInv DEF BoardNext, AppStep, SptStep

-----------------------------------------------------------------------------
LEMMA InitInv == Init => IInv
<1>1. BoardInit => BoardInv
  <2> SUFFICES ASSUME BoardInit PROVE BoardInv
    OBVIOUS
  <2>1. fault \in {"", "nullfunction", "overrun"}
    BY DEF BoardInit
  <2>2. breg \in Registries /\ WellFormed(breg)
    BY EmptyWellFormed DEF BoardInit
  <2>3. /\ phase = "off" /\ names = {} /\ spt.pc = "idle"
    BY DEF BoardInit, SptIdle
  <2> QED BY <2>1, <2>2, <2>3 DEF BoardInv
<1> QED BY <1>1, ConnectorInitInv DEF Init, IInv

LEMMA NextInv == IInv /\ [Next]_vars => IInv'
<1> SUFFICES ASSUME IInv, [Next]_vars PROVE IInv'
  OBVIOUS
<1>1. CASE ConnectorNext /\ UNCHANGED boardVars
  <2>1. ConnectorInv'
    BY <1>1, ConnectorStepInv DEF IInv
  <2> QED BY <1>1, <2>1 DEF boardVars, IInv, BoardInv
<1>2. CASE BoardNext /\ UNCHANGED connectorVars
  BY <1>2, BoardStepInv, OthersStepInv DEF IInv
<1>3. CASE UNCHANGED vars
  <2>1. LineInv'
    BY <1>3 DEF vars, line, IInv, ConnectorInv, LineInv
  <2>2. ConnectorInv'
    BY <1>3, <2>1, OthersStepInv DEF vars, IInv
  <2> QED BY <1>3, <2>2 DEF vars, boardVars, IInv, BoardInv
<1> QED BY <1>1, <1>2, <1>3 DEF Next

LEMMA AlwaysInv == Spec => []IInv
  BY InitInv, NextInv, PTL DEF Spec

\* Each side's registry stays well formed, however little the two agree: after
\* lost packets, restarts of either side and names used again.
THEOREM RegistriesAlwaysWellFormed == Spec => []RegistriesWellFormed
<1>1. IInv => RegistriesWellFormed
  BY DEF IInv, ConnectorInv, SharedInv, BoardInv, RegistriesWellFormed
<1> QED BY <1>1, AlwaysInv, PTL

\* Types of both sides: no packet and no call makes either write outside its
\* array of lambdas.
THEOREM SystemTypeCorrect == Spec => []TypeOK
<1>1. IInv => TypeOK
  BY ConnectorTyped DEF IInv, BoardInv, TypeOK
<1> QED BY <1>1, AlwaysInv, PTL

\* No call goes out for a CACHE_ONLY lambda, whether or not the two
\* registries agree: the connector's own is what it was checked against.
THEOREM SystemCacheOnlyNeverCalled == Spec => CacheOnlyNeverCalled
<1>1. IInv /\ [Next]_vars =>
        [\A c \in Callers :
           (At(c, "send") /\ calls'[c].pc = "sent" /\ ~Gone(calls[c].id))
              => PolicyOf(calls[c].id) # "CACHE_ONLY"]_<<connectorVars, line>>
  BY FirmNotGone DEF IInv, ConnectorInv, CallsInv, Checked, PolicyOf, At
<1> QED BY <1>1, AlwaysInv, PTL DEF Spec, CacheOnlyNeverCalled

-----------------------------------------------------------------------------
(***************************************************************************)
(* Both sides in step.  D is the history of the board's registry: D[i] is  *)
(* the entry that was given the id i, whether it is still registered or    *)
(* not.  It is what both registries and everything on the line agree with, *)
(* as long as no registration is seen by one side only.  The board tells   *)
(* of a registration when its own call returns no negative number, so of   *)
(* those with ids below SignBit.                                           *)
(***************************************************************************)
History(D, r, used) ==
  /\ D \in [Ids -> Entry \cup {Null}]
  /\ \A i \in Ids : i < r.counter =>
       /\ D[i] \in Entry /\ D[i].name \in used
       /\ D[i].arg = Null => D[i].cache = "CACHE_ONLY"
       /\ r.slot[i] \in {Null, D[i]}
  /\ \A i, j \in Ids :
       i < r.counter /\ j < r.counter /\ D[i].name = D[j].name => i = j

Told(n) == IF n < SignBit THEN n ELSE SignBit

Mirrors(D, n, r) ==
  /\ r.counter <= Told(n)
  /\ \A i \in Ids : i < r.counter => r.slot[i] # Null /\ Same(D[i], r.slot[i])

\* f[k] is what the connector's counter will be when it comes to packet k.
Numbering(D, f, s, low, high) ==
  /\ f \in [1 .. Len(s) + 1 -> 0 .. high]
  /\ f[1] = low /\ f[Len(s) + 1] = high
  /\ \A k \in 1 .. Len(s) :
       /\ s[k].layout # "REGISTERED" => f[k + 1] = f[k]
       /\ s[k].layout = "REGISTERED" =>
            /\ f[k] < high /\ f[k + 1] = f[k] + 1
            /\ s[k] = RegisteredPacket(D[f[k]].name, D[f[k]].type, D[f[k]].cache)

\* A packet to the connector, and one to the board, about the lambdas below n.
Describes(D, n, p) ==
  /\ p.ptype # "UNREGISTERED"
  /\ p.ptype = "RESULT" => p.id < n /\ p.name = D[p.id].name /\ p.type = D[p.id].type

Callable(D, n, p) ==
  \E i \in Ids :
    /\ i < n /\ D[i].cache # "CACHE_ONLY"
    /\ \/ p.ptype = "CALL_BY_ID" /\ p.id = i
       \/ p.ptype = "CALL_BY_NAME" /\ p.name = D[i].name

\* A call that has found its lambda asked for that one.
Finds(r, k) ==
  k.pc \in {"type", "cache", "send"} =>
    \/ k.req.by = "id" /\ k.req.key = k.id
    \/ k.req.by = "name" /\ k.req.key = r.slot[k.id].name

Agrees(D, f) ==
  /\ History(D, breg, names)
  /\ Mirrors(D, breg.counter, lreg)
  /\ Numbering(D, f, toLinux, lreg.counter, Told(breg.counter))
  /\ \A k \in 1 .. Len(toLinux) : Describes(D, breg.counter, toLinux[k])
  /\ rx.pc # "idle" => Describes(D, breg.counter, rx.pkt)
  /\ \A k \in 1 .. Len(toBoard) : Callable(D, breg.counter, toBoard[k])
  /\ \A c \in Callers : Finds(lreg, calls[c])

Started ==
  /\ phase \in {"off", "starting", "on"}
  /\ phase = "off" => breg = ZeroedRegistry

AgreeInv == Started /\ \E D, f : Agrees(D, f)

\* The conditions: a line that loses nothing, no restart of either side, and an
\* application that starts first, never uses a name again that it has
\* unregistered, and uses no name of 12 characters, which one side accepts and
\* the other does not.
InStep ==
  /\ ~Lossy /\ ~ConnectorRestarts
  /\ FullNames = {}
  /\ Scope \subseteq {"unregister", "push", "local"}

-----------------------------------------------------------------------------
(***************************************************************************)
(* The line: what sending and receiving do to the numbering.               *)
(***************************************************************************)
LEMMA NumberingAppended ==
  ASSUME NEW S, NEW s \in Seq(S), NEW p, NEW D, NEW f, NEW low \in Nat, NEW high \in Nat,
         Numbering(D, f, s, low, high), p.layout # "REGISTERED"
  PROVE  \E g : Numbering(D, g, Append(s, p), low, high)
<1> DEFINE t == Append(s, p)
           g == [k \in 1 .. Len(t) + 1 |-> IF k = Len(t) + 1 THEN high ELSE f[k]]
<1>1. Len(s) \in Nat /\ Len(t) = Len(s) + 1
  OBVIOUS
<1>2. \A k \in 1 .. Len(s) : t[k] = s[k]
  OBVIOUS
<1>3. t[Len(t)] = p
  BY <1>1
<1> HIDE DEF t
<1>4. g \in [1 .. Len(t) + 1 -> 0 .. high] /\ g[1] = low /\ g[Len(t) + 1] = high
  BY <1>1 DEF Numbering
<1>5. ASSUME NEW k \in 1 .. Len(t)
      PROVE  /\ t[k].layout # "REGISTERED" => g[k + 1] = g[k]
             /\ t[k].layout = "REGISTERED" =>
                  /\ g[k] < high /\ g[k + 1] = g[k] + 1
                  /\ t[k] = RegisteredPacket(D[g[k]].name, D[g[k]].type, D[g[k]].cache)
  <2>1. CASE k = Len(t)
    BY <1>1, <1>3, <2>1 DEF Numbering
  <2>2. CASE k # Len(t)
    <3>1. k \in 1 .. Len(s) /\ t[k] = s[k] /\ g[k] = f[k] /\ g[k + 1] = f[k + 1]
      BY <1>1, <1>2, <2>2
    <3> HIDE DEF g
    <3> QED BY <3>1 DEF Numbering
  <2> QED BY <2>1, <2>2
<1> HIDE DEF g
<1>6. Numbering(D, g, t, low, high)
  BY <1>4, <1>5 DEF Numbering
<1> QED BY <1>6 DEF t

LEMMA NumberingRegistered ==
  ASSUME NEW S, NEW s \in Seq(S), NEW p, NEW D, NEW E, NEW f, NEW low \in Nat, NEW high \in Nat,
         Numbering(D, f, s, low, high), high \in Ids,
         \A i \in Ids : i < high => E[i] = D[i],
         p = RegisteredPacket(E[high].name, E[high].type, E[high].cache)
  PROVE  \E g : Numbering(E, g, Append(s, p), low, high + 1)
<1> DEFINE t == Append(s, p)
           g == [k \in 1 .. Len(t) + 1 |-> IF k = Len(t) + 1 THEN high + 1 ELSE f[k]]
<1>1. Len(s) \in Nat /\ Len(t) = Len(s) + 1
  OBVIOUS
<1>2. \A k \in 1 .. Len(s) : t[k] = s[k]
  OBVIOUS
<1>3. t[Len(t)] = p
  BY <1>1
<1> HIDE DEF t
<1>4. g \in [1 .. Len(t) + 1 -> 0 .. high + 1] /\ g[1] = low /\ g[Len(t) + 1] = high + 1
  BY <1>1 DEF Numbering
<1>5. ASSUME NEW k \in 1 .. Len(t)
      PROVE  /\ t[k].layout # "REGISTERED" => g[k + 1] = g[k]
             /\ t[k].layout = "REGISTERED" =>
                  /\ g[k] < high + 1 /\ g[k + 1] = g[k] + 1
                  /\ t[k] = RegisteredPacket(E[g[k]].name, E[g[k]].type, E[g[k]].cache)
  <2>1. CASE k = Len(t)
    <3>1. g[k] = high /\ g[k + 1] = high + 1
      BY <1>1, <2>1 DEF Numbering
    <3>2. p.layout = "REGISTERED"
      BY DEF RegisteredPacket
    <3> HIDE DEF g
    <3> QED BY <1>3, <2>1, <3>1, <3>2
  <2>2. CASE k # Len(t)
    <3>1. k \in 1 .. Len(s) /\ t[k] = s[k] /\ g[k] = f[k] /\ g[k + 1] = f[k + 1]
      BY <1>1, <1>2, <2>2
    <3>2. f[k] \in 0 .. high
      BY <1>1, <3>1 DEF Numbering
    <3>3. f[k] < high => E[f[k]] = D[f[k]]
      BY <3>2, RegistryAssumption DEF Ids
    <3> HIDE DEF g
    <3>4. CASE s[k].layout # "REGISTERED"
      BY <3>1, <3>4 DEF Numbering
    <3>5. CASE s[k].layout = "REGISTERED"
      BY <3>1, <3>2, <3>3, <3>5 DEF Numbering
    <3> QED BY <3>4, <3>5
  <2> QED BY <2>1, <2>2
<1> HIDE DEF g
<1>6. Numbering(E, g, t, low, high + 1)
  BY <1>4, <1>5 DEF Numbering
<1> QED BY <1>6 DEF t

LEMMA NumberingReceived ==
  ASSUME NEW S, NEW s \in Seq(S), s # << >>, NEW D, NEW f, NEW low \in Nat, NEW high \in Nat,
         Numbering(D, f, s, low, high)
  PROVE  LET p == Head(s)
             m == IF p.layout = "REGISTERED" THEN low + 1 ELSE low
         IN  /\ \E g : Numbering(D, g, Tail(s), m, high)
             /\ p.layout = "REGISTERED" =>
                  low < high /\ p = RegisteredPacket(D[low].name, D[low].type, D[low].cache)
<1> DEFINE t == Tail(s)
           g == [k \in 1 .. Len(t) + 1 |-> f[k + 1]]
           m == IF Head(s).layout = "REGISTERED" THEN low + 1 ELSE low
<1>1. Len(s) \in Nat /\ Len(t) \in Nat /\ Len(s) = Len(t) + 1 /\ Head(s) = s[1]
  OBVIOUS
<1>2. \A k \in 1 .. Len(t) : t[k] = s[k + 1]
  OBVIOUS
<1> HIDE DEF t
<1>3. g \in [1 .. Len(t) + 1 -> 0 .. high] /\ g[Len(t) + 1] = high
  BY <1>1 DEF Numbering
<1>4. /\ s[1].layout # "REGISTERED" => f[2] = f[1]
      /\ s[1].layout = "REGISTERED" =>
           /\ f[1] < high /\ f[2] = f[1] + 1
           /\ s[1] = RegisteredPacket(D[f[1]].name, D[f[1]].type, D[f[1]].cache)
  BY <1>1 DEF Numbering
<1>5. f[1] = low
  BY DEF Numbering
<1>6. g[1] = m
  BY <1>1, <1>4, <1>5
<1>7. ASSUME NEW k \in 1 .. Len(t)
      PROVE  /\ t[k].layout # "REGISTERED" => g[k + 1] = g[k]
             /\ t[k].layout = "REGISTERED" =>
                  /\ g[k] < high /\ g[k + 1] = g[k] + 1
                  /\ t[k] = RegisteredPacket(D[g[k]].name, D[g[k]].type, D[g[k]].cache)
  <2>1. k + 1 \in 1 .. Len(s) /\ t[k] = s[k + 1] /\ g[k] = f[k + 1] /\ g[k + 1] = f[k + 1 + 1]
    BY <1>1, <1>2
  <2> HIDE DEF g
  <2> QED BY <2>1 DEF Numbering
<1> HIDE DEF g
<1>8. Numbering(D, g, t, m, high)
  BY <1>3, <1>6, <1>7 DEF Numbering
<1> QED BY <1>1, <1>4, <1>5, <1>8 DEF t

-----------------------------------------------------------------------------
(***************************************************************************)
(* The registries: what registering does when it is accepted, and that the *)
(* connector accepts what the board has.                                   *)
(***************************************************************************)
LEMMA EntryAdded ==
  ASSUME NEW r \in Registries, r.counter \in Ids, NEW n, NEW t, NEW c, NEW a,
         NEW oom, RegisterFailure(r, n, oom) = 0, NEW s, s = Registered(r, n, t, c, a, oom)
  PROVE  /\ s.counter = r.counter + 1
         /\ s.slot[r.counter] =
              [id |-> r.counter, name |-> n, type |-> t, cache |-> c, arg |-> a]
         /\ \A i \in Ids : i # r.counter => s.slot[i] = r.slot[i]
<1> DEFINE e == [id |-> r.counter, name |-> n, type |-> t, cache |-> c, arg |-> a]
<1>1. s = [slot |-> [r.slot EXCEPT ![r.counter] = e], counter |-> r.counter + 1]
  BY DEF Registered, RegisterNoMem
<1> HIDE DEF e
<1>2. s.counter = r.counter + 1 /\ s.slot = [r.slot EXCEPT ![r.counter] = e]
  BY <1>1
<1>3. s.slot[r.counter] = e /\ \A i \in Ids : i # r.counter => s.slot[i] = r.slot[i]
  BY <1>2 DEF Registries
<1> QED BY <1>2, <1>3 DEF e

LEMMA NothingAdded ==
  ASSUME NEW r, NEW n, NEW t, NEW c, NEW a, RegisterFailure(r, n, FALSE) # 0
  PROVE  Registered(r, n, t, c, a, FALSE) = r /\ RegisterResult(r, n, FALSE) < 0
  BY DEF Registered, RegisterResult, RegisterFailure, RegisterNoMem, RegisterLimitReached,
         RegisterInvalName, RegisterDuplicate

LEMMA NewNameAccepted ==
  ASSUME NEW r \in Registries, r.counter \in Ids, NEW n \in ShortNames,
         \A i \in Ids : i < r.counter /\ r.slot[i] # Null => r.slot[i].name # n
  PROVE  RegisterFailure(r, n, FALSE) = 0
<1>1. Hits(r, n) = {}
  BY DEF Hits, NameEquals
<1>2. ByName(r, n) = Null
  BY <1>1 DEF ByName
<1>3. n \notin BadNames /\ ~(r.counter >= MaxLambdas)
  BY RegistryAssumption DEF Ids
<1> QED BY <1>2, <1>3 DEF RegisterFailure

\* A lambda with a new name makes history.
LEMMA HistoryGrows ==
  ASSUME NEW r \in Registries, r.counter \in Ids, NEW D, NEW used, History(D, r, used),
         NEW s, NEW e \in Entry, e.name \notin used, e.arg = Null => e.cache = "CACHE_ONLY",
         s.counter = r.counter + 1, s.slot[r.counter] = e,
         \A i \in Ids : i # r.counter => s.slot[i] = r.slot[i]
  PROVE  History([D EXCEPT ![r.counter] = e], s, used \cup {e.name})
<1> DEFINE E == [D EXCEPT ![r.counter] = e]
<1>1. E \in [Ids -> Entry \cup {Null}]
  BY DEF History
<1>2. E[r.counter] = e /\ \A i \in Ids : i # r.counter => E[i] = D[i]
  BY DEF History
<1>3. \A i \in Ids : i < s.counter => i < r.counter \/ i = r.counter
  BY RegistryAssumption DEF Ids
<1>4. r.counter \in Int /\ \A i \in Ids : i \in Int
  BY RegistryAssumption DEF Ids
<1> HIDE DEF E
<1>5. ASSUME NEW i \in Ids, i < s.counter
      PROVE  /\ E[i] \in Entry /\ E[i].name \in used \cup {e.name}
             /\ E[i].arg = Null => E[i].cache = "CACHE_ONLY"
             /\ s.slot[i] \in {Null, E[i]}
  <2>1. CASE i = r.counter
    BY <1>2, <2>1
  <2>2. CASE i # r.counter
    <3>1. i < r.counter /\ E[i] = D[i] /\ s.slot[i] = r.slot[i]
      BY <1>2, <1>3, <1>5, <2>2
    <3> QED BY <3>1 DEF History
  <2> QED BY <2>1, <2>2
<1>6. ASSUME NEW i \in Ids, NEW j \in Ids, i < s.counter, j < s.counter, E[i].name = E[j].name
      PROVE  i = j
  <2>1. \A k \in Ids : k < s.counter /\ k # r.counter => E[k] = D[k] /\ k < r.counter /\ D[k].name # e.name
    BY <1>2, <1>3 DEF History
  <2> QED BY <1>2, <1>6, <2>1 DEF History
<1>7. History(E, s, used \cup {e.name})
  BY <1>1, <1>5, <1>6 DEF History
<1> QED BY <1>7 DEF E

LEMMA ToldGrows ==
  ASSUME NEW n \in Nat, n + 1 <= MaxLambdas
  PROVE  /\ Told(n) \in Nat /\ Told(n) <= n /\ Told(n) <= Told(n + 1)
         /\ AsInt8(n) < 0 => Told(n + 1) = Told(n)
         /\ AsInt8(n) >= 0 => Told(n) = n /\ Told(n + 1) = n + 1
  BY RegistryAssumption DEF Told, AsInt8

\* What is said of the lambdas below n stays true as history goes on.
LEMMA HistoryGoesOn ==
  ASSUME NEW D, NEW E, NEW n \in Nat, NEW m \in Nat, n <= m,
         \A i \in Ids : i < n => E[i] = D[i]
  PROVE  /\ \A p : Describes(D, n, p) /\ (p.ptype = "RESULT" => p.id \in Ids) => Describes(E, m, p)
         /\ \A p : Callable(D, n, p) => Callable(E, m, p)
         /\ \A r \in Registries : Mirrors(D, n, r) /\ Told(n) <= n /\ Told(n) <= Told(m) => Mirrors(E, m, r)
<1>1. \A i \in Ids : i \in Int
  BY RegistryAssumption DEF Ids
<1>2. ASSUME NEW p, Describes(D, n, p), p.ptype = "RESULT" => p.id \in Ids
      PROVE  Describes(E, m, p)
  BY <1>1, <1>2 DEF Describes
<1>3. ASSUME NEW p, Callable(D, n, p)
      PROVE  Callable(E, m, p)
  BY <1>1, <1>3 DEF Callable
<1>4. ASSUME NEW r \in Registries, Mirrors(D, n, r), Told(n) <= n, Told(n) <= Told(m)
      PROVE  Mirrors(E, m, r)
  <2>1. r.counter \in Nat
    BY RegistryAssumption DEF Registries
  <2>2. Told(n) \in Int /\ Told(m) \in Int
    BY RegistryAssumption DEF Told
  <2>3. \A i \in Ids : i < r.counter => i < n
    BY <1>1, <1>4, <2>1, <2>2 DEF Mirrors
  <2> QED BY <1>4, <2>1, <2>2, <2>3 DEF Mirrors
<1> QED BY <1>2, <1>3, <1>4

\* A packet that is put on a line, or taken from it, keeps what is said of all.
LEMMA AllAppended ==
  ASSUME NEW S, NEW s \in Seq(S), NEW p, NEW D, NEW n
  PROVE  /\ (\A k \in 1 .. Len(s) : Describes(D, n, s[k])) /\ Describes(D, n, p) =>
              \A k \in 1 .. Len(Append(s, p)) : Describes(D, n, Append(s, p)[k])
         /\ (\A k \in 1 .. Len(s) : Callable(D, n, s[k])) /\ Callable(D, n, p) =>
              \A k \in 1 .. Len(Append(s, p)) : Callable(D, n, Append(s, p)[k])
<1>1. \A k \in 1 .. Len(Append(s, p)) : k \in 1 .. Len(s) \/ k = Len(s) + 1
  OBVIOUS
<1>2. /\ \A k \in 1 .. Len(s) : Append(s, p)[k] = s[k]
      /\ Append(s, p)[Len(s) + 1] = p
  OBVIOUS
<1> QED BY <1>1, <1>2

LEMMA AllTaken ==
  ASSUME NEW S, NEW s \in Seq(S), s # << >>, NEW D, NEW n
  PROVE  /\ (\A k \in 1 .. Len(s) : Describes(D, n, s[k])) =>
              /\ Describes(D, n, Head(s))
              /\ \A k \in 1 .. Len(Tail(s)) : Describes(D, n, Tail(s)[k])
         /\ (\A k \in 1 .. Len(s) : Callable(D, n, s[k])) =>
              /\ Callable(D, n, Head(s))
              /\ \A k \in 1 .. Len(Tail(s)) : Callable(D, n, Tail(s)[k])
<1>1. \A k \in 1 .. Len(Tail(s)) : Tail(s)[k] = s[k + 1] /\ k + 1 \in 1 .. Len(s)
  OBVIOUS
<1>2. Head(s) = s[1] /\ 1 \in 1 .. Len(s)
  OBVIOUS
<1> QED BY <1>1, <1>2

-----------------------------------------------------------------------------
(***************************************************************************)
(* The steps of the connector.                                             *)
(***************************************************************************)
LEMMA Counters ==
  ASSUME IInv, NEW D, NEW f, Agrees(D, f)
  PROVE  /\ breg.counter \in Nat /\ breg.counter <= MaxLambdas
         /\ lreg.counter \in Nat /\ lreg.counter <= Told(breg.counter)
         /\ Told(breg.counter) \in Nat /\ Told(breg.counter) <= breg.counter
         /\ \A i \in Ids : i \in Nat
<1>1. breg.counter \in Nat /\ lreg.counter \in Nat /\ breg.counter <= MaxLambdas
  <2>1. breg \in Registries /\ lreg \in Registries
    BY DEF IInv, BoardInv, ConnectorInv, SharedInv
  <2> QED BY <2>1, RegistryAssumption DEF Registries
<1>2. \A i \in Ids : i \in Nat
  BY RegistryAssumption DEF Ids
<1>3. Told(breg.counter) \in Nat /\ Told(breg.counter) <= breg.counter
  BY <1>1, RegistryAssumption DEF Told
<1> QED BY <1>1, <1>2, <1>3 DEF Agrees, Mirrors

\* No lambda is ever unregistered at the connector.
LEMMA NothingGone ==
  ASSUME IInv, NEW D, NEW f, Agrees(D, f)
  PROVE  /\ rx.pc \notin {"destroy", "clear"}
         /\ \A i \in Ids : i < lreg.counter => Firm(lreg, rx, i)
<1>1. rx.pc \notin {"destroy", "clear"}
  <2> SUFFICES ASSUME rx.pc \in {"destroy", "clear"} PROVE FALSE
    OBVIOUS
  <2>1. rx \in RxStates
    BY DEF IInv, ConnectorInv, SharedInv
  <2>2. rx.pkt \in Unregistrations
    BY <2>1 DEF RxStates, RxOf
  <2>3. rx.pkt.ptype = "UNREGISTERED"
    BY <2>2 DEF Unregistrations
  <2> QED BY <2>3 DEF Agrees, Describes
<1> QED BY <1>1 DEF Firm, Agrees, Mirrors

LEMMA SentCallable ==
  ASSUME IInv, NEW D, NEW f, Agrees(D, f), NEW c \in Callers, calls[c].pc = "send"
  PROVE  Callable(D, breg.counter, CallPacket(calls[c]))
<1> DEFINE k == calls[c]
           i == k.id
           p == CallPacket(k)
<1>1. i \in Ids /\ i < lreg.counter /\ Checked(lreg, rx, k) /\ Finds(lreg, k)
  BY DEF IInv, ConnectorInv, CallsInv, Held, Committed, CallPcs, Agrees
<1>2. Firm(lreg, rx, i) /\ Same(D[i], lreg.slot[i])
  BY <1>1, NothingGone DEF Agrees, Mirrors
<1>3. i < breg.counter
  BY <1>1, Counters
<1>4. D[i].cache # "CACHE_ONLY"
  BY <1>1, <1>2 DEF Checked, Same
<1>5. \/ k.req.by = "id" /\ k.req.key = i
      \/ k.req.by = "name" /\ k.req.key = D[i].name
  BY <1>1, <1>2 DEF Finds, Same
<1>6. \/ p.ptype = "CALL_BY_ID" /\ p.id = i
      \/ p.ptype = "CALL_BY_NAME" /\ p.name = D[i].name
  BY <1>5 DEF CallPacket, CallByIdPacket, CallByNamePacket
<1> HIDE DEF i, p
<1> QED BY <1>1, <1>3, <1>4, <1>6 DEF Callable, i, p

\* What a call finds is what it has asked for.
LEMMA LookupFindsAsked ==
  ASSUME IInv, NEW D, NEW f, Agrees(D, f), NEW c \in Callers, calls[c].pc = "lookup",
         NEW id \in Found(calls[c].req), id # Null
  PROVE  \/ calls[c].req.by = "id" /\ calls[c].req.key = id
         \/ calls[c].req.by = "name" /\ calls[c].req.key = lreg.slot[id].name
<1> DEFINE q == calls[c].req
<1>1. q \in Request
  BY ConnectorAssumption DEF IInv, ConnectorInv, CallsInv, Held
<1>2. lreg \in Registries /\ WellFormed(lreg)
  BY DEF IInv, ConnectorInv, SharedInv
<1> HIDE DEF q
<1>3. /\ id \in Ids /\ id < lreg.counter
      /\ q.by = "id" => id = q.key
      /\ (q.by # "id" /\ Firm(lreg, rx, id)) => NameEquals(lreg.slot[id], q.key)
  BY <1>1, <1>2, FoundBelow DEF q
<1>4. Firm(lreg, rx, id)
  BY <1>3, NothingGone
<1>5. q.by \in {"id", "name"}
  BY <1>1 DEF Request
<1> QED BY <1>3, <1>4, <1>5 DEF NameEquals, q

\* A step of a caller, as the connector's own theorems put it.
LEMMA ACallerStep ==
  ASSUME IInv, NEW c \in Callers,
         Begin(c) \/ CallStep(c) \/ Timeout(c) \/ SpuriousWakeup(c) \/ Stray(c)
  PROVE  CallerStep(c)
  BY DEF CallerStep, Begins, Begin, IInv, ConnectorInv, LineInv

LEMMA CallerFinds ==
  ASSUME IInv, NEW D, NEW f, Agrees(D, f), NEW c \in Callers, CallerStep(c)
  PROVE  \A d \in Callers : Finds(lreg, calls'[d])
<1>1. calls \in [Callers -> Calls] /\ \A d \in Callers : Finds(lreg, calls[d])
  BY DEF IInv, ConnectorInv, CallsInv, Agrees
<1>2. \E k : calls' = [calls EXCEPT ![c] = k] /\ Finds(lreg, k)
  <2>1. ASSUME NEW pc, Goto(c, pc),
               pc \in {"type", "cache", "send"} => calls[c].pc \in {"type", "cache", "send"}
        PROVE  \E k : calls' = [calls EXCEPT ![c] = k] /\ Finds(lreg, k)
    <3> DEFINE k == [calls[c] EXCEPT !.pc = pc]
    <3>1. k.pc = pc /\ k.req = calls[c].req /\ k.id = calls[c].id
      BY <1>1 DEF Calls
    <3>2. calls' = [calls EXCEPT ![c] = k]
      BY <1>1, <2>1 DEF Goto
    <3> HIDE DEF k
    <3> QED BY <1>1, <2>1, <3>1, <3>2 DEF Finds
  <2>2. ASSUME NEW a, NEW code, NEW value, ReturnFrom(c, a, code, value)
        PROVE  \E k : calls' = [calls EXCEPT ![c] = k] /\ Finds(lreg, k)
    <3> DEFINE k == [calls[c] EXCEPT !.pc = "idle", !.req = Null, !.arg = a,
                                     !.code = code, !.value = value]
    <3>1. k.pc = "idle"
      BY <1>1 DEF Calls
    <3>2. calls' = [calls EXCEPT ![c] = k]
      BY <1>1, <2>2 DEF ReturnFrom
    <3> HIDE DEF k
    <3> QED BY <3>1, <3>2 DEF Finds
  <2>3. CASE Begins(c)
    <3>1. PICK q \in Requests, n \in Nat : BeginWith(c, q, n)
      BY <2>3 DEF Begins
    <3> DEFINE k == [NoCall EXCEPT !.pc = "lock", !.req = q, !.since = n]
    <3>2. calls' = [calls EXCEPT ![c] = k]
      BY <3>1 DEF BeginWith
    <3>3. k.pc = "lock"
      BY DEF NoCall
    <3> HIDE DEF k
    <3> QED BY <3>2, <3>3 DEF Finds
  <2>4. CASE Lookup(c)
    <3>1. PICK id \in Found(calls[c].req) :
            \/ id = Null /\ Return(c, CallNotFound, NoValue)
            \/ id # Null /\ calls' = [calls EXCEPT ![c].pc = "type", ![c].id = id]
      BY <2>4 DEF Lookup
    <3>2. CASE Return(c, CallNotFound, NoValue)
      BY <2>2, <3>2 DEF Return
    <3>3. CASE id # Null /\ calls' = [calls EXCEPT ![c].pc = "type", ![c].id = id]
      <4> DEFINE k == [calls[c] EXCEPT !.pc = "type", !.id = id]
      <4>1. k.req = calls[c].req /\ k.id = id
        BY <1>1 DEF Calls
      <4>2. calls' = [calls EXCEPT ![c] = k]
        BY <1>1, <3>3
      <4> HIDE DEF k
      <4>3. calls[c].pc = "lookup"
        BY <2>4 DEF Lookup, At
      <4>4. \/ calls[c].req.by = "id" /\ calls[c].req.key = id
            \/ calls[c].req.by = "name" /\ calls[c].req.key = lreg.slot[id].name
        BY <3>1, <3>3, <4>3, LookupFindsAsked
      <4> QED BY <4>1, <4>2, <4>4 DEF Finds
    <3> QED BY <3>1, <3>2, <3>3
  <2>5. CASE CheckType(c)
    <3>1. calls[c].pc = "type" /\ (Return(c, CallWrongType, NoValue) \/ Goto(c, "cache"))
      BY <2>5 DEF CheckType, At
    <3> QED BY <2>1, <2>2, <3>1 DEF Return
  <2>6. CASE CheckCache(c)
    <3>1. /\ calls[c].pc = "cache"
          /\ \/ \E a, code, value : ReturnFrom(c, a, code, value)
             \/ Goto(c, "send")
      BY <2>6 DEF CheckCache, At, Return
    <3> QED BY <2>1, <2>2, <3>1
  <2>7. CASE Wait(c)
    <3>1. PICK a : calls' = [calls EXCEPT ![c].pc = "waiting", ![c].arg = a]
      BY <2>7 DEF Wait
    <3> DEFINE k == [calls[c] EXCEPT !.pc = "waiting", !.arg = a]
    <3>2. k.pc = "waiting"
      BY <1>1 DEF Calls
    <3>3. calls' = [calls EXCEPT ![c] = k]
      BY <1>1, <3>1
    <3> HIDE DEF k
    <3> QED BY <3>2, <3>3 DEF Finds
  <2>8. CASE ReadError(c)
    <3>1. PICK code, raw :
            calls' = [calls EXCEPT ![c].pc = "clear", ![c].code = code, ![c].raw = raw]
      BY <2>8 DEF ReadError
    <3> DEFINE k == [calls[c] EXCEPT !.pc = "clear", !.code = code, !.raw = raw]
    <3>2. k.pc = "clear"
      BY <1>1 DEF Calls
    <3>3. calls' = [calls EXCEPT ![c] = k]
      BY <1>1, <3>1
    <3> HIDE DEF k
    <3> QED BY <3>2, <3>3 DEF Finds
  <2>9. CASE TakeResult(c) \/ ClearError(c) \/ FallBack(c)
    <3>1. \E code, value : Return(c, code, value)
      BY <2>9 DEF TakeResult, ClearError, FallBack
    <3> QED BY <2>2, <3>1 DEF Return
  <2>10. CASE \/ Lock(c) \/ Send(c) \/ Relock(c) \/ LookForError(c)
              \/ Timeout(c) \/ SpuriousWakeup(c) \/ Stray(c)
    <3>1. PICK pc \in CallPcs \ {"type", "cache", "send"} : Goto(c, pc)
      BY <2>10 DEF Lock, Send, Relock, LookForError, Timeout, SpuriousWakeup, Stray, CallPcs
    <3> QED BY <2>1, <3>1
  <2> QED BY <2>3, <2>4, <2>5, <2>6, <2>7, <2>8, <2>9, <2>10 DEF CallerStep, CallStep
<1> QED BY <1>1, <1>2

LEMMA CallerAgrees ==
  ASSUME IInv, InStep, NEW D, NEW f, Agrees(D, f), NEW c \in Callers, UNCHANGED boardVars,
         CallerStep(c)
  PROVE  Agrees(D, f)'
<1>1. UNCHANGED <<lreg, rx, toLinux, breg, names>>
  BY CallerLeaves DEF boardVars
<1>2. \A d \in Callers : Finds(lreg, calls'[d])
  BY CallerFinds
<1>3. \A k \in 1 .. Len(toBoard') : Callable(D, breg.counter, toBoard'[k])
  <2>1. CASE Send(c)
    <3>1. toBoard' = toBoard \/ toBoard' = Append(toBoard, CallPacket(calls[c]))
      BY <2>1 DEF Send, SendToBoard, Put
    <3>2. Callable(D, breg.counter, CallPacket(calls[c]))
      BY <2>1, SentCallable DEF Send, At
    <3>3. toBoard \in Seq(ToPeer)
      BY DEF IInv, ConnectorInv, LineInv
    <3> QED BY <3>1, <3>2, <3>3, AllAppended DEF Agrees
  <2>2. CASE ~Send(c)
    BY <2>2, CallerLeaves DEF Agrees
  <2> QED BY <2>1, <2>2
<1> QED BY <1>1, <1>2, <1>3 DEF Agrees

\* The connector hears of the lambda whose id is its counter, and adds it.
LEMMA RegistrationHeard ==
  ASSUME IInv, InStep, NEW D, NEW f, Agrees(D, f), NEW p \in Registrations, HandleRegistered(p),
         lreg.counter < Told(breg.counter),
         p = RegisteredPacket(D[lreg.counter].name, D[lreg.counter].type, D[lreg.counter].cache)
  PROVE  /\ lreg'.counter = lreg.counter + 1
         /\ \A i \in Ids : i < lreg.counter => lreg'.slot[i] = lreg.slot[i]
         /\ Mirrors(D, breg.counter, lreg')
<1> DEFINE n == lreg.counter
           d == D[n]
<1>1. /\ lreg \in Registries /\ n \in Nat /\ breg.counter \in Nat
      /\ n < breg.counter /\ breg.counter <= MaxLambdas
  BY Counters DEF IInv, ConnectorInv, SharedInv
<1>2. n \in Ids
  BY <1>1, RegistryAssumption DEF Ids
<1>3. d \in Entry
  BY <1>1, <1>2 DEF Agrees, History
<1>4. p.name = d.name /\ p.type = d.type /\ p.cache = d.cache
  BY DEF RegisteredPacket
<1>5. p.name \in ShortNames /\ p.name \notin FullNames
  BY <1>3, <1>4 DEF InStep, Entry
<1>6. ASSUME NEW i \in Ids, i < n, lreg.slot[i] # Null
      PROVE  lreg.slot[i].name # p.name
  <2>1. Same(D[i], lreg.slot[i])
    BY <1>6 DEF Agrees, Mirrors
  <2>2. i < breg.counter /\ i # n
    BY <1>1, <1>6, Counters
  <2>3. D[i].name # D[n].name
    BY <1>1, <1>2, <2>2 DEF Agrees, History
  <2> QED BY <1>4, <2>1, <2>3 DEF Same
<1>7. RegisterFailure(lreg, p.name, FALSE) = 0
  BY <1>1, <1>2, <1>5, <1>6, NewNameAccepted
<1>8. PICK oom : /\ RegisterFailure(lreg, p.name, oom) = 0
                 /\ lreg' = Registered(lreg, p.name, p.type, p.cache, n, oom)
  <2>1. lreg' = Registered(lreg, p.name, p.type, p.cache, n, FALSE)
    BY <1>5 DEF HandleRegistered, Mirrored
  <2> QED BY <1>7, <2>1, Zenon
<1> DEFINE e == [id |-> n, name |-> p.name, type |-> p.type, cache |-> p.cache, arg |-> n]
<1>9. /\ lreg'.counter = n + 1
      /\ lreg'.slot[n] = e
      /\ \A i \in Ids : i # n => lreg'.slot[i] = lreg.slot[i]
  <2>1. ASSUME NEW nm, NEW ty, NEW ca, RegisterFailure(lreg, nm, oom) = 0,
               lreg' = Registered(lreg, nm, ty, ca, n, oom)
        PROVE  /\ lreg'.counter = n + 1
               /\ lreg'.slot[n] = [id |-> n, name |-> nm, type |-> ty, cache |-> ca, arg |-> n]
               /\ \A i \in Ids : i # n => lreg'.slot[i] = lreg.slot[i]
    BY <1>1, <1>2, <2>1, EntryAdded
  <2> QED BY <1>8, <2>1
<1>10. e # Null
  <2>1. e \in Entry
    BY <1>2, <1>3, <1>4, ConnectorAssumption DEF Entry
  <2> QED BY <2>1, NullAssumption
<1>11. Same(D[n], e)
  BY <1>4 DEF Same
<1> HIDE DEF e, d
<1>12. ASSUME NEW i \in Ids, i < lreg'.counter
       PROVE  lreg'.slot[i] # Null /\ Same(D[i], lreg'.slot[i])
  <2>1. CASE i = n
    BY <1>9, <1>10, <1>11, <2>1
  <2>2. CASE i # n
    <3>1. i < n /\ lreg'.slot[i] = lreg.slot[i]
      BY <1>1, <1>9, <1>12, <2>2, RegistryAssumption DEF Ids
    <3> QED BY <3>1 DEF Agrees, Mirrors
  <2> QED BY <2>1, <2>2
<1>13. lreg'.counter <= Told(breg.counter)
  BY <1>1, <1>9, Counters
<1> QED BY <1>1, <1>9, <1>12, <1>13 DEF Mirrors

LEMMA ReceiveAgrees ==
  ASSUME IInv, InStep, NEW D, NEW f, Agrees(D, f), Receive, UNCHANGED boardVars
  PROVE  \E g : Agrees(D, g)'
<1> DEFINE p == Head(toLinux)
<1>1. p \in FromPeer /\ toLinux' = Tail(toLinux) /\ toLinux # << >> /\ toLinux \in Seq(FromPeer)
  BY NextPacket DEF Receive, IInv, ConnectorInv, LineInv
<1>2. /\ Describes(D, breg.counter, p)
      /\ \A k \in 1 .. Len(toLinux') : Describes(D, breg.counter, toLinux'[k])
  BY <1>1, AllTaken DEF Agrees
<1>3. UNCHANGED <<breg, names, toBoard, calls>>
  BY DEF Receive, boardVars
<1>4. /\ \E g : Numbering(D, g, toLinux', IF p.layout = "REGISTERED" THEN lreg.counter + 1
                                          ELSE lreg.counter, Told(breg.counter))
      /\ p.layout = "REGISTERED" =>
           /\ lreg.counter < Told(breg.counter)
           /\ p = RegisteredPacket(D[lreg.counter].name, D[lreg.counter].type, D[lreg.counter].cache)
  BY <1>1, Counters, NumberingReceived DEF Agrees
<1>5. CASE p.layout = "REGISTERED"
  <2>1. p \in Registrations /\ p.ptype = "REGISTERED"
    BY <1>1, <1>5 DEF FromPeer, Registrations, Unregistrations, Mislabelled, Results, ErrorsFor
  <2>2. HandleRegistered(p) /\ rx' = rx
    BY <1>5, <2>1 DEF Receive, HandleRegistered
  <2> HIDE DEF p
  <2>3. /\ lreg'.counter = lreg.counter + 1
        /\ \A i \in Ids : i < lreg.counter => lreg'.slot[i] = lreg.slot[i]
        /\ Mirrors(D, breg.counter, lreg')
    BY <1>4, <1>5, <2>1, <2>2, RegistrationHeard
  <2>4. ASSUME NEW c \in Callers
        PROVE  Finds(lreg', calls[c])
    <3>1. calls[c].pc \in {"type", "cache", "send"} => calls[c].id \in Ids /\ calls[c].id < lreg.counter
      BY DEF IInv, ConnectorInv, CallsInv, Held, Committed, CallPcs
    <3>2. Finds(lreg, calls[c])
      BY DEF Agrees
    <3> QED BY <2>3, <3>1, <3>2 DEF Finds
  <2>5. PICK g : Numbering(D, g, toLinux', lreg'.counter, Told(breg.counter))
    BY <1>4, <1>5, <2>3
  <2> QED BY <1>2, <1>3, <2>2, <2>3, <2>4, <2>5 DEF Agrees
<1>6. CASE p.layout # "REGISTERED"
  <2>1. lreg' = lreg /\ (rx' = rx \/ rx'.pkt = p)
    BY <1>6 DEF Receive
  <2>2. rx'.pc # "idle" => Describes(D, breg.counter, rx'.pkt)
    BY <1>2, <2>1 DEF Agrees
  <2>3. PICK g : Numbering(D, g, toLinux', lreg'.counter, Told(breg.counter))
    BY <1>4, <1>6, <2>1
  <2> HIDE DEF p
  <2> QED BY <1>2, <1>3, <2>1, <2>2, <2>3 DEF Agrees
<1> QED BY <1>5, <1>6

\* The other steps of the libspt thread; no lambda is ever unregistered here.
LEMMA RxAgrees ==
  ASSUME IInv, InStep, NEW D, NEW f, Agrees(D, f), RxStep, ~Receive, UNCHANGED boardVars
  PROVE  Agrees(D, f)'
<1>1. ~RxUnregister /\ ~RxClear
  BY NothingGone DEF RxUnregister, RxClear
<1>2. UNCHANGED <<lreg, toLinux, toBoard, breg, names>>
  BY <1>1 DEF RxStep, RxFree, RxStore, RxNoError, RxCached, RxError, RxBroadcast, line, boardVars
<1>3. rx'.pc # "idle" => rx.pc # "idle" /\ rx'.pkt = rx.pkt
  <2>1. rx \in RxStates
    BY DEF IInv, ConnectorInv, SharedInv
  <2>2. CASE RxBroadcast
    BY <2>2 DEF RxBroadcast, RxIdle
  <2>3. CASE ~RxBroadcast
    <3>1. rx.pc # "idle" /\ \E pc : rx' = [rx EXCEPT !.pc = pc]
      BY <1>1, <2>3 DEF RxStep, RxFree, RxStore, RxNoError, RxCached, RxError, RxGoto
    <3> QED BY <2>1, <3>1 DEF RxStates, RxOf
  <2> QED BY <2>2, <2>3
<1>4. ASSUME NEW c \in Callers
      PROVE  Finds(lreg', calls'[c])
  <2>1. Finds(lreg, calls[c]) /\ calls[c] \in Calls
    BY DEF Agrees, IInv, ConnectorInv, CallsInv
  <2>2. CASE RxBroadcast
    <3>1. calls'[c] = calls[c] \/ calls'[c].pc = "woken"
      BY <2>1, <2>2 DEF RxBroadcast, Calls
    <3> QED BY <1>2, <2>1, <3>1 DEF Finds
  <2>3. CASE ~RxBroadcast
    <3>1. calls' = calls
      BY <1>1, <2>3 DEF RxStep, RxFree, RxStore, RxNoError, RxCached, RxError
    <3> QED BY <1>2, <2>1, <3>1
  <2> QED BY <2>2, <2>3
<1> QED BY <1>2, <1>3, <1>4 DEF Agrees

-----------------------------------------------------------------------------
(***************************************************************************)
(* The steps of the board.                                                 *)
(***************************************************************************)
\* A step that registers nothing, and may say something of what there is.
LEMMA BoardSpeaks ==
  ASSUME IInv, NEW D, NEW f, Agrees(D, f), UNCHANGED connectorVars, names' = names,
         breg'.counter = breg.counter, \A i \in Ids : breg'.slot[i] \in {Null, breg.slot[i]},
         toBoard' = toBoard \/ (toBoard # << >> /\ toBoard' = Tail(toBoard)),
         \/ toLinux' = toLinux
         \/ \E p : /\ toLinux' = Append(toLinux, p)
                   /\ p.layout # "REGISTERED" /\ Describes(D, breg.counter, p)
  PROVE  \E g : Agrees(D, g)'
<1>1. toLinux \in Seq(FromPeer) /\ toBoard \in Seq(ToPeer)
  BY DEF IInv, ConnectorInv, LineInv
<1>2. UNCHANGED <<lreg, rx, calls>>
  BY DEF connectorVars
<1>3. History(D, breg', names')
  <2>1. History(D, breg, names)
    BY DEF Agrees
  <2>2. \A i \in Ids : i < breg.counter => breg'.slot[i] \in {Null, D[i]}
    BY <2>1 DEF History
  <2> QED BY <2>1, <2>2 DEF History
<1>4. \A k \in 1 .. Len(toBoard') : Callable(D, breg'.counter, toBoard'[k])
  BY <1>1, AllTaken DEF Agrees
<1>5. CASE toLinux' = toLinux
  BY <1>2, <1>3, <1>4, <1>5 DEF Agrees
<1>6. CASE \E p : /\ toLinux' = Append(toLinux, p)
                  /\ p.layout # "REGISTERED" /\ Describes(D, breg.counter, p)
  <2>1. PICK p : /\ toLinux' = Append(toLinux, p)
                 /\ p.layout # "REGISTERED" /\ Describes(D, breg.counter, p)
    BY <1>6
  <2>2. PICK g : Numbering(D, g, toLinux', lreg.counter, Told(breg.counter))
    BY <1>1, <2>1, Counters, NumberingAppended DEF Agrees
  <2>3. \A k \in 1 .. Len(toLinux') : Describes(D, breg.counter, toLinux'[k])
    BY <1>1, <2>1, AllAppended DEF Agrees
  <2> QED BY <1>2, <1>3, <1>4, <2>2, <2>3 DEF Agrees
<1> QED BY <1>5, <1>6

\* What the board says of a lambda that it has is true to its history.
LEMMA ResultDescribes ==
  ASSUME IInv, NEW D, NEW f, Agrees(D, f), NEW id \in Nat, NEW t, NEW v, CanAnswer(id, t)
  PROVE  Describes(D, breg.counter, ResultPacket(t, id, ById(breg, id).name, v))
<1> DEFINE e == ById(breg, id)
           p == ResultPacket(t, id, e.name, v)
<1>1. e # Null /\ e.type = t
  BY DEF CanAnswer
<1>2. id \in Ids /\ id < breg.counter /\ breg.slot[id] = e
  BY <1>1, LookupFinds DEF IInv, BoardInv
<1>3. D[id] = e
  BY <1>1, <1>2 DEF Agrees, History
<1>4. p.ptype = "RESULT" /\ p.id = id /\ p.name = e.name /\ p.type = t
  BY DEF ResultPacket
<1> HIDE DEF p, e
<1>5. Describes(D, breg.counter, p)
  BY <1>1, <1>2, <1>3, <1>4 DEF Describes
<1> QED BY <1>5 DEF p, e

LEMMA ResultAnnounced ==
  ASSUME IInv, NEW D, NEW f, Agrees(D, f), NEW id \in Nat, NEW t, NEW v, CanAnswer(id, t),
         SendResult(id, t, v)
  PROVE  \/ toLinux' = toLinux
         \/ \E p : /\ toLinux' = Append(toLinux, p)
                   /\ p.layout # "REGISTERED" /\ Describes(D, breg.counter, p)
<1>1. ResultPacket(t, id, ById(breg, id).name, v).layout # "REGISTERED"
  BY DEF ResultPacket
<1> QED BY <1>1, ResultDescribes DEF SendResult, Announce, SendToLinux, Put

LEMMA UnregisterAgrees ==
  ASSUME IInv, NEW D, NEW f, Agrees(D, f), NEW id \in Ids, unregister_lambda(id),
         UNCHANGED connectorVars
  PROVE  \E g : Agrees(D, g)'
<1> DEFINE p == UnregisteredPacket("REGISTERED", id, ById(breg, id).name)
<1>1. p.layout # "REGISTERED" /\ Describes(D, breg.counter, p)
  BY DEF UnregisteredPacket, Describes
<1>2. toLinux' = toLinux \/ toLinux' = Append(toLinux, p)
  BY DEF unregister_lambda, Announce, SendToLinux, Put
<1>3. breg'.counter = breg.counter /\ \A i \in Ids : breg'.slot[i] \in {Null, breg.slot[i]}
  BY DEF unregister_lambda, Unregistered, IInv, BoardInv, Registries
<1> HIDE DEF p
<1> QED BY <1>1, <1>2, <1>3, BoardSpeaks DEF unregister_lambda

LEMMA PushAgrees ==
  ASSUME IInv, NEW D, NEW f, Agrees(D, f), NEW id \in Ids, NEW t \in Types,
         push_result(id, t), UNCHANGED connectorVars
  PROVE  \E g : Agrees(D, g)'
<1>1. id \in Nat
  BY RegistryAssumption DEF Ids
<1>2. \/ toLinux' = toLinux
      \/ \E p : /\ toLinux' = Append(toLinux, p)
                /\ p.layout # "REGISTERED" /\ Describes(D, breg.counter, p)
  BY <1>1, ResultAnnounced DEF push_result
<1> QED BY <1>2, BoardSpeaks DEF push_result

LEMMA AnswerAgrees ==
  ASSUME IInv, NEW D, NEW f, Agrees(D, f), Answer, UNCHANGED connectorVars
  PROVE  \E g : Agrees(D, g)'
<1>1. spt.id \in Nat
  <2>1. spt.id \in Ids
    BY DEF Answer, IInv, BoardInv
  <2> QED BY <2>1, RegistryAssumption DEF Ids
<1>2. \/ toLinux' = toLinux
      \/ \E p : /\ toLinux' = Append(toLinux, p)
                /\ p.layout # "REGISTERED" /\ Describes(D, breg.counter, p)
  BY <1>1, ResultAnnounced DEF Answer
<1> QED BY <1>2, BoardSpeaks DEF Answer

LEMMA HandleCallAgrees ==
  ASSUME IInv, NEW D, NEW f, Agrees(D, f), HandleCall, UNCHANGED connectorVars
  PROVE  \E g : Agrees(D, g)'
<1>1. \/ toLinux' = toLinux
      \/ \E id, code : Announce(ErrorPacket(id, code))
  BY DEF HandleCall
<1>2. \A id, code : LET p == ErrorPacket(id, code)
                    IN  p.layout # "REGISTERED" /\ Describes(D, breg.counter, p)
  BY DEF ErrorPacket, Describes
<1>3. \/ toLinux' = toLinux
      \/ \E p : /\ toLinux' = Append(toLinux, p)
                /\ p.layout # "REGISTERED" /\ Describes(D, breg.counter, p)
  BY <1>1, <1>2 DEF Announce, SendToLinux, Put
<1> QED BY <1>3, BoardSpeaks DEF HandleCall

\* A step of the board that the connector sees nothing of.
LEMMA BoardSilent ==
  ASSUME IInv, NEW D, NEW f, Agrees(D, f), UNCHANGED <<connectorVars, breg, names, line>>
  PROVE  Agrees(D, f)'
  BY DEF Agrees, connectorVars, line

\* Registering, when it is refused, when it is accepted and announced, and when
\* its id is one that does not fit the result.
LEMMA RefusedAgrees ==
  ASSUME IInv, NEW D, NEW f, Agrees(D, f), NEW n, NEW t, NEW c, NEW a,
         register_lambda(n, t, c, a), RegisterFailure(breg, n, FALSE) # 0,
         UNCHANGED connectorVars
  PROVE  Agrees(D, f)'
<1>1. breg' = breg /\ UNCHANGED <<toLinux, toBoard>> /\ names \subseteq names'
  BY NothingAdded DEF register_lambda
<1>2. History(D, breg, names')
  BY <1>1 DEF Agrees, History
<1> QED BY <1>1, <1>2 DEF Agrees, connectorVars

LEMMA NumberingGoesOn ==
  ASSUME NEW S, NEW s \in Seq(S), NEW D, NEW E, NEW f, NEW low \in Nat, NEW high \in Nat,
         Numbering(D, f, s, low, high), high <= MaxLambdas,
         \A i \in Ids : i < high => E[i] = D[i]
  PROVE  Numbering(E, f, s, low, high)
<1>1. ASSUME NEW k \in 1 .. Len(s), s[k].layout = "REGISTERED"
      PROVE  /\ f[k] < high /\ f[k + 1] = f[k] + 1
             /\ s[k] = RegisteredPacket(E[f[k]].name, E[f[k]].type, E[f[k]].cache)
  <2>1. f[k] \in 0 .. high /\ f[k] < high
    BY <1>1 DEF Numbering
  <2>2. f[k] \in Ids
    BY <2>1, RegistryAssumption DEF Ids
  <2>3. E[f[k]] = D[f[k]]
    BY <2>1, <2>2
  <2> QED BY <1>1, <2>1, <2>3 DEF Numbering
<1> QED BY <1>1 DEF Numbering

\* Every result on its way has the id of some slot.
LEMMA ResultIds ==
  ASSUME IInv
  PROVE  /\ \A k \in 1 .. Len(toLinux) : toLinux[k].ptype = "RESULT" => toLinux[k].id \in Ids
         /\ rx.pc # "idle" /\ rx.pkt.ptype = "RESULT" => rx.pkt.id \in Ids
<1>1. ASSUME NEW p \in FromPeer, p.ptype = "RESULT"
      PROVE  p.id \in Ids
  BY <1>1 DEF FromPeer, Registrations, Unregistrations, Mislabelled, Results, ErrorsFor
<1>2. \A k \in 1 .. Len(toLinux) : toLinux[k] \in FromPeer
  BY DEF IInv, ConnectorInv, LineInv
<1>3. rx.pc # "idle" => rx.pkt.id \in Ids
  BY RxPacket DEF IInv, ConnectorInv
<1> QED BY <1>1, <1>2, <1>3

LEMMA AcceptedAgrees ==
  ASSUME IInv, InStep, NEW D, NEW f, Agrees(D, f), NEW n \in Names, NEW t \in Types,
         NEW c \in Policies, NEW a \in {Func, Null}, register_lambda(n, t, c, a),
         RegisterFailure(breg, n, FALSE) = 0, UNCHANGED connectorVars
  PROVE  \E E, g : Agrees(E, g)'
<1> DEFINE b == breg.counter
           e == [id |-> b, name |-> n, type |-> t, cache |-> c, arg |-> a]
           E == [D EXCEPT ![b] = e]
<1>1. breg \in Registries /\ WellFormed(breg) /\ b \in Nat /\ a \in Args
  BY Counters, BoardAssumption DEF IInv, BoardInv
<1>2. b \in Ids /\ n \in ShortNames \cup FullNames /\ ByName(breg, n) = Null
  <2>1. PICK oom \in BOOLEAN : RegisterFailure(breg, n, oom) = 0
    OBVIOUS
  <2>2. b \in Ids /\ n \in ShortNames \cup FullNames
    BY <1>1, <2>1, Accepted
  <2>3. ByName(breg, n) = Null
    BY <2>1 DEF RegisterFailure, RegisterLimitReached, RegisterInvalName, RegisterDuplicate
  <2> QED BY <2>2, <2>3
<1>3. n \notin names
  BY <1>2 DEF register_lambda, Allowed, InStep
<1>4. e \in Entry /\ (e.arg = Null => e.cache = "CACHE_ONLY") /\ e.name = n
  BY <1>1, <1>2 DEF Entry, register_lambda
<1>5. /\ breg'.counter = b + 1
      /\ breg'.slot[b] = e
      /\ \A i \in Ids : i # b => breg'.slot[i] = breg.slot[i]
  <2>1. PICK oom : /\ RegisterFailure(breg, n, oom) = 0
                   /\ breg' = Registered(breg, n, t, c, a, oom)
    <3>1. breg' = Registered(breg, n, t, c, a, FALSE)
      BY DEF register_lambda
    <3> QED BY <3>1, Zenon
  <2> QED BY <1>1, <1>2, <2>1, EntryAdded
<1> HIDE DEF e
<1>6. History(E, breg', names')
  <2>1. History(D, breg, names) /\ names' = names \cup {e.name}
    BY <1>4 DEF Agrees, register_lambda
  <2> QED BY <1>1, <1>2, <1>3, <1>4, <1>5, <2>1, HistoryGrows
<1>7. \A i \in Ids : i < b => E[i] = D[i]
  BY <1>1, Counters DEF Agrees, History
<1>8. E[b] = e
  BY <1>2 DEF Agrees, History
<1>9. /\ Told(b) \in Nat /\ Told(b) <= b /\ Told(b) <= Told(b + 1)
      /\ AsInt8(b) < 0 => Told(b + 1) = Told(b)
      /\ AsInt8(b) >= 0 => Told(b) = b /\ Told(b + 1) = b + 1
  <2>1. b + 1 <= MaxLambdas
    BY <1>1, <1>2, RegistryAssumption DEF Ids
  <2> QED BY <1>1, <2>1, ToldGrows
<1> HIDE DEF E
<1>10. /\ \A p : Describes(D, b, p) /\ (p.ptype = "RESULT" => p.id \in Ids) => Describes(E, b + 1, p)
       /\ \A p : Callable(D, b, p) => Callable(E, b + 1, p)
       /\ Mirrors(E, b + 1, lreg)
  <2>1. lreg \in Registries /\ Mirrors(D, b, lreg)
    BY DEF IInv, ConnectorInv, SharedInv, Agrees
  <2> QED BY <1>1, <1>7, <1>9, <2>1, HistoryGoesOn
<1>11. UNCHANGED <<lreg, rx, calls, toBoard>>
  BY DEF register_lambda, connectorVars
<1>12. /\ \A k \in 1 .. Len(toLinux) : Describes(E, b + 1, toLinux[k])
       /\ rx.pc # "idle" => Describes(E, b + 1, rx.pkt)
       /\ \A k \in 1 .. Len(toBoard) : Callable(E, b + 1, toBoard[k])
  BY <1>10, ResultIds DEF Agrees
<1>13. toLinux \in Seq(FromPeer)
  BY DEF IInv, ConnectorInv, LineInv
<1>14. Numbering(D, f, toLinux, lreg.counter, Told(b)) /\ lreg.counter \in Nat /\ b <= MaxLambdas
  BY Counters DEF Agrees
<1>15. RegisterResult(breg, n, FALSE) = AsInt8(b)
  BY DEF RegisterResult
<1>16. CASE AsInt8(b) < 0
  <2>1. toLinux' = toLinux
    BY <1>15, <1>16 DEF register_lambda
  <2>2. Told(b) <= MaxLambdas /\ \A i \in Ids : i < Told(b) => E[i] = D[i]
    BY <1>1, <1>7, <1>9, <1>14, Counters, RegistryAssumption
  <2>3. Numbering(E, f, toLinux, lreg.counter, Told(b))
    BY <1>9, <1>13, <1>14, <2>2, NumberingGoesOn
  <2> QED BY <1>5, <1>6, <1>9, <1>10, <1>11, <1>12, <1>16, <2>1, <2>3 DEF Agrees
<1>17. CASE ~(AsInt8(b) < 0)
  <2>1. AsInt8(b) >= 0
    BY <1>1, <1>17, RegistryAssumption DEF AsInt8
  <2> DEFINE p == RegisteredPacket(n, t, c)
  <2>2. toLinux' = Append(toLinux, p)
    BY <1>15, <1>17 DEF register_lambda, Allowed, InStep, Announce, SendToLinux, Put
  <2>3. p = RegisteredPacket(E[b].name, E[b].type, E[b].cache)
    BY <1>8 DEF e
  <2>4. Describes(E, b + 1, p)
    BY DEF RegisteredPacket, Describes
  <2> HIDE DEF p
  <2>5. PICK g : Numbering(E, g, toLinux', lreg.counter, Told(b + 1))
    <3>1. Numbering(D, f, toLinux, lreg.counter, b) /\ Told(b + 1) = b + 1
      BY <1>9, <1>14, <2>1
    <3>2. \E g : Numbering(E, g, Append(toLinux, p), lreg.counter, b + 1)
      BY <1>1, <1>2, <1>7, <1>13, <1>14, <2>3, <3>1, NumberingRegistered
    <3> QED BY <2>2, <3>1, <3>2
  <2>6. \A k \in 1 .. Len(toLinux') : Describes(E, b + 1, toLinux'[k])
    BY <1>12, <1>13, <2>2, <2>4, AllAppended
  <2> QED BY <1>5, <1>6, <1>10, <1>11, <1>12, <2>5, <2>6 DEF Agrees
<1> QED BY <1>16, <1>17

LEMMA RegisterAgrees ==
  ASSUME IInv, InStep, NEW D, NEW f, Agrees(D, f), NEW n \in Names, NEW t \in Types,
         NEW c \in Policies, NEW a \in {Func, Null}, register_lambda(n, t, c, a),
         UNCHANGED connectorVars
  PROVE  \E E, g : Agrees(E, g)'
<1>1. CASE RegisterFailure(breg, n, FALSE) = 0
  BY <1>1, AcceptedAgrees
<1>2. CASE RegisterFailure(breg, n, FALSE) # 0
  BY <1>2, RefusedAgrees
<1> QED BY <1>1, <1>2

\* rs_start finds the registry as it was at the beginning, and nothing stops.
LEMMA StartAgrees ==
  ASSUME IInv, InStep, Started, NEW D, NEW f, Agrees(D, f), UNCHANGED connectorVars,
         rs_start \/ rs_started \/ rs_stop \/ rs_stopped
  PROVE  Agrees(D, f)'
<1>1. ~rs_stop /\ ~rs_stopped
  BY DEF InStep, Started, rs_stop, rs_stopped
<1>2. breg' = breg
  <2>1. CASE rs_start
    <3>1. breg = ZeroedRegistry /\ breg' = Initialised(breg)
      BY <2>1 DEF rs_start, Started
    <3> QED BY <3>1 DEF Initialised, ZeroedRegistry
  <2>2. CASE rs_started
    BY <2>2 DEF rs_started
  <2> QED BY <1>1, <2>1, <2>2
<1> QED BY <1>1, <1>2, BoardSilent DEF rs_start, rs_started

LEMMA BoardAgrees ==
  ASSUME IInv, InStep, Started, NEW D, NEW f, Agrees(D, f), BoardNext, UNCHANGED connectorVars
  PROVE  \E E, g : Agrees(E, g)'
<1>1. ASSUME NEW id \in Ids, NEW t \in Types, LocalCall(id, t)
      PROVE  Agrees(D, f)'
  BY <1>1, BoardSilent DEF LocalCall
<1>2. CASE SptStep
  BY <1>2, HandleCallAgrees, AnswerAgrees DEF SptStep
<1>3. CASE AppStep
  BY <1>3, RegisterAgrees, UnregisterAgrees, PushAgrees, StartAgrees DEF AppStep
<1> QED BY <1>1, <1>2, <1>3 DEF BoardNext

\* As long as the board has not started there is nothing in its registry.
LEMMA BoardStarted ==
  ASSUME IInv, InStep, Started, BoardNext
  PROVE  Started'
<1>1. CASE \E n \in Names, t \in Types, c \in Policies, f \in {Func, Null} :
              register_lambda(n, t, c, f)
  BY <1>1 DEF register_lambda, Allowed, InStep, Started
<1>2. CASE \E id \in Ids : unregister_lambda(id)
  <2>1. PICK id \in Ids : unregister_lambda(id)
    BY <1>2
  <2>2. phase # "off"
    <3>1. ById(ZeroedRegistry, id) = Null
      BY DEF ById, ZeroedRegistry, EmptySlots
    <3> QED BY <2>1, <3>1 DEF unregister_lambda, Started
  <2> QED BY <2>1, <2>2 DEF unregister_lambda, Started
<1>3. CASE rs_start \/ rs_started \/ rs_stop \/ rs_stopped
  BY <1>3 DEF rs_start, rs_started, rs_stop, rs_stopped, InStep, Started
<1>4. CASE \E id \in Ids, t \in Types : push_result(id, t) \/ LocalCall(id, t)
  BY <1>4 DEF push_result, LocalCall, Started
<1>5. CASE SptStep
  BY <1>5 DEF SptStep, HandleCall, Answer, Started
<1> QED BY <1>1, <1>2, <1>3, <1>4, <1>5 DEF BoardNext, AppStep

LEMMA ConnectorAgrees ==
  ASSUME IInv, InStep, NEW D, NEW f, Agrees(D, f), ConnectorNext, UNCHANGED boardVars
  PROVE  \E E, g : Agrees(E, g)'
<1>1. ~Restart
  BY DEF InStep, Restart
<1> QED BY <1>1, ACallerStep, CallerAgrees, ReceiveAgrees, RxAgrees DEF ConnectorNext

LEMMA InitAgrees == Init => AgreeInv
<1> SUFFICES ASSUME Init PROVE AgreeInv
  OBVIOUS
<1> DEFINE f == [k \in 1 .. 1 |-> 0]
<1>1. /\ breg = ZeroedRegistry /\ lreg = ZeroedRegistry /\ phase = "off"
      /\ toLinux = << >> /\ toBoard = << >> /\ rx.pc = "idle"
      /\ \A c \in Callers : calls[c].pc = "idle"
  BY DEF Init, BoardInit, ConnectorInit, SerialInit, RxIdle, NoCall
<1>2. ZeroedRegistry.counter = 0 /\ \A i \in Ids : ~(i < 0)
  BY RegistryAssumption DEF ZeroedRegistry, Ids
<1>3. History(EmptySlots, breg, names)
  BY <1>1, <1>2 DEF History, EmptySlots
<1>4. Told(0) = 0
  BY RegistryAssumption DEF Told
<1>5. Mirrors(EmptySlots, breg.counter, lreg)
  BY <1>1, <1>2, <1>4 DEF Mirrors
<1>6. Numbering(EmptySlots, f, toLinux, lreg.counter, Told(breg.counter))
  BY <1>1, <1>2, <1>4 DEF Numbering
<1>7. Agrees(EmptySlots, f)
  BY <1>1, <1>3, <1>5, <1>6 DEF Agrees, Finds
<1> QED BY <1>1, <1>7 DEF AgreeInv, Started

LEMMA NextAgrees == IInv /\ InStep /\ AgreeInv /\ [Next]_vars => AgreeInv'
<1> SUFFICES ASSUME IInv, InStep, AgreeInv, [Next]_vars PROVE AgreeInv'
  OBVIOUS
<1>1. PICK D, f : Agrees(D, f)
  BY DEF AgreeInv
<1>2. Started
  BY DEF AgreeInv
<1>3. CASE ConnectorNext /\ UNCHANGED boardVars
  BY <1>1, <1>2, <1>3, ConnectorAgrees DEF AgreeInv, Started, boardVars
<1>4. CASE BoardNext /\ UNCHANGED connectorVars
  BY <1>1, <1>2, <1>4, BoardAgrees, BoardStarted DEF AgreeInv
<1>5. CASE UNCHANGED vars
  <2>1. Agrees(D, f)'
    BY <1>1, <1>5, BoardSilent DEF vars, boardVars
  <2> QED BY <1>2, <1>5, <2>1 DEF AgreeInv, Started, vars, boardVars
<1> QED BY <1>3, <1>4, <1>5 DEF Next

LEMMA AlwaysAgree == InStep => (Spec => [](IInv /\ AgreeInv))
<1>1. InStep /\ (IInv /\ AgreeInv) /\ [Next]_vars => (IInv /\ AgreeInv)'
  BY NextInv, NextAgrees
<1>2. Init => IInv /\ AgreeInv
  BY InitInv, InitAgrees
<1>3. CASE InStep
  <2>1. (IInv /\ AgreeInv) /\ [Next]_vars => (IInv /\ AgreeInv)'
    BY <1>1, <1>3
  <2> QED BY <1>2, <2>1, PTL DEF Spec
<1>4. CASE ~InStep
  BY <1>4
<1> QED BY <1>3, <1>4

-----------------------------------------------------------------------------
(***************************************************************************)
(* What follows, for an application and a line as InStep says.             *)
(***************************************************************************)
\* An id means the same lambda on both sides, although it is in no registration
\* packet and lambdas come and go on the board while packets are under way.
THEOREM IdsAlwaysAgree ==
  ASSUME InStep
  PROVE  Spec => []IdsAgree
<1>1. IInv /\ AgreeInv => IdsAgree
  <2> SUFFICES ASSUME IInv, AgreeInv, NEW i \in Live(breg) \cap Live(lreg)
               PROVE  Same(breg.slot[i], lreg.slot[i])
    BY DEF IdsAgree
  <2>1. PICK D, f : Agrees(D, f)
    BY DEF AgreeInv
  <2>2. i \in Ids /\ i < lreg.counter /\ i < breg.counter /\ breg.slot[i] # Null
    BY DEF Live, IInv, BoardInv, ConnectorInv, SharedInv, WellFormed, SlotsBelowCounter
  <2>3. breg.slot[i] = D[i] /\ Same(D[i], lreg.slot[i])
    BY <2>1, <2>2 DEF Agrees, History, Mirrors
  <2> QED BY <2>3
<1> QED BY <1>1, AlwaysAgree, PTL

\* A result is written to the cache of the lambda that made it, however late it
\* comes: the connector goes by the id alone.
THEOREM ResultsAlwaysFitTheirLambda ==
  ASSUME InStep
  PROVE  Spec => []ResultsFitTheirLambda
<1>1. IInv /\ AgreeInv => ResultsFitTheirLambda
  <2> SUFFICES ASSUME IInv, AgreeInv, rx.pc # "idle", rx.pkt.ptype = "RESULT",
                      lreg.slot[rx.pkt.id] # Null
               PROVE  /\ lreg.slot[rx.pkt.id].name = rx.pkt.name
                      /\ lreg.slot[rx.pkt.id].type = rx.pkt.type
    BY DEF ResultsFitTheirLambda
  <2> DEFINE i == rx.pkt.id
  <2>1. PICK D, f : Agrees(D, f)
    BY DEF AgreeInv
  <2>2. i \in Ids
    BY ResultIds
  <2>3. i < lreg.counter
    BY <2>2 DEF IInv, ConnectorInv, SharedInv, WellFormed, SlotsBelowCounter, Live
  <2>4. Same(D[i], lreg.slot[i]) /\ rx.pkt.name = D[i].name /\ rx.pkt.type = D[i].type
    BY <2>1, <2>2, <2>3 DEF Agrees, Mirrors, Describes
  <2> QED BY <2>4 DEF Same
<1> QED BY <1>1, AlwaysAgree, PTL

\* The entry that a call is about has a function.
LEMMA CalledHasFunction ==
  ASSUME IInv, NEW D, NEW f, Agrees(D, f), NEW p, Callable(D, breg.counter, p),
         CalledId(p) # Null, CallError(CalledId(p), p.type) = 0
  PROVE  ById(breg, CalledId(p)).arg # Null
<1> DEFINE e == ById(breg, CalledId(p))
<1>1. PICK i \in Ids : /\ i < breg.counter /\ D[i].cache # "CACHE_ONLY"
                       /\ \/ p.ptype = "CALL_BY_ID" /\ p.id = i
                          \/ p.ptype = "CALL_BY_NAME" /\ p.name = D[i].name
  BY DEF Callable
<1>2. e # Null
  BY DEF CallError, NotFound
<1>3. breg \in Registries /\ WellFormed(breg)
  BY DEF IInv, BoardInv
<1>4. e = D[i]
  <2>1. CASE p.ptype = "CALL_BY_ID" /\ p.id = i
    <3>1. CalledId(p) = i
      BY <2>1 DEF CalledId
    <3>2. e = breg.slot[i]
      BY <1>1, <1>2, <1>3, <3>1, LookupFinds, RegistryAssumption DEF Ids
    <3> QED BY <1>1, <1>2, <3>2 DEF Agrees, History
  <2>2. CASE p.ptype = "CALL_BY_NAME" /\ p.name = D[i].name
    <3> DEFINE g == ByName(breg, p.name)
    <3>1. CASE g = Null
      BY <1>2, <2>2, <3>1 DEF CalledId
    <3>2. CASE g # Null
      <4>1. PICK j \in Hits(breg, p.name) : TRUE
        BY <3>2 DEF ByName
      <4>2. j \in Ids /\ j < breg.counter /\ breg.slot[j] # Null /\ breg.slot[j].name = p.name
        BY <4>1 DEF Hits, NameEquals
      <4>3. g = breg.slot[j] /\ breg.slot[j].id = j
        BY <1>3, <4>1, <4>2, ByNameFinds DEF WellFormed, SlotsBelowCounter, Live
      <4>4. breg.slot[j] = D[j]
        BY <4>2 DEF Agrees, History
      <4>5. j = i
        BY <1>1, <2>2, <4>2, <4>4 DEF Agrees, History
      <4>6. CalledId(p) = i
        BY <2>2, <3>2, <4>3, <4>5 DEF CalledId
      <4> QED BY <1>2, <1>3, <4>4, <4>5, <4>6, LookupFinds, RegistryAssumption DEF Ids
    <3> QED BY <3>1, <3>2
  <2> QED BY <1>1, <2>1, <2>2
<1>5. D[i].arg # Null
  BY <1>1 DEF Agrees, History
<1> QED BY <1>4, <1>5

\* No call that comes over the line runs a lambda without a function: the board
\* relies on the connector, which looks at the policy of what it has under the
\* same id or name some time before.
THEOREM NullIsNeverCalled ==
  ASSUME InStep, "local" \notin Scope
  PROVE  Spec => []NullNeverCalled
<1>1. IInv /\ AgreeInv /\ NullNeverCalled /\ [Next]_vars => NullNeverCalled'
  <2> SUFFICES ASSUME IInv, AgreeInv, NullNeverCalled, [Next]_vars
               PROVE  NullNeverCalled'
    OBVIOUS
  <2>1. CASE HandleCall
    <3> DEFINE p == Head(toBoard)
    <3>1. PICK D, f : Agrees(D, f)
      BY DEF AgreeInv
    <3>2. Callable(D, breg.counter, p)
      <4>1. toBoard \in Seq(ToPeer) /\ toBoard # << >>
        BY <2>1 DEF HandleCall, IInv, ConnectorInv, LineInv
      <4> QED BY <3>1, <4>1, AllTaken DEF Agrees
    <3>3. \/ fault' = fault
          \/ /\ CalledId(p) # Null /\ CallError(CalledId(p), p.type) = 0
             /\ Evaluate(ById(breg, CalledId(p)))
      BY <2>1 DEF HandleCall
    <3> HIDE DEF p
    <3>4. CASE /\ CalledId(p) # Null /\ CallError(CalledId(p), p.type) = 0
               /\ Evaluate(ById(breg, CalledId(p)))
      <4>1. ById(breg, CalledId(p)).arg # Null
        BY <3>1, <3>2, <3>4, CalledHasFunction
      <4>2. fault' = fault
        BY <3>4, <4>1 DEF Evaluate
      <4> QED BY <4>2 DEF NullNeverCalled
    <3> QED BY <3>3, <3>4 DEF NullNeverCalled
  <2>2. CASE ~HandleCall
    <3>1. ASSUME NEW id \in Ids, NEW t \in Types, LocalCall(id, t)
          PROVE  FALSE
      BY <3>1 DEF LocalCall
    <3>2. fault' \in {fault, "overrun"}
      BY <2>2, <3>1 DEF Next, BoardNext, AppStep, SptStep, register_lambda, unregister_lambda,
         push_result, rs_start, rs_started, rs_stop, rs_stopped, Answer, SendResult,
         boardVars, vars
    <3> QED BY <3>2 DEF NullNeverCalled
  <2> QED BY <2>1, <2>2
<1>2. Init => NullNeverCalled
  BY DEF Init, BoardInit, NullNeverCalled
<1> QED BY <1>1, <1>2, AlwaysAgree, PTL DEF Spec
=============================================================================
