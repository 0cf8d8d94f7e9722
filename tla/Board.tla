------------------------------- MODULE Board -------------------------------
(***************************************************************************)
(* The RIOT board, riotmodule/rs.c and the calls of rs_coap_server.c.      *)
(* Three threads use the board's registry without a lock: the application, *)
(* the libspt thread (handle_received_packet) and the CoAP server.         *)
(***************************************************************************)
EXTENDS Registry, Serial

CONSTANTS
  Func,              \* a function that evaluates a lambda, as a lambda_arg
  MaxProduced,       \* values made on the board, a bound of the model
  Scope              \* what happens on the board, see Behaviours

\* What an application may or may not do with the API of rs.h, and whether its
\* users send CoAP requests.
Behaviours == {
  "unregister",   \* unregister lambdas
  "rename",       \* register a name again after unregistering it
  "early",        \* register before rs_start
  "restart",      \* rs_stop, then rs_start
  "push",         \* send_result_lambda_* on its own initiative
  "local"}        \* evaluate lambdas for itself or for a CoAP client

ASSUME BoardAssumption ==
  /\ {Func, Null} \subseteq Args
  /\ Func # Null
  /\ MaxProduced \in Nat
  /\ Scope \subseteq Behaviours

VARIABLES
  breg,      \* the board's lambda registry
  phase,     \* "off", "starting" (in rs_start), "on" (rs_spt_started), "stopping"
  spt,       \* the libspt thread between evaluating a lambda and answering
  fault,     \* "", or the mistake that leaves the board in no defined state
  names      \* ghost: every name registered so far

boardVars == <<breg, phase, spt, fault, names>>

SptIdle == [pc |-> "idle", id |-> Null, type |-> Null, value |-> 0]

BoardInit ==
  /\ breg = ZeroedRegistry
  /\ phase = "off"
  /\ spt = SptIdle
  /\ fault = ""
  /\ names = {}

NotFound  == -1   \* RS_CALL_NOTFOUND, RS_RESULT_NOTFOUND
WrongType == -2   \* RS_CALL_WRONGTYPE, RS_RESULT_WRONGTYPE

\* Sent only once rs_spt_started is set.
\* Mutant: a busy line drops the packet.
AnnounceIfFree(packet) ==
  IF phase = "on" /\ toLinux = << >> THEN SendToLinux(packet) ELSE UNCHANGED toLinux

Announce(packet) ==
  IF phase = "on" THEN SendToLinux(packet) ELSE UNCHANGED toLinux

-----------------------------------------------------------------------------
(***************************************************************************)
(* The application.                                                        *)
(***************************************************************************)
Allowed(n) ==
  /\ phase = "on" \/ (phase = "off" /\ "early" \in Scope)
  /\ n \in names => "rename" \in Scope \/ ByName(breg, n) # Null

register_lambda(n, t, c, f) ==
  LET res == RegisterResult(breg, n, FALSE) IN
  /\ fault = "" /\ Allowed(n)
  /\ f = Null => c = "CACHE_ONLY"      \* RS_REGISTER_INVALPARAM changes nothing
  /\ breg' = Registered(breg, n, t, c, f, FALSE)
  /\ names' = names \cup {n}
  /\ IF res < 0 THEN UNCHANGED toLinux
     ELSE Announce(RegisteredPacket(n, t, c))
  /\ UNCHANGED <<phase, spt, fault, toBoard, produced>>

\* The type byte is RS_PACKET_REGISTERED.
unregister_lambda(id) ==
  /\ fault = "" /\ "unregister" \in Scope
  /\ ById(breg, id) # Null
  /\ Announce(UnregisteredPacket("REGISTERED", id, ById(breg, id).name))
  /\ breg' = Unregistered(breg, id)
  /\ UNCHANGED <<phase, spt, fault, names, toBoard, produced>>

\* send_result_lambda_int, _double and _string: nothing is sent when the lambda
\* is gone or of another type.
\* Mutant: the type check is missing.
CanAnswerAnyType(id, t) == ById(breg, id) # Null

CanAnswer(id, t) == ById(breg, id) # Null /\ ById(breg, id).type = t

\* A string is copied to the one character at the end of a packet on the stack,
\* and over what is behind it.
SendResult(id, t, value) ==
  \/ Announce(ResultPacket(t, id, ById(breg, id).name, value)) /\ UNCHANGED fault
  \/ t = "STRING" /\ phase = "on" /\ fault' = "overrun" /\ UNCHANGED toLinux

\* The application evaluates a lambda and sends the result unasked.
push_result(id, t) ==
  /\ fault = "" /\ "push" \in Scope
  /\ produced < MaxProduced
  /\ CanAnswer(id, t)
  /\ produced' = produced + 1
  /\ SendResult(id, t, produced')
  /\ UNCHANGED <<breg, phase, spt, names, toBoard>>

\* rs_start, up to the assignment that lets packets out.
rs_start ==
  /\ fault = "" /\ phase = "off"
  /\ breg' = Initialised(breg)
  /\ phase' = "starting"
  /\ UNCHANGED <<spt, fault, names, line, produced>>

rs_started ==
  /\ fault = "" /\ phase = "starting"
  /\ phase' = "on"
  /\ UNCHANGED <<breg, spt, fault, names, line, produced>>

\* The libspt thread runs on until spt_stop has ended it.
rs_stop ==
  /\ fault = "" /\ phase = "on" /\ "restart" \in Scope
  /\ phase' = "stopping"
  /\ breg' = Freed(breg)
  /\ UNCHANGED <<spt, fault, names, line, produced>>

rs_stopped ==
  /\ fault = "" /\ phase = "stopping" /\ spt.pc = "idle"
  /\ phase' = "off"
  /\ UNCHANGED <<breg, spt, fault, names, line, produced>>

-----------------------------------------------------------------------------
(***************************************************************************)
(* handle_received_packet and handle_call_lambda, on the libspt thread.    *)
(***************************************************************************)
\* call_lambda_int, _double and _string: RS_CALL_SUCCESS or the error.
CallError(id, t) ==
  IF ById(breg, id) = Null THEN NotFound
  ELSE IF ById(breg, id).type # t THEN WrongType
  ELSE 0

\* The id that a call packet names; Null if it names no lambda.
CalledId(p) ==
  IF p.ptype = "CALL_BY_ID" THEN p.id
  ELSE IF ByName(breg, p.name) = Null THEN Null
  ELSE ByName(breg, p.name).id

\* Running the lambda of entry e: a value, or the end of a NULL function.
Evaluate(e) ==
  IF e.arg = Null THEN fault' = "nullfunction" /\ UNCHANGED produced
  ELSE produced < MaxProduced /\ produced' = produced + 1 /\ UNCHANGED fault

HandleCall ==
  /\ fault = "" /\ phase # "off" /\ spt.pc = "idle"
  /\ toBoard # << >>
  /\ toBoard' = Tail(toBoard)
  /\ LET p  == Head(toBoard)
         id == CalledId(p)
     IN
       \/ (id = Null \/ p.type \notin Types) /\ UNCHANGED <<spt, fault, toLinux, produced>>
       \/ /\ id # Null /\ p.type \in Types /\ CallError(id, p.type) # 0
          /\ Announce(ErrorPacket(id, CallError(id, p.type)))
          /\ UNCHANGED <<spt, fault, produced>>
       \/ /\ id # Null /\ CallError(id, p.type) = 0
          /\ Evaluate(ById(breg, id))
          /\ spt' = IF fault' # "" THEN spt
                    ELSE [pc |-> "answer", id |-> id, type |-> p.type, value |-> produced']
          /\ UNCHANGED toLinux
  /\ UNCHANGED <<breg, phase, names>>

\* send_result_lambda_* looks the lambda up again.
Answer ==
  /\ fault = "" /\ spt.pc = "answer"
  /\ IF CanAnswer(spt.id, spt.type)
     THEN SendResult(spt.id, spt.type, spt.value)
     ELSE UNCHANGED <<toLinux, fault>>
  /\ spt' = SptIdle
  /\ UNCHANGED <<breg, phase, names, toBoard, produced>>

\* call_lambda_* called by the application or by perform_coap_lambda_call,
\* whatever the cache policy; the result stays off the line.
LocalCall(id, t) ==
  /\ fault = "" /\ "local" \in Scope
  /\ CallError(id, t) = 0
  /\ Evaluate(ById(breg, id))
  /\ UNCHANGED <<breg, phase, spt, names, line>>

AppStep ==
  \/ \E n \in Names, t \in Types, c \in Policies, f \in {Func, Null} : register_lambda(n, t, c, f)
  \/ \E id \in Ids : unregister_lambda(id)
  \/ \E id \in Ids, t \in Types : push_result(id, t)
  \/ rs_start
  \/ rs_started
  \/ rs_stop
  \/ rs_stopped

SptStep == HandleCall \/ Answer

BoardNext ==
  \/ AppStep
  \/ SptStep
  \/ \E id \in Ids, t \in Types : LocalCall(id, t)
=============================================================================
