----------------------------- MODULE BoardCoap -----------------------------
(***************************************************************************)
(* The CoAP server of the board, riotmodule/rs_coap_server.c, beside the   *)
(* application that registers and unregisters lambdas.  RIOT schedules by  *)
(* strict priority and the server's thread has the higher one: it runs     *)
(* between any two statements of the application, and the application only *)
(* while the server waits for a packet or inside a lambda's function.  So  *)
(* a handler is one step, up to the function it calls and after it, and    *)
(* the application's calls are split at their writes, in source order.     *)
(***************************************************************************)
EXTENDS Registry, FiniteSets

CONSTANTS
  Func,         \* a function that evaluates a lambda, as a lambda_arg
  UnknownType,  \* a type option that names no type
  Missing,      \* an option that is not given
  ListRoom,     \* the entries of a listing that fit the 500 bytes of `response` (8 to 10)
  Requests      \* the CoAP requests that may come in

(***************************************************************************)
(* A request.  The last option of a kind counts, for a listing the first.  *)
(* An id that is no number counts as missing, one without a value as 0, an *)
(* empty name as missing; FullNames stands for all names that are too long *)
(* for the handler's array of 12 characters.                               *)
(***************************************************************************)
ASSUME BoardCoapAssumption ==
  /\ Args = {Func, Null} /\ Func # Null
  /\ ListRoom \in Nat
  /\ UnknownType \notin Types /\ Missing \notin Types
  /\ UnknownType # Missing
  /\ \A q \in Requests : /\ q.op \in {"list", "id", "name", "fixed"}
                         /\ q.op = "id" => q.key = Missing \/ q.key \in Int
                         /\ q.op = "name" => q.key \in {Missing} \cup ShortNames \cup FullNames

VARIABLES
  reg,     \* the board's registry, as the application has written it so far
  mem,     \* the block a slot points to: "none", "raw", "live" or "freed"
  app,     \* where the application is in a call, and the id it is at
  coap,    \* the server's thread; `lambda` is the entry whose function runs, `at`
           \* the id whose block its pointer leads to, Null while that is given back
  answer,  \* the answer that the server is about to send
  down     \* "", or the mistake that leaves the board in no defined state

vars == <<reg, mem, app, coap, answer, down>>

AppIdle  == [pc |-> "idle", id |-> 0]
CoapIdle == [pc |-> "idle", lambda |-> Null, at |-> Null]
Reply(kind, shown) == [kind |-> kind, shown |-> shown]
NoReply == Reply("none", {})

Init ==
  /\ reg = ZeroedRegistry
  /\ mem = [i \in Ids |-> "none"]
  /\ app = AppIdle
  /\ coap = [CoapIdle EXCEPT !.pc = "off"]
  /\ answer = NoReply
  /\ down = ""

-----------------------------------------------------------------------------
(***************************************************************************)
(* The application: rs.c and lambda_registry.c, one write after the other. *)
(* Only it writes, so what a call has checked stays true until it returns. *)
(***************************************************************************)
App(pc) == down = "" /\ coap.pc # "send" /\ app.pc = pc

\* malloc may return the block that the server still has a pointer to.
MayReuse(i) ==
  \/ UNCHANGED coap
  \/ coap.pc = "evaluating" /\ coap.at = Null /\ coap' = [coap EXCEPT !.at = i]

\* Mutant: a lambda without a function is taken whatever its policy.
AllocAnyFunction(n, t, c, f, oom) ==
  LET i == reg.counter IN
  /\ App("idle")
  /\ reg' = [Registered(reg, n, t, c, f, oom) EXCEPT !.counter = i]
  /\ IF RegisterFailure(reg, n, oom) = 0
     THEN mem' = [mem EXCEPT ![i] = "raw"] /\ app' = [pc |-> "fill", id |-> i] /\ MayReuse(i)
     ELSE UNCHANGED <<mem, app, coap>>
  /\ UNCHANGED <<answer, down>>

\* register_lambda: the checks, and the block that malloc returns.
Alloc(n, t, c, f, oom) ==
  LET i == reg.counter IN
  /\ App("idle")
  /\ f = Null => c = "CACHE_ONLY"
  /\ reg' = [Registered(reg, n, t, c, f, oom) EXCEPT !.counter = i]
  /\ IF RegisterFailure(reg, n, oom) = 0
     THEN mem' = [mem EXCEPT ![i] = "raw"] /\ app' = [pc |-> "fill", id |-> i] /\ MayReuse(i)
     ELSE UNCHANGED <<mem, app, coap>>
  /\ UNCHANGED <<answer, down>>

\* Mutant: the counter goes up before the fields are written.
FillLate ==
  /\ App("fill")
  /\ reg' = [reg EXCEPT !.counter = @ + 1]
  /\ app' = [app EXCEPT !.pc = "publish"]
  /\ UNCHANGED <<mem, coap, answer, down>>

\* Five fields; until the last of them the block is not an entry.
Fill ==
  /\ App("fill")
  /\ mem' = [mem EXCEPT ![app.id] = "live"]
  /\ app' = [app EXCEPT !.pc = "publish"]
  /\ UNCHANGED <<reg, coap, answer, down>>

\* lambda_counter++ is what lets the lookups see the new entry.
Publish ==
  /\ App("publish")
  /\ reg' = [reg EXCEPT !.counter = app.id + 1]
  /\ app' = AppIdle
  /\ UNCHANGED <<mem, coap, answer, down>>

\* free(); the server may still run the function of that lambda.
FreeBlock(id, next) ==
  /\ mem' = [mem EXCEPT ![id] = "freed"]
  /\ app' = [pc |-> next, id |-> id]
  /\ coap' = [coap EXCEPT !.at = IF @ = id THEN Null ELSE @]
  /\ UNCHANGED <<reg, answer, down>>

\* The pointer is cleared after its block has been given back.
ClearSlot(id) ==
  /\ reg' = [reg EXCEPT !.slot[id] = Null]
  /\ mem' = [mem EXCEPT ![id] = "none"]
  /\ UNCHANGED <<coap, answer, down>>

unregister_lambda(id) == App("idle") /\ ById(reg, id) # Null /\ FreeBlock(id, "clear")

Unregister2 == App("clear") /\ ClearSlot(app.id) /\ app' = AppIdle

\* rs_stop: free_lambda_registry, while the CoAP thread goes on.
rs_stop ==
  /\ App("idle") /\ coap.pc # "off"
  /\ app' = [pc |-> "stop", id |-> 0]
  /\ UNCHANGED <<reg, mem, coap, answer, down>>

StopNext ==
  /\ App("stop") /\ app.id < reg.counter
  /\ IF reg.slot[app.id] = Null
     THEN app' = [app EXCEPT !.id = @ + 1] /\ UNCHANGED <<reg, mem, coap, answer, down>>
     ELSE FreeBlock(app.id, "stopclear")

StopClear ==
  App("stopclear") /\ ClearSlot(app.id) /\ app' = [pc |-> "stop", id |-> app.id + 1]

Stopped ==
  /\ App("stop") /\ app.id >= reg.counter
  /\ reg' = [reg EXCEPT !.counter = 0]
  /\ app' = AppIdle
  /\ UNCHANGED <<mem, coap, answer, down>>

\* rs_start creates the thread; a second one would share the first one's stack
\* and is left out.  What was registered before is lost, its ids are used up.
rs_start ==
  /\ App("idle") /\ coap.pc = "off"
  /\ reg' = Initialised(reg)
  /\ mem' = [i \in Ids |-> "none"]
  /\ coap' = CoapIdle
  /\ UNCHANGED <<app, answer, down>>

AppStep ==
  \/ \E n \in Names, t \in Types, c \in Policies, f \in Args, oom \in BOOLEAN :
        Alloc(n, t, c, f, oom)
  \/ Fill
  \/ Publish
  \/ \E id \in Ids : unregister_lambda(id)
  \/ Unregister2
  \/ rs_start
  \/ rs_stop
  \/ StopNext
  \/ StopClear
  \/ Stopped

-----------------------------------------------------------------------------
(***************************************************************************)
(* The server.                                                             *)
(***************************************************************************)
\* A packet has been received and parsed, and its endpoint is op.
Request(q, op) == down = "" /\ coap.pc = "idle" /\ q.op = op

Ends(cause) == down' = cause /\ UNCHANGED <<reg, mem, app, coap, answer>>

Answered(kind, shown) ==
  /\ answer' = Reply(kind, shown)
  /\ coap' = [CoapIdle EXCEPT !.pc = "send"]
  /\ UNCHANGED <<reg, mem, app, down>>

\* get_lambda_type_from_string.
ParsedType(s) == IF s \in Types \cup {Missing} THEN s ELSE UnknownType

\* (lambda_id_t) num; MaxLambdas is (lambda_id_t) -1, which stands for none.
ParsedId(key) == IF key = Missing THEN MaxLambdas ELSE key % (MaxLambdas + 1)

\* The entries that a lookup or a listing goes through before it stops at n.
Visible == {i \in Ids : i < reg.counter /\ reg.slot[i] # Null}
Walked(n) == {i \in Visible : \A j \in Visible : j < i => ~NameEquals(reg.slot[j], n)}

\* Reading a block that is not an entry any more, or not yet.
Misreads(blocks) == \E i \in blocks : mem[i] # "live" /\ Ends(mem[i])
Intact(blocks) == \A i \in blocks : mem[i] = "live"

\* .well-known/core and riot/board.
HandleFixed(q) == Request(q, "fixed") /\ Answered("fixed", {})

HandleList(q) ==
  LET t == ParsedType(q.type)
      listed == {i \in Visible : t \in {Missing, reg.slot[i].type}} IN
  /\ Request(q, "list")
  /\ \/ t = UnknownType /\ Answered("bad", {})
     \/ t # UnknownType /\ Misreads(Visible)
     \/ /\ t # UnknownType /\ Intact(Visible)
        /\ Cardinality(listed) > ListRoom /\ Ends("overrun")
     \/ /\ t # UnknownType /\ Intact(Visible)
        /\ Cardinality(listed) <= ListRoom
        /\ Answered("list", {reg.slot[i] : i \in listed})

\* perform_coap_lambda_call, up to the function: call_lambda_* looks the lambda
\* up by its id once more, which finds the same one.
Perform(q, e) ==
  IF e.type # q.type THEN Answered("error", {e})
  ELSE IF e.arg = Null THEN Ends("nullfunction")
  ELSE /\ coap' = [pc |-> "evaluating", lambda |-> e, at |-> e.id]
       /\ UNCHANGED <<reg, mem, app, answer, down>>

BadType(q) == ParsedType(q.type) \in {UnknownType, Missing}

HandleCallId(q) ==
  LET id == ParsedId(q.key) IN
  /\ Request(q, "id")
  /\ \/ (BadType(q) \/ id = MaxLambdas) /\ Answered("bad", {})
     \/ ~BadType(q) /\ id # MaxLambdas /\ ById(reg, id) = Null /\ Answered("error", {})
     \/ ~BadType(q) /\ id \in Visible /\ Misreads({id})
     \/ ~BadType(q) /\ id \in Visible /\ Intact({id}) /\ Perform(q, reg.slot[id])

\* A name is copied into an array of 12 characters before anything is checked.
HandleCallName(q) ==
  /\ Request(q, "name")
  /\ \/ q.key \in FullNames /\ Ends("overrun")
     \/ (q.key = Missing \/ (BadType(q) /\ q.key \notin FullNames)) /\ Answered("bad", {})
     \/ /\ ~BadType(q) /\ q.key \in ShortNames
        /\ \/ Misreads(Walked(q.key))
           \/ Intact(Walked(q.key)) /\ ByName(reg, q.key) = Null /\ Answered("error", {})
           \/ /\ Intact(Walked(q.key)) /\ ByName(reg, q.key) # Null
              /\ Perform(q, ByName(reg, q.key))

\* The function returns, and the entry is read for the answer: that of another
\* lambda if its block is one now; if it is none, what the bytes still say or
\* nothing that is an entry.
Return ==
  LET there == coap.at # Null /\ mem[coap.at] = "live" IN
  /\ down = "" /\ coap.pc = "evaluating"
  /\ \/ there /\ Answered("success", {reg.slot[coap.at]})
     \/ ~there /\ Ends("freed")
     \/ ~there /\ \E shown \in {{coap.lambda}, {}} : Answered("success", shown)

\* The reply goes out, and the server waits for the next packet.
Send ==
  /\ coap.pc = "send"
  /\ coap' = CoapIdle /\ answer' = NoReply
  /\ UNCHANGED <<reg, mem, app, down>>

CoapStep ==
  \/ \E q \in Requests : HandleFixed(q) \/ HandleList(q) \/ HandleCallId(q) \/ HandleCallName(q)
  \/ Return
  \/ Send

Next == AppStep \/ CoapStep

Spec == Init /\ [][Next]_vars

-----------------------------------------------------------------------------
\* BoardCoapTypeOK: the registry, the state of its blocks and the locals of the
\* two threads keep their types.
BoardCoapTypeOK ==
  /\ reg \in Registries
  /\ mem \in [Ids -> {"none", "raw", "live", "freed"}]
  /\ app \in [pc : {"idle", "fill", "publish", "clear", "stop", "stopclear"}, id : 0 .. MaxLambdas]
  /\ coap \in [pc : {"off", "idle", "send"}, lambda : {Null}, at : {Null}]
              \cup [pc : {"evaluating"}, lambda : Entry, at : Ids \cup {Null}]
  /\ answer.kind \in {"none", "fixed", "bad", "error", "success", "list"}
  /\ answer.shown \subseteq Entry
  /\ down \in {"", "raw", "freed", "overrun", "nullfunction"}

(***************************************************************************)
(* NeverReadsRaw: the server never meets an entry whose fields have not    *)
(* been written, although it may interrupt a registration between any two  *)
(* writes and nothing is locked.  It rests on the counter going up last    *)
(* (lambda_registry.c:94), in an array whose unused slots are not NULL     *)
(* while a registration is under way.                                      *)
(***************************************************************************)
NeverReadsRaw == down # "raw"

(***************************************************************************)
(* DiesOnlyOf: what can leave the board in no defined state, and nothing   *)
(* else: a lambda is being freed or was freed while its function ran (the  *)
(* application unregisters or stops), a CACHE_ONLY lambda without function *)
(* is evaluated, or an answer or a name is too long.                       *)
(***************************************************************************)
DiesOnlyOf ==
  /\ down = "freed" =>
       \/ app.pc \in {"clear", "stopclear"}
       \/ coap.pc = "evaluating" /\ (coap.at = Null \/ mem[coap.at] # "live")
  /\ down = "nullfunction" =>
       \E i \in Ids : /\ mem[i] = "live" /\ i < reg.counter
                      /\ reg.slot[i].cache = "CACHE_ONLY" /\ reg.slot[i].arg = Null

(***************************************************************************)
(* Directory: what the server can see changes as the abstract directory    *)
(* does, at every single write of the application: a lambda appears whole  *)
(* and under an id nobody had, or disappears, and nothing else happens.    *)
(***************************************************************************)
Directory == INSTANCE LambdaDirectory WITH
  Lambdas  <- Entry,
  Findable <- ShortNames,
  dir      <- [i \in Ids |-> IF i < reg.counter /\ mem[i] = "live" THEN reg.slot[i] ELSE Null],
  issued   <- 0 .. reg.counter - 1

ImplementsDirectory == Directory!Spec
=============================================================================
