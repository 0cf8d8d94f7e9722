-------------------------------- MODULE Rest --------------------------------
(***************************************************************************)
(* The REST server, restserver/: an HTTP and a CoAP thread that answer web *)
(* requests with the calls of the connector.  A call itself is locked; the *)
(* handlers look at the registry before and after it without the lock,     *)
(* while the libspt thread changes it.                                     *)
(***************************************************************************)
EXTENDS ConnectorPeer

CONSTANTS
  HttpThread, CoapThread,   \* the two callers
  Asks,                     \* the web requests that may come in
  EmptyName                 \* the empty name

(***************************************************************************)
(* A web request to one of the threads.  `form` is how its id or name is   *)
(* written: "good", "missing", "bare" (an option without a value) or, for  *)
(* an id, "garbage" (not a number) or "huge" (a number that is no int).    *)
(* Only a good one has a key, any int or any name.  `type` is a lambda     *)
(* type, UnknownType, "missing" or "bare".  The path of a HTTP request has *)
(* both, and Pistache refuses one whose id is no int.                      *)
(***************************************************************************)
CallOps == {"id", "name"}
ListOps == {"list", "cache"}
Forms   == {"good", "missing", "bare", "garbage", "huge"}

\* The handlers may ask the connector for anything.
ASSUME RestAssumption ==
  /\ HttpThread # CoapThread /\ Callers = {HttpThread, CoapThread}
  /\ Requests = Request
  /\ EmptyName \in BadNames
  /\ \A q \in Asks : /\ q.to \in Callers
                     /\ q.op \in CallOps \cup ListOps \cup {"kill"}
                     /\ q.form \in Forms
                     /\ q.type \in Types \cup {UnknownType, "missing", "bare"}
                     /\ q.op = "id" => q.key \in Int
                     /\ q.op = "name" => q.key \in Names

VARIABLES
  web,    \* per thread, the request it handles and the handler's locals
  down    \* "" as long as the process runs, or what ended it

restVars == <<web, down>>
allVars == <<vars, restVars>>

Ok == 200
BadRequest == 400
NotFound == 404

\* `found` is the lambda of the second lookup, `next` and `shown` the loop
\* variable and the entries of a listing, `answers` what has been sent.
NoRequest == [pc |-> "idle", ask |-> Null, found |-> Null, next |-> 0, shown |-> {},
              answers |-> << >>]

RestInit == Init /\ web = [c \in Callers |-> NoRequest] /\ down = ""

\* A cast to lambda_id_t; MaxLambdas is (lambda_id_t) -1, which is no lambda's.
Narrow(n) == n % (MaxLambdas + 1)

-----------------------------------------------------------------------------
(***************************************************************************)
(* Requests coming in.                                                     *)
(***************************************************************************)
\* Thread c is at pc of its handler, and the process runs.
In(c, pc) == down = "" /\ web[c].pc = pc

Answer(status) == [status |-> status, id |-> Null, type |-> Null, value |-> NoValue]

Untouched == UNCHANGED <<lreg, args, owner, rx, line, produced, down>>

\* The handler is done with what it does; `calls[c]` is its local.
Answered(c, answer) ==
  /\ web' = [web EXCEPT ![c].pc = "answered", ![c].answers = Append(@, answer)]
  /\ calls' = [calls EXCEPT ![c] = NoCall]

Refused(c) ==
  /\ web' = [web EXCEPT ![c].pc = "answered", ![c].answers = <<Answer(BadRequest)>>]
  /\ UNCHANGED <<vars, down>>

\* The connector's call for q, with the answers that are out already.  How many
\* values existed then is of no interest here.
AsRequest(q) ==
  [by |-> q.op, key |-> IF q.op = "id" THEN Narrow(q.key) ELSE q.key, type |-> q.type]

Calling(c, q, answers) ==
  /\ web' = [web EXCEPT ![c].pc = "calling", ![c].ask = q, ![c].answers = answers]
  /\ BeginWith(c, AsRequest(q), 0)
  /\ UNCHANGED down

\* A type of 0, which is none, lists every lambda.
Listing(c, q) ==
  /\ web' = [web EXCEPT ![c].pc = "list", ![c].ask = q]
  /\ UNCHANGED <<vars, down>>

\* The process and its handlers are no more.
Ends(cause) == down' = cause /\ web' = [c \in Callers |-> NoRequest] /\ UNCHANGED vars

\* handleCallById and handleCallByName over HTTP: a bad type or id is refused
\* and the handler goes on.
HttpCall(q) ==
  /\ q.to = HttpThread /\ In(HttpThread, "idle") /\ q.op \in CallOps
  /\ q.form = "good" /\ q.type \in Types \cup {UnknownType}
  /\ Calling(HttpThread, q,
       (IF q.type = UnknownType THEN <<Answer(BadRequest)>> ELSE << >>)
         \o (IF q.op = "id" /\ q.key < 0 THEN <<Answer(BadRequest)>> ELSE << >>))

HttpList(q) ==
  /\ q.to = HttpThread /\ In(HttpThread, "idle") /\ q.op \in ListOps /\ q.type # "bare"
  /\ IF q.type = UnknownType THEN Refused(HttpThread) ELSE Listing(HttpThread, q)

\* raise(SIGINT) makes Pistache leave its loop, and with it the thread ends.
HttpKill(q) ==
  /\ q.to = HttpThread /\ In(HttpThread, "idle") /\ q.op = "kill"
  /\ web' = [web EXCEPT ![HttpThread].pc = "ended", ![HttpThread].answers = <<Answer(Ok)>>]
  /\ UNCHANGED <<vars, down>>

\* std::out_of_range, of substr for an option without a value and of stoi for
\* a number that is no int; nobody catches it.
Throws(q) == q.type = "bare" \/ q.form \in {"bare", "huge"}

CoapBadCall(q) ==
  \/ q.form \in {"missing", "garbage"}
  \/ q.type \in {"missing", UnknownType}
  \/ q.op = "id" /\ Narrow(q.key) = MaxLambdas
  \/ q.op = "name" /\ q.key = EmptyName

CoapCall(q) ==
  /\ q.to = CoapThread /\ In(CoapThread, "idle") /\ q.op \in CallOps
  /\ \/ Throws(q) /\ Ends("exception")
     \/ ~Throws(q) /\ CoapBadCall(q) /\ Refused(CoapThread)
     \/ ~Throws(q) /\ ~CoapBadCall(q) /\ Calling(CoapThread, q, << >>)

CoapList(q) ==
  /\ q.to = CoapThread /\ In(CoapThread, "idle") /\ q.op \in ListOps
  /\ \/ q.type = "bare" /\ Ends("exception")
     \/ q.type = UnknownType /\ Refused(CoapThread)
     \/ q.type \in Types \cup {"missing"} /\ Listing(CoapThread, q)

\* The answer says that the server has been killed; nothing is.
CoapKill(q) ==
  /\ q.to = CoapThread /\ In(CoapThread, "idle") /\ q.op = "kill"
  /\ web' = [web EXCEPT ![CoapThread].pc = "answered",
                        ![CoapThread].answers = <<Answer(Ok)>>]
  /\ UNCHANGED <<vars, down>>

Arrives(q) ==
  HttpCall(q) \/ HttpList(q) \/ HttpKill(q) \/ CoapCall(q) \/ CoapList(q) \/ CoapKill(q)

\* Mutant: the locals of the last request are used again.
DoneKeeps(c) ==
  /\ In(c, "answered")
  /\ web' = [web EXCEPT ![c].pc = "idle"]
  /\ UNCHANGED <<vars, down>>

\* The handler returns to its server's loop.
Done(c) ==
  /\ In(c, "answered")
  /\ web' = [web EXCEPT ![c] = NoRequest]
  /\ UNCHANGED <<vars, down>>

-----------------------------------------------------------------------------
(***************************************************************************)
(* After the call: RiotsensorsRESTHandler and what it assembles.           *)
(***************************************************************************)
\* Mutant: the second lookup takes the id before the cast.
LookAgainUncut(c) ==
  LET q == web[c].ask
      lambda == IF q.op = "name" THEN ByName(lreg, q.key)
                ELSE IF q.key \in Ids THEN ById(lreg, q.key) ELSE Null IN
  /\ In(c, "calling") /\ At(c, "idle")
  /\ web' = [web EXCEPT ![c].pc = "assemble",
                        ![c].found = IF lambda = Null THEN Null ELSE lambda.id]
  /\ UNCHANGED <<vars, down>>

\* The lookup by the id or name of the request, without the lock.
LookAgain(c) ==
  /\ In(c, "calling") /\ At(c, "idle")
  /\ \E id \in Found(AsRequest(web[c].ask)) :
       web' = [web EXCEPT ![c].pc = "assemble", ![c].found = id]
  /\ UNCHANGED <<vars, down>>

\* The value can be printed as one of type t: a string must be one, and its
\* memory not have been given back since the call returned.
Printable(c, t) ==
  t = "STRING" => /\ web[c].ask.type = "STRING"
                  /\ calls[c].value >= 1
                  /\ args[calls[c].arg].ret = calls[c].value

\* The value is not one of the lambda that was called, whatever its type.
Foreign(c) == calls[c].arg # calls[c].id

\* Id and type are read from the entry.  If it has been given back, they may be
\* those of a lambda registered since in its block, or bytes of no lambda, or
\* reading them ends the process.
Success(c) ==
  LET found == web[c].found IN
  \/ found = Null /\ Ends("nolambda")
  \/ found # Null /\ Gone(found) /\ Ends("freed")
  \/ found # Null /\ Gone(found) /\ Answered(c, Answer(Ok)) /\ Untouched
  \/ /\ found # Null
     /\ \E id \in LambdasRead(found), type \in TypesRead(found) :
          \/ (~Printable(c, type) \/ (type = "STRING" /\ Foreign(c))) /\ Ends("badstring")
          \/ /\ Printable(c, type)
             /\ Answered(c, [status |-> Ok, id |-> id, type |-> type, value |-> calls[c].value])
             /\ Untouched

Failure(c) ==
  \/ web[c].found # Null /\ Gone(web[c].found) /\ Ends("freed")
  \/ Answered(c, Answer(NotFound)) /\ Untouched

Assemble(c) ==
  /\ In(c, "assemble")
  /\ IF calls[c].code \in {CallSuccess, CallCache, CallCacheTimeout} THEN Success(c)
     ELSE Failure(c)

-----------------------------------------------------------------------------
(***************************************************************************)
(* assemble_list_rest, assemble_cache_rest and their variants for a type.  *)
(***************************************************************************)
Wanted(c, type) == web[c].ask.type \in {"missing", type}

\* Mutant: a hole ends the loop.
ListLookToHole(c) ==
  LET i == web[c].next IN
  /\ In(c, "list")
  /\ \/ /\ ById(lreg, i) = Null
        /\ Answered(c, Answer(Ok))
     \/ /\ ById(lreg, i) # Null
        /\ \E type \in TypesRead(i) :
             web' = [web EXCEPT ![c].next = IF Wanted(c, type) THEN @ ELSE @ + 1,
                                ![c].pc = IF Wanted(c, type) THEN "print" ELSE @]
        /\ UNCHANGED calls
  /\ Untouched

\* The test of the loop, the lookup and the type of what it found.
ListLook(c) ==
  LET i == web[c].next IN
  /\ In(c, "list")
  /\ \/ /\ i >= lreg.counter
        /\ Answered(c, Answer(Ok))
     \/ /\ i < lreg.counter
        /\ lreg.slot[i] # Null => \E type \in TypesRead(i) : ~Wanted(c, type)
        /\ web' = [web EXCEPT ![c].next = i + 1] /\ UNCHANGED calls
     \/ /\ i < lreg.counter
        /\ lreg.slot[i] # Null /\ \E type \in TypesRead(i) : Wanted(c, type)
        /\ web' = [web EXCEPT ![c].pc = "print"] /\ UNCHANGED calls
  /\ Untouched

\* The value in args object a that a showcache answer shows, if any.
Cached(c, a) ==
  IF web[c].ask.op = "cache" /\ args[a].cached THEN {args[a].ret} ELSE {}

ListPrint(c) ==
  LET i == web[c].next IN
  /\ In(c, "print")
  /\ \/ Gone(i) /\ Ends("freed")
     \/ /\ \E a \in LambdasRead(i) :
             web' = [web EXCEPT ![c].pc = "list", ![c].next = i + 1,
                                ![c].shown = @ \cup {<<i, Cached(c, a)>>}]
        /\ UNCHANGED <<vars, down>>

\* A call of the connector that follows a pointer to nowhere ends the process.
CallStrays(c) == down = "" /\ Strays(c) /\ Ends("wild")

-----------------------------------------------------------------------------
HandlerStep(c) == Done(c) \/ LookAgain(c) \/ Assemble(c) \/ ListLook(c) \/ ListPrint(c)

ConnectorCall(c) == CallStep(c) \/ Timeout(c) \/ SpuriousWakeup(c)

\* Nothing more is of interest once the process has ended.
Elsewhere == down = "" /\ UNCHANGED restVars

RestNext ==
  \/ \E q \in Asks : Arrives(q)
  \/ \E c \in Callers : HandlerStep(c) \/ CallStrays(c)
  \/ \E c \in Callers : ConnectorCall(c) /\ Elsewhere
  \/ (RxStep \/ PeerNext) /\ Elsewhere

RestSpec == RestInit /\ [][RestNext]_allVars

\* A thread of the server that can go on again and again does: the scheduler
\* runs it, and it gets the mutex when others keep giving it up.
ThreadStep(c) == HandlerStep(c) \/ ((GetsMutex(c) \/ RunsOn(c)) /\ Elsewhere)

RestFairness == \A c \in Callers : SF_allVars(ThreadStep(c))

FairRestSpec == RestSpec /\ RestFairness

-----------------------------------------------------------------------------
\* RestTypeOK: the handlers' locals keep their types, and a request gets at
\* most the three answers of a HTTP call with a bad type and a bad id.
RestTypeOK ==
  /\ \A c \in Callers :
       /\ web[c].pc \in {"idle", "calling", "assemble", "list", "print", "answered", "ended"}
       /\ web[c].found \in Ids \cup {Null}
       /\ web[c].next \in 0 .. MaxLambdas
       /\ web[c].shown \subseteq Ids \X SUBSET Values
       /\ Len(web[c].answers) <= 3
  /\ down \in {"", "exception", "nolambda", "freed", "wild", "badstring"}

(***************************************************************************)
(* AnswersDescribeTheCalled: a call by id that is answered with 200 is     *)
(* answered with the lambda that was called, its id and its type, as long  *)
(* as that lambda is registered, so that the value is printed as what it   *)
(* is.  handleCallById looks the lambda up anew after the call, without    *)
(* the lock, and takes id and type from there; it relies on an id never    *)
(* being given to a second lambda.  Once it has been unregistered the      *)
(* answer may describe another one, whose entry has taken its block.       *)
(***************************************************************************)
AnswersDescribeTheCalled ==
  \A c \in Callers : \A k \in DOMAIN web[c].answers :
    LET a == web[c].answers[k] q == web[c].ask IN
      (/\ a.status = Ok
       /\ q # Null /\ q.op = "id" /\ Narrow(q.key) \in Ids /\ ~Gone(Narrow(q.key)))
        => a.id = Narrow(q.key) /\ a.type = q.type

(***************************************************************************)
(* ListingsComplete: a listing that ends shows every lambda of its type    *)
(* that is registered as it ends, although lambdas come and go while it is *)
(* put together: none is skipped because of a hole or a late registration. *)
(***************************************************************************)
ListingsComplete ==
  [][\A c \in Callers :
       (web[c].pc = "list" /\ web'[c].pc = "answered") =>
          {i \in Ids : ~Gone(i) /\ Wanted(c, lreg.slot[i].type)}
            \subseteq {s[1] : s \in web[c].shown}]_allVars

(***************************************************************************)
(* ShownValuesAreMade: the cached values that a listing shows have been    *)
(* made by the board: the flag is read, then the value, both without the   *)
(* lock, while the libspt thread stores first the value and then the flag. *)
(* For lambdas that are not strings, whose bytes can be given back.        *)
(***************************************************************************)
ShownValuesAreMade ==
  \A c \in Callers : \A s \in web[c].shown :
    (~Gone(s[1]) /\ lreg.slot[s[1]].type # "STRING") => s[2] \subseteq 1 .. produced

(***************************************************************************)
(* UnknownTypesStayOffTheLine: a request with an unknown type, which HTTP  *)
(* refuses and then carries on with, never becomes a call of the board, as *)
(* long as the lambda that it finds is registered.                         *)
(***************************************************************************)
UnknownTypesStayOffTheLine ==
  \A c \in Callers :
    (web[c].pc = "calling" /\ web[c].ask.type = UnknownType) =>
       calls[c].pc \in {"idle", "lock", "lookup", "type"} \/ Gone(calls[c].id)

(***************************************************************************)
(* DiesOfMissingLambda: the process follows a NULL pointer or one to freed *)
(* memory, in a call, after it or in a listing, only if a lambda has been  *)
(* unregistered: no order of calls, results and registrations alone makes  *)
(* a lambda that was found vanish.                                         *)
(***************************************************************************)
DiesOfMissingLambda ==
  down \in {"nolambda", "freed", "wild"} => \E i \in Ids : i < lreg.counter /\ Gone(i)

(***************************************************************************)
(* RequestsAnswered: every request is answered, or the process has ended,  *)
(* whatever the board does and whatever the line loses: a thread of the    *)
(* server never stays in a handler.                                        *)
(***************************************************************************)
RequestsAnswered ==
  \A c \in Callers :
    web[c].pc \notin {"idle", "answered", "ended"} ~> (web[c].pc = "answered" \/ down # "")
=============================================================================
