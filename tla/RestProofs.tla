------------------------------ MODULE RestProofs ------------------------------
(***************************************************************************)
(* The REST server on top of the connector, for any requests, lambdas and  *)
(* peer.  The invariant says of each server thread what its handler knows  *)
(* between its unlocked looks at the registry: an id that it has found may *)
(* lose its lambda, but no other lambda ever comes under it.               *)
(***************************************************************************)
EXTENDS Rest, ConnectorProofs

Answers == [status : {Ok, BadRequest, NotFound}, id : Ids \cup {Null},
            type : AllTypes \cup {UnknownType, Null}, value : Values]

Webs ==
  [pc : {"idle", "calling", "assemble", "list", "print", "answered", "ended"},
   ask : Asks \cup {Null}, found : Ids \cup {Null}, next : Nat,
   shown : SUBSET (Ids \X SUBSET Values), answers : Seq(Answers)]

\* A handler and its call: what the call found is what was asked for, and what
\* the second lookup did not find is gone.
Serves(w, k, r, x) ==
  /\ w.pc # "calling" => k.pc = "idle"
  /\ w.pc \in {"calling", "assemble"} =>
       w.ask \in Asks /\ w.ask.op \in CallOps /\ AsRequest(w.ask) \in Request
  /\ (w.pc = "calling" /\ k.pc # "idle") => k.req = AsRequest(w.ask)
  /\ (w.pc \in {"calling", "assemble"} /\ k.pc = "idle" /\ k.id # Null) =>
       /\ Suits(r, x, k.id, AsRequest(w.ask))
       /\ k.code # CallWrongType => OfType(r, x, k.id, w.ask.type)
  /\ (w.pc = "assemble" /\ w.found # Null)
        => w.found < r.counter /\ (w.ask.op = "id" => w.found = Narrow(w.ask.key))
  /\ (w.pc = "assemble" /\ w.found = Null /\ k.id # Null) => ~Firm(r, x, k.id)

\* A successful answer to a call by id is about the lambda asked for, as long as
\* that is there.
Right(r, x, a, q) ==
  (a.status = Ok /\ q # Null /\ q.op = "id") =>
     LET id == Narrow(q.key) IN
       /\ id \in Ids /\ id < r.counter
       /\ Firm(r, x, id) => a.id = id /\ a.type = q.type

\* The answers so far.
Given(w, r, x) ==
  /\ w.pc = "idle" => w = NoRequest
  /\ w.pc \in {"idle", "list", "print"} => Len(w.answers) = 0
  /\ w.pc # "answered" => Len(w.answers) \in 0 .. 2
  /\ Len(w.answers) \in 0 .. 3
  /\ \A n \in DOMAIN w.answers : Right(r, x, w.answers[n], w.ask)

\* The entries of a listing so far.
Listed(w, r, x, n) ==
  /\ w.next <= r.counter
  /\ w.pc = "print" => w.next < r.counter
  /\ w.pc \in {"list", "print"} => w.ask.op # "id"
  /\ w.pc \in {"list", "print"} =>
       \A i \in Ids : (i < w.next /\ Firm(r, x, i) /\ w.ask.type \in {"missing", r.slot[i].type})
                         => \E s \in w.shown : s[1] = i
  /\ \A s \in w.shown :
       /\ s[1] < r.counter
       /\ s[2] \subseteq 1 .. n \/ (Firm(r, x, s[1]) => r.slot[s[1]].type = "STRING")

HandlersInv ==
  /\ web \in [Callers -> Webs]
  /\ \A c \in Callers : /\ down = "" => Serves(web[c], calls[c], lreg, rx)
                        /\ Given(web[c], lreg, rx)
                        /\ Listed(web[c], lreg, rx, produced)

Missing == {"nolambda", "freed", "wild"}

DownInv ==
  /\ down \in {"", "exception", "badstring"} \cup Missing
  /\ down # "" => \A c \in Callers : web[c].pc = "idle"
  /\ DiesOfMissingLambda

Below == ConnectorInv /\ CallsBound /\ CachedInv /\ MadeInv

RestInv == Below /\ HandlersInv /\ DownInv

-----------------------------------------------------------------------------
(***************************************************************************)
(* What the server does to the connector below it.                         *)
(***************************************************************************)
\* The handler of c drops what its call has returned.
Forget(c) ==
  /\ calls[c].pc = "idle"
  /\ calls' = [calls EXCEPT ![c] = NoCall]
  /\ UNCHANGED <<lreg, args, owner, rx, line, produced>>

Beneath ==
  \/ UNCHANGED vars
  \/ \E c \in Callers : Begins(c) \/ ConnectorCall(c) \/ Forget(c)
  \/ RxStep
  \/ PeerNext

LEMMA ForgetInv ==
  ASSUME Below, NEW c \in Callers, Forget(c)
  PROVE  Below' /\ Advances
<1>1. /\ CallsInv /\ calls \in [Callers -> Calls] /\ lreg.counter \in Int /\ produced \in Nat
      /\ UNCHANGED <<lreg, args, owner, rx, toLinux, toBoard, produced>>
  BY RegistryAssumption DEF Below, ConnectorInv, CallsInv, SharedInv, LineInv, Registries, Forget, line
<1>2. /\ NoCall \in Calls /\ NoCall.pc = "idle" /\ NoCall.id = Null /\ NoCall.arg = Null
      /\ NoCall.code = CallNotFound
  BY CodesTyped DEF NoCall, Calls, CallPcs
<1>3. \A d \in Callers : calls'[d] = IF d = c THEN NoCall ELSE calls[d]
  BY <1>1 DEF Forget
<1>4. ConnectorInv'
  <2>1. Held(lreg, NoCall) /\ Checked(lreg, rx, NoCall)
    BY <1>2 DEF Held, Checked, Committed, Waited
  <2>2. NoCall.pc \notin Critical /\ calls[c].pc \notin Critical
    BY <1>2 DEF Critical, Forget
  <2>3. CallsInv'
    BY <1>1, <1>2, <2>1, <2>2, OneCaller DEF Forget
  <2> QED BY <1>1, <2>3 DEF Below, ConnectorInv, SharedInv, LineInv
<1>5. CallsBound'
  <2>1. \A d \in Callers : Bound(lreg, rx, calls'[d])
    BY <1>2, <1>3 DEF Below, CallsBound, Bound, Committed
  <2> QED BY <1>1, <2>1 DEF CallsBound, Bound, Suits, OfType, Firm
<1>6. Advances
  BY <1>1, StaysGrows DEF Advances
<1>7. CachedInv' /\ MadeInv'
  BY <1>1 DEF Below, CachedInv, MadeInv, ResultsFit, RxResult, FitsHere, MadeAt, TypedAs, InFlight
<1> QED BY <1>4, <1>5, <1>6, <1>7 DEF Below

LEMMA ConnectorCalls ==
  ASSUME NEW c \in Callers, ConnectorCall(c)
  PROVE  CallerStep(c)
  BY DEF ConnectorCall, CallerStep

LEMMA BeneathInv ==
  ASSUME Below, Beneath
  PROVE  Below' /\ Advances
<1> USE DEF Below
<1>1. CASE UNCHANGED vars
  <2>1. UNCHANGED connectorVars /\ produced' = produced /\ produced \in Nat
    BY <1>1 DEF vars, ConnectorInv, LineInv
  <2> QED BY <1>1, <2>1, NextInv, NextBound, NextCached, StutterMade, OthersAdvance
<1>2. ASSUME NEW c \in Callers, Begins(c) \/ ConnectorCall(c)
      PROVE  Below' /\ Advances
  <2>1. CallerStep(c)
    BY <1>2, ConnectorCalls DEF CallerStep
  <2> QED BY <2>1, CallerInv, CallerBound, CallerCached, CallerMade, CallerAdvances
<1>3. CASE RxStep
  BY <1>3, RxInv, RxBound, RxCachedInv, RxMade, RxAdvances
<1>4. CASE PeerNext
  <2>1. UNCHANGED connectorVars /\ produced' \in Nat /\ produced <= produced'
    BY <1>4, PeerSends DEF ConnectorInv, LineInv
  <2> QED BY <1>4, <2>1, PeerInv, OthersBound, OthersCached, PeerMade, OthersAdvance
<1> QED BY <1>1, <1>2, <1>3, <1>4, ForgetInv DEF Beneath

LEMMA CallingBegins ==
  ASSUME NEW c \in Callers, NEW q \in Asks, NEW answers, Calling(c, q, answers),
         q.op \in CallOps, q.type \in Types \cup {UnknownType}
  PROVE  Begins(c) /\ BeginWith(c, AsRequest(q), 0) /\ AsRequest(q) \in Request
<1>1. q.op = "id" => Narrow(q.key) \in 0 .. MaxLambdas
  <2>1. q.op = "id" => q.key \in Int
    BY RestAssumption
  <2> QED BY <2>1, RegistryAssumption DEF Narrow
<1>2. q.op = "name" => q.key \in Names
  BY RestAssumption
<1>3. AsRequest(q) \in Requests
  BY <1>1, <1>2, RestAssumption DEF AsRequest, Request, CallOps
<1>4. BeginWith(c, AsRequest(q), 0)
  BY DEF Calling
<1> QED BY <1>3, <1>4, RestAssumption DEF Begins

LEMMA StepsBeneath ==
  ASSUME HandlersInv, RestNext
  PROVE  Beneath /\ down = ""
<1>1. ASSUME NEW q \in Asks, Arrives(q)
      PROVE  Beneath /\ down = ""
  <2>1. HttpThread \in Callers /\ CoapThread \in Callers
    BY RestAssumption
  <2>2. CASE HttpCall(q)
    <3>1. \E answers : Calling(HttpThread, q, answers)
      BY <2>2 DEF HttpCall
    <3> QED BY <2>1, <2>2, <3>1, CallingBegins DEF HttpCall, Beneath, In
  <2>3. CASE CoapCall(q)
    <3>1. q.type \in Types \cup {UnknownType, "missing", "bare"}
      BY RestAssumption
    <3>2. CASE Calling(CoapThread, q, << >>) /\ ~Throws(q) /\ ~CoapBadCall(q)
      BY <2>1, <2>3, <3>1, <3>2, CallingBegins DEF CoapCall, Throws, CoapBadCall, Beneath, In
    <3> QED BY <2>3, <3>2 DEF CoapCall, Refused, Ends, Beneath, In
  <2>4. CASE HttpList(q) \/ HttpKill(q) \/ CoapList(q) \/ CoapKill(q)
    BY <2>4 DEF HttpList, HttpKill, CoapList, CoapKill, Refused, Listing, Ends, Beneath, In
  <2> QED BY <1>1, <2>2, <2>3, <2>4 DEF Arrives
<1>2. ASSUME NEW c \in Callers, HandlerStep(c)
      PROVE  Beneath /\ down = ""
  <2>1. CASE Done(c) \/ LookAgain(c) \/ ListPrint(c)
    BY <2>1 DEF Done, LookAgain, ListPrint, Ends, Beneath, In
  <2>2. CASE Assemble(c) \/ ListLook(c)
    <3>1. down = "" /\ calls[c].pc = "idle"
      BY <2>2 DEF Assemble, ListLook, In, HandlersInv, Serves
    <3>2. UNCHANGED vars \/ Forget(c)
      BY <2>2, <3>1 DEF Assemble, Success, Failure, ListLook, Answered, Ends, Untouched, Forget,
                        vars, connectorVars
    <3> QED BY <3>1, <3>2 DEF Beneath
  <2> QED BY <1>2, <2>1, <2>2 DEF HandlerStep
<1>3. ASSUME NEW c \in Callers, CallStrays(c)
      PROVE  Beneath /\ down = ""
  BY <1>3 DEF CallStrays, Ends, Beneath
<1> QED BY <1>1, <1>2, <1>3 DEF RestNext, Elsewhere, Beneath

-----------------------------------------------------------------------------
(***************************************************************************)
(* What a handler knows stays true.                                        *)
(***************************************************************************)
\* An entry that is there was there before, and is the same.
LEMMA FirmBefore ==
  ASSUME Advances, NEW i \in Ids, i < lreg.counter
  PROVE  /\ i < lreg'.counter
         /\ Firm(lreg', rx', i) => Firm(lreg, rx, i) /\ lreg'.slot[i] = lreg.slot[i]
<1>1. i \in Int
  BY RegistryAssumption DEF Ids
<1> QED BY <1>1 DEF Advances, OnlyGrows, Firm

LEMMA ServesStays ==
  ASSUME Advances, NEW w \in Webs, NEW k, k.id \in Ids \cup {Null},
         k.id # Null => k.id < lreg.counter, Serves(w, k, lreg, rx)
  PROVE  Serves(w, k, lreg', rx')
<1>1. ASSUME k.id # Null
      PROVE  /\ \A q : Suits(lreg, rx, k.id, q) => Suits(lreg', rx', k.id, q)
             /\ \A t : OfType(lreg, rx, k.id, t) => OfType(lreg', rx', k.id, t)
             /\ ~Firm(lreg, rx, k.id) => ~Firm(lreg', rx', k.id)
  BY <1>1, FirmBefore DEF Suits, OfType
<1>2. w.found # Null /\ w.found < lreg.counter => w.found < lreg'.counter
  BY FirmBefore DEF Webs
<1> QED BY <1>1, <1>2 DEF Serves

LEMMA GivenStays ==
  ASSUME Advances, NEW w \in Webs, Given(w, lreg, rx)
  PROVE  Given(w, lreg', rx')
<1>1. \A a, q : Right(lreg, rx, a, q) => Right(lreg', rx', a, q)
  BY FirmBefore DEF Right
<1> QED BY <1>1 DEF Given

LEMMA ListedStays ==
  ASSUME Advances, NEW w \in Webs, Listed(w, lreg, rx, produced)
  PROVE  Listed(w, lreg', rx', produced')
<1>1. /\ lreg.counter \in Int /\ lreg'.counter \in Int /\ lreg.counter <= lreg'.counter
      /\ \A i \in Ids : i \in Int
      /\ 1 .. produced \subseteq 1 .. produced'
  BY RegistryAssumption DEF Advances, OnlyGrows, Ids
<1>2. w.next \in Nat /\ \A s \in w.shown : s[1] \in Ids
  BY DEF Webs
<1>3. ASSUME NEW s \in w.shown
      PROVE  /\ s[1] < lreg'.counter
             /\ s[2] \subseteq 1 .. produced'
                \/ (Firm(lreg', rx', s[1]) => lreg'.slot[s[1]].type = "STRING")
  BY <1>1, <1>2, FirmBefore DEF Listed
<1>4. ASSUME w.pc \in {"list", "print"}, NEW i \in Ids, i < w.next, Firm(lreg', rx', i),
             w.ask.type \in {"missing", lreg'.slot[i].type}
      PROVE  \E s \in w.shown : s[1] = i
  <2>1. i < lreg.counter
    BY <1>1, <1>2, <1>4 DEF Listed
  <2> QED BY <1>4, <2>1, FirmBefore DEF Listed
<1>5. w.next <= lreg'.counter /\ (w.pc = "print" => w.next < lreg'.counter)
  BY <1>1, <1>2 DEF Listed
<1> QED BY <1>3, <1>4, <1>5 DEF Listed

LEMMA CallIds ==
  ASSUME ConnectorInv, NEW c \in Callers
  PROVE  /\ calls[c].id \in Ids \cup {Null}
         /\ calls[c].id # Null => calls[c].id < lreg.counter
  BY CallerTyped DEF ConnectorInv

\* The handlers' invariant, of the next state.
LEMMA HandlersNext ==
  ASSUME web' \in [Callers -> Webs],
         \A c \in Callers : /\ down' = "" => Serves(web'[c], calls'[c], lreg', rx')
                            /\ Given(web'[c], lreg', rx')
                            /\ Listed(web'[c], lreg', rx', produced')
  PROVE  HandlersInv'
<1>1. \A c \in Callers : (down = "" => Serves(web[c], calls[c], lreg, rx))'
  BY DEF Serves, Suits, OfType, Firm
<1>2. \A c \in Callers : Given(web[c], lreg, rx)'
  BY DEF Given, Right, Firm
<1>3. \A c \in Callers : Listed(web[c], lreg, rx, produced)'
  BY DEF Listed, Firm
<1> QED BY <1>1, <1>2, <1>3 DEF HandlersInv

\* A handler moves to w, and the others stay where they are.
LEMMA OneHandler ==
  ASSUME ConnectorInv, HandlersInv, Advances, down = "",
         NEW c \in Callers, NEW w \in Webs, web' = [web EXCEPT ![c] = w],
         \A d \in Callers : d # c => calls'[d] = calls[d],
         Serves(w, calls'[c], lreg', rx'), Given(w, lreg', rx'), Listed(w, lreg', rx', produced')
  PROVE  HandlersInv'
<1>1. web' \in [Callers -> Webs] /\ \A d \in Callers : web'[d] = IF d = c THEN w ELSE web[d]
  BY DEF HandlersInv
<1>2. ASSUME NEW d \in Callers
      PROVE  /\ Serves(web'[d], calls'[d], lreg', rx') /\ Given(web'[d], lreg', rx')
             /\ Listed(web'[d], lreg', rx', produced')
  <2>1. CASE d = c
    BY <1>1, <2>1
  <2>2. CASE d # c
    <3>1. /\ web[d] \in Webs /\ Serves(web[d], calls[d], lreg, rx) /\ Given(web[d], lreg, rx)
          /\ Listed(web[d], lreg, rx, produced)
      BY DEF HandlersInv
    <3> QED BY <1>1, <2>2, <3>1, CallIds, ServesStays, GivenStays, ListedStays
  <2> QED BY <2>1, <2>2
<1> QED BY <1>1, <1>2, HandlersNext

LEMMA NoRequestFits ==
  /\ NoRequest \in Webs
  /\ \A k, r, x : Given(NoRequest, r, x) /\ (k.pc = "idle" => Serves(NoRequest, k, r, x))
  /\ \A r \in Registries : \A x, n : Listed(NoRequest, r, x, n)
<1>1. << >> \in Seq(Answers) /\ Len(<< >>) = 0 /\ DOMAIN << >> = {}
  OBVIOUS
<1>2. /\ NoRequest.pc = "idle" /\ NoRequest.answers = << >> /\ NoRequest.next = 0
      /\ NoRequest.shown = {} /\ NoRequest \in Webs
  BY <1>1 DEF NoRequest, Webs
<1>3. \A r, x : Given(NoRequest, r, x)
  BY <1>1, <1>2 DEF Given
<1>4. \A r \in Registries : \A x, n : Listed(NoRequest, r, x, n)
  BY <1>2, RegistryAssumption DEF Listed, Registries
<1> QED BY <1>2, <1>3, <1>4 DEF Serves

\* A process that has ended.
LEMMA EndsInv ==
  ASSUME ConnectorInv, NEW cause, Ends(cause), cause # ""
  PROVE  HandlersInv'
<1>1. lreg' = lreg /\ lreg \in Registries /\ down' # ""
  BY DEF Ends, vars, connectorVars, ConnectorInv, SharedInv
<1>2. web' = [d \in Callers |-> NoRequest]
  BY DEF Ends
<1>3. web' \in [Callers -> Webs] /\ \A d \in Callers : web'[d] = NoRequest
  BY <1>2, NoRequestFits
<1>4. \A d \in Callers : Given(web'[d], lreg', rx') /\ Listed(web'[d], lreg', rx', produced')
  BY <1>1, <1>3, NoRequestFits
<1> QED BY <1>1, <1>3, <1>4, HandlersNext

-----------------------------------------------------------------------------
(***************************************************************************)
(* Steps of the connector beneath the handlers.                            *)
(***************************************************************************)
LEMMA CallGoesOn ==
  ASSUME ConnectorInv, CallsBound, NEW c \in Callers, ConnectorCall(c)
  PROVE  /\ calls[c].pc # "idle"
         /\ calls'[c].pc # "idle" => calls'[c].req = calls[c].req
         /\ (calls'[c].pc = "idle" /\ calls'[c].id # Null) =>
              /\ Suits(lreg, rx, calls'[c].id, calls[c].req)
              /\ calls'[c].code # CallWrongType => OfType(lreg, rx, calls'[c].id, calls[c].req.type)
<1> DEFINE m == calls[c]
           k == calls'[c]
<1>1. m.pc # "idle"
  BY DEF ConnectorCall, CallStep, Lock, Lookup, CheckType, CheckCache, Send, Wait, Relock,
         TakeResult, LookForError, ReadError, ClearError, FallBack, Timeout, SpuriousWakeup, At
<1>2. Becomes(m, k) /\ Bound(lreg, rx, m)
  BY ConnectorCalls, CallerBecomes DEF ConnectorInv, CallsBound
<1> HIDE DEF m, k
<1>3. CASE Moves(m, k) \/ FindsOne(m, k) \/ Waits(m, k) \/ Reads(m, k)
  BY <1>1, <1>3 DEF Moves, Same, FindsOne, Waits, Reads, Asking, Committed, CallPcs, m, k
<1>4. CASE Finishes(m, k)
  <2>1. m.pc \in {"lookup", "type", "clear", "cache", "take", "fallback"} /\ k.pc = "idle" /\ k.id = m.id
    BY <1>4 DEF Finishes
  <2>2. CASE m.pc = "lookup"
    BY <1>1, <1>2, <2>1, <2>2 DEF Bound, m, k
  <2>3. CASE m.pc = "type"
    <3>1. k.code = CallWrongType /\ Suits(lreg, rx, k.id, m.req)
      BY <1>2, <1>4, <2>1, <2>3 DEF Finishes, Bound, Committed, CallPcs
    <3> QED BY <1>1, <2>1, <3>1 DEF m, k
  <2>4. CASE m.pc \in {"clear", "cache", "take", "fallback"}
    <3>1. Suits(lreg, rx, k.id, m.req) /\ OfType(lreg, rx, k.id, m.req.type)
      BY <1>2, <2>1, <2>4 DEF Bound, Committed, CallPcs
    <3> QED BY <1>1, <2>1, <3>1 DEF m, k
  <2> QED BY <2>1, <2>2, <2>3, <2>4
<1> QED BY <1>1, <1>2, <1>3, <1>4 DEF Becomes, Starts

LEMMA BesidesInv ==
  ASSUME RestInv, (\E c \in Callers : ConnectorCall(c)) \/ RxStep \/ PeerNext, Elsewhere
  PROVE  HandlersInv'
<1>1. /\ Advances /\ web' = web /\ down' = down /\ down = ""
      /\ ConnectorInv /\ CallsBound /\ HandlersInv
  BY BeneathInv DEF Elsewhere, restVars, Beneath, RestInv, Below
<1>2. ASSUME NEW d \in Callers PROVE Serves(web[d], calls'[d], lreg', rx')
  <2>1. web[d] \in Webs /\ Serves(web[d], calls[d], lreg, rx)
    BY <1>1 DEF HandlersInv
  <2>2. Serves(web[d], calls[d], lreg', rx')
    BY <1>1, <2>1, CallIds, ServesStays
  <2>3. CASE calls'[d] = calls[d]
    BY <2>2, <2>3
  <2>4. CASE ConnectorCall(d)
    <3>1. web[d].pc = "calling" /\ calls[d].req = AsRequest(web[d].ask)
      BY <1>1, <2>1, <2>4, CallGoesOn DEF Serves
    <3>2. lreg' = lreg /\ rx' = rx
      BY <2>4, ConnectorCalls, CallerLeaves
    <3>3. AsRequest(web[d].ask).type = web[d].ask.type
      BY DEF AsRequest
    <3> QED BY <1>1, <2>1, <2>4, <3>1, <3>2, <3>3, CallGoesOn DEF Serves
  <2>5. CASE calls[d].pc = "waiting" /\ calls'[d].pc = "woken" /\ calls'[d].req = calls[d].req
    BY <2>1, <2>5 DEF Serves
  <2>6. calls'[d] = calls[d] \/ ConnectorCall(d)
        \/ (calls[d].pc = "waiting" /\ calls'[d].pc = "woken" /\ calls'[d].req = calls[d].req)
    <3>1. ASSUME NEW c \in Callers, ConnectorCall(c), c # d PROVE calls'[d] = calls[d]
      BY <1>1, <3>1, ConnectorCalls, CallerBecomes DEF ConnectorInv
    <3>2. PeerNext => calls'[d] = calls[d]
      BY <1>1, PeerSends DEF connectorVars
    <3> QED BY <1>1, <3>1, <3>2, RxCallers DEF Same
  <2> QED BY <2>3, <2>4, <2>5, <2>6
<1>3. ASSUME NEW d \in Callers
      PROVE  Given(web[d], lreg', rx') /\ Listed(web[d], lreg', rx', produced')
  BY <1>1, GivenStays, ListedStays DEF HandlersInv
<1>4. web \in [Callers -> Webs]
  BY <1>1 DEF HandlersInv
<1> QED BY <1>1, <1>2, <1>3, <1>4, HandlersNext

-----------------------------------------------------------------------------
(***************************************************************************)
(* The steps of the handlers.                                              *)
(***************************************************************************)
LEMMA AtHandler ==
  ASSUME RestInv, down = "", NEW c \in Callers
  PROVE  /\ web[c] \in Webs /\ Serves(web[c], calls[c], lreg, rx) /\ Given(web[c], lreg, rx)
         /\ Listed(web[c], lreg, rx, produced) /\ Bound(lreg, rx, calls[c])
         /\ web \in [Callers -> Webs] /\ calls \in [Callers -> Calls]
         /\ lreg \in Registries /\ WellFormed(lreg) /\ produced \in Nat
         /\ lreg.counter \in 0 .. MaxLambdas /\ MaxLambdas \in Nat
  BY RegistryAssumption DEF RestInv, Below, HandlersInv, ConnectorInv, SharedInv, CallsInv, LineInv,
       CallsBound, Registries

LEMMA NothingShown ==
  ASSUME NEW w \in Webs, w.next = 0, w.shown = {}, w.pc # "print",
         w.pc = "list" => w.ask.op # "id", NEW r \in Registries, NEW x, NEW n
  PROVE  Listed(w, r, x, n)
<1>1. r.counter >= 0 /\ \A i \in Ids : ~ (i < 0)
  BY RegistryAssumption DEF Registries, Ids
<1>2. \A s \in w.shown : FALSE
  OBVIOUS
<1> QED BY <1>1, <1>2 DEF Listed

\* A thread that is not in a call of the connector.
LEMMA NotCalling ==
  ASSUME NEW w, NEW k, NEW r, NEW x, k.pc = "idle", w.pc \notin {"calling", "assemble"}
  PROVE  Serves(w, k, r, x)
  BY DEF Serves

\* A step that leaves the connector alone moves one handler.
LEMMA Moved ==
  ASSUME RestInv, down = "", NEW c \in Callers, NEW w \in Webs,
         web' = [web EXCEPT ![c] = w], UNCHANGED vars,
         Serves(w, calls[c], lreg, rx), Given(w, lreg, rx), Listed(w, lreg, rx, produced)
  PROVE  HandlersInv'
<1>1. Beneath /\ calls' = calls /\ lreg' = lreg /\ rx' = rx /\ produced' = produced
  BY DEF Beneath, vars, connectorVars
<1>2. Advances
  BY <1>1, BeneathInv DEF RestInv
<1> QED BY <1>1, <1>2, OneHandler DEF RestInv, Below

\* A step that drops what the call has returned.
LEMMA MovedOn ==
  ASSUME RestInv, down = "", NEW c \in Callers, NEW w \in Webs,
         web' = [web EXCEPT ![c] = w], Forget(c), w.pc \in {"answered", "ended"},
         Given(w, lreg, rx), Listed(w, lreg, rx, produced)
  PROVE  HandlersInv'
<1>1. Beneath /\ lreg' = lreg /\ rx' = rx /\ produced' = produced
  BY DEF Beneath, Forget
<1>2. Advances
  BY <1>1, BeneathInv DEF RestInv
<1>3. calls'[c] = NoCall /\ \A d \in Callers : d # c => calls'[d] = calls[d]
  BY AtHandler DEF Forget
<1>4. Serves(w, calls'[c], lreg', rx')
  <2>1. NoCall.pc = "idle"
    BY DEF NoCall
  <2> QED BY <1>3, <2>1, NotCalling
<1> QED BY <1>1, <1>2, <1>3, <1>4, OneHandler DEF RestInv, Below

LEMMA OneLong ==
  ASSUME NEW S, NEW e \in S
  PROVE  <<e>> \in Seq(S) /\ Len(<<e>>) = 1 /\ \A n \in DOMAIN <<e>> : <<e>>[n] = e
  OBVIOUS

LEMMA PlainAnswers ==
  ASSUME NEW s \in {Ok, BadRequest, NotFound}
  PROVE  /\ Answer(s) \in Answers /\ Answer(s).status = s /\ <<Answer(s)>> \in Seq(Answers)
         /\ Len(<<Answer(s)>>) = 1 /\ \A n \in DOMAIN <<Answer(s)>> : <<Answer(s)>>[n].status = s
<1>1. Answer(s) \in Answers /\ Answer(s).status = s
  BY DEF Answer, Answers, Values, NoValue, Dangling
<1> QED BY <1>1, OneLong

\* At most one refusal for the type and one for the id.
LEMMA Refusals ==
  ASSUME NEW t \in {<< >>, <<Answer(BadRequest)>>}, NEW i \in {<< >>, <<Answer(BadRequest)>>}
  PROVE  /\ t \o i \in Seq(Answers) /\ Len(t \o i) \in 0 .. 2
         /\ \A n \in DOMAIN (t \o i) : (t \o i)[n].status = BadRequest
<1> DEFINE S == {a \in Answers : a.status = BadRequest}
           e == Answer(BadRequest)
<1>1. e \in S
  BY PlainAnswers
<1> HIDE DEF S, e
<1>2. <<e>> \in Seq(S) /\ Len(<<e>>) \in 0 .. 1 /\ << >> \in Seq(S) /\ Len(<< >>) \in 0 .. 1
  BY <1>1
<1>3. (t = << >> \/ t = <<e>>) /\ (i = << >> \/ i = <<e>>)
  BY DEF e
<1> DEFINE s == t \o i
<1>4. s \in Seq(S) /\ Len(s) \in 0 .. 2
  <2>1. t \in Seq(S) /\ Len(t) \in 0 .. 1
    BY <1>2, <1>3
  <2>2. i \in Seq(S) /\ Len(i) \in 0 .. 1
    BY <1>2, <1>3
  <2>3. s \in Seq(S)
    BY <2>1, <2>2
  <2>4. Len(s) = Len(t) + Len(i)
    BY <2>1, <2>2
  <2> HIDE DEF s
  <2> DEFINE m == Len(t)
             n == Len(i)
  <2>5. m \in 0 .. 1 /\ n \in 0 .. 1 /\ Len(s) = m + n
    BY <2>1, <2>2, <2>4
  <2> HIDE DEF m, n
  <2> QED BY <2>3, <2>5
<1> HIDE DEF s
<1>5. \A n \in DOMAIN s : s[n] \in S
  BY <1>4
<1>6. s \in Seq(Answers)
  BY <1>4 DEF S
<1>7. \A n \in DOMAIN s : s[n].status = BadRequest
  BY <1>5 DEF S
<1> QED BY <1>4, <1>6, <1>7 DEF s

\* The handler of a request that has just come in.
Fresh(pc, q, answers) == [NoRequest EXCEPT !.pc = pc, !.ask = q, !.answers = answers]

LEMMA FreshHandler ==
  ASSUME NEW pc \in {"calling", "list", "answered", "ended"}, NEW q \in Asks \cup {Null},
         NEW answers \in Seq(Answers), Len(answers) \in 0 .. 2,
         pc = "list" => Len(answers) = 0 /\ q.op # "id",
         q = Null \/ \A n \in DOMAIN answers : answers[n].status = BadRequest
  PROVE  /\ Fresh(pc, q, answers) \in Webs
         /\ \A r, x : Given(Fresh(pc, q, answers), r, x)
         /\ \A r \in Registries : \A x, n : Listed(Fresh(pc, q, answers), r, x, n)
<1> DEFINE w == Fresh(pc, q, answers)
<1>1. w \in Webs
  BY DEF Fresh, NoRequest, Webs
<1>2. /\ w.pc = pc /\ w.ask = q /\ w.found = Null /\ w.next = 0 /\ w.shown = {}
      /\ w.answers = answers
  BY DEF Fresh, NoRequest
<1> HIDE DEF w
<1>3. \A r, x : Given(w, r, x)
  <2>1. w.pc # "idle" /\ (w.pc \in {"list", "print"} => Len(w.answers) = 0)
    BY <1>2
  <2>2. Len(w.answers) \in 0 .. 2 /\ Len(w.answers) \in 0 .. 3
    BY <1>2
  <2>3. \A n \in DOMAIN w.answers : w.ask = Null \/ w.answers[n].status = BadRequest
    BY <1>2
  <2>4. BadRequest # Ok
    BY DEF BadRequest, Ok
  <2> QED BY <2>1, <2>2, <2>3, <2>4 DEF Given, Right
<1> QED BY <1>1, <1>2, <1>3, NothingShown DEF w

LEMMA CallingInv ==
  ASSUME RestInv, down = "", NEW c \in Callers, NEW q \in Asks, q.op \in CallOps,
         q.type \in Types \cup {UnknownType}, web[c].pc = "idle",
         NEW answers \in Seq(Answers), Len(answers) \in 0 .. 2, Calling(c, q, answers),
         \A n \in DOMAIN answers : answers[n].status = BadRequest
  PROVE  HandlersInv'
<1> DEFINE w == Fresh("calling", q, answers)
<1>1. web' = [web EXCEPT ![c] = w]
  <2>1. web[c] = NoRequest /\ web \in [Callers -> Webs]
    BY AtHandler DEF Given
  <2>2. web' = [web EXCEPT ![c].pc = "calling", ![c].ask = q, ![c].answers = answers]
    BY DEF Calling
  <2>3. [NoRequest EXCEPT !.pc = "calling", !.ask = q, !.answers = answers] = w
    BY DEF NoRequest, Fresh
  <2> HIDE DEF w
  <2> QED BY <2>1, <2>2, <2>3
<1>2. Begins(c) /\ BeginWith(c, AsRequest(q), 0) /\ AsRequest(q) \in Request
  BY CallingBegins
<1>3. Beneath /\ lreg' = lreg /\ rx' = rx /\ produced' = produced
  BY <1>2 DEF Beneath, BeginWith
<1>4. Advances
  BY <1>3, BeneathInv DEF RestInv
<1>5. /\ calls'[c] = [NoCall EXCEPT !.pc = "lock", !.req = AsRequest(q), !.since = 0]
      /\ \A d \in Callers : d # c => calls'[d] = calls[d]
  BY <1>2, AtHandler DEF BeginWith
<1>6. Serves(w, calls'[c], lreg', rx')
  <2>1. w.pc = "calling" /\ w.ask = q
    BY DEF Fresh, NoRequest
  <2>2. calls'[c].pc = "lock" /\ calls'[c].req = AsRequest(q)
    BY <1>5 DEF NoCall
  <2> HIDE DEF w
  <2> QED BY <1>2, <2>1, <2>2 DEF Serves
<1>7. w \in Webs /\ Given(w, lreg', rx') /\ Listed(w, lreg', rx', produced')
  BY <1>3, AtHandler, FreshHandler
<1> HIDE DEF w
<1> QED BY <1>1, <1>4, <1>5, <1>6, <1>7, OneHandler DEF RestInv, Below

\* A request that needs no call.
LEMMA AnsweredInv ==
  ASSUME RestInv, down = "", NEW c \in Callers, web[c].pc = "idle", UNCHANGED vars,
         NEW pc \in {"list", "answered", "ended"}, NEW q \in Asks \cup {Null},
         NEW answers \in Seq(Answers), Len(answers) \in 0 .. 2,
         pc = "list" => Len(answers) = 0 /\ q.op # "id",
         q = Null \/ \A n \in DOMAIN answers : answers[n].status = BadRequest,
         web' = [web EXCEPT ![c] = Fresh(pc, q, answers)]
  PROVE  HandlersInv'
<1> DEFINE w == Fresh(pc, q, answers)
<1>1. w \in Webs /\ Given(w, lreg, rx) /\ Listed(w, lreg, rx, produced)
  BY AtHandler, FreshHandler
<1>2. Serves(w, calls[c], lreg, rx)
  <2>1. w.pc = pc
    BY DEF Fresh, NoRequest
  <2> HIDE DEF w
  <2> QED BY <2>1, AtHandler, NotCalling DEF Serves
<1> HIDE DEF w
<1> QED BY <1>1, <1>2, Moved DEF w

LEMMA ArrivesInv ==
  ASSUME RestInv, NEW q \in Asks, Arrives(q)
  PROVE  HandlersInv'
<1>1. q.to \in Callers /\ q.type \in Types \cup {UnknownType, "missing", "bare"} /\ down = ""
  BY RestAssumption DEF Arrives, HttpCall, HttpList, HttpKill, CoapCall, CoapList, CoapKill, In
<1>2. ASSUME NEW c \in Callers, web[c].pc = "idle"
      PROVE  web[c] = NoRequest /\ web \in [Callers -> Webs]
  BY <1>1, <1>2, AtHandler DEF Given
<1>3. /\ << >> \in Seq(Answers) /\ Len(<< >>) = 0 /\ Len(<< >>) \in 0 .. 2
      /\ DOMAIN << >> = {}
  OBVIOUS
<1>4. ASSUME NEW c \in Callers, web[c].pc = "idle", NEW pc \in {"answered", "ended"},
             NEW status \in {Ok, BadRequest}, UNCHANGED vars,
             web' = [web EXCEPT ![c].pc = pc, ![c].answers = <<Answer(status)>>]
      PROVE  HandlersInv'
  <2>1. web' = [web EXCEPT ![c] = Fresh(pc, Null, <<Answer(status)>>)]
    BY <1>2, <1>4 DEF NoRequest, Fresh
  <2> DEFINE answers == <<Answer(status)>>
  <2>2. answers \in Seq(Answers) /\ Len(answers) \in 0 .. 2
    BY PlainAnswers
  <2>3. web[c].pc = "idle" /\ UNCHANGED vars
    BY <1>4
  <2> HIDE DEF answers
  <2>4. web' = [web EXCEPT ![c] = Fresh(pc, Null, answers)]
    BY <2>1 DEF answers
  <2> QED BY <1>1, <2>2, <2>3, <2>4, AnsweredInv
<1>5. ASSUME NEW c \in Callers, web[c].pc = "idle", Refused(c) PROVE HandlersInv'
  BY <1>4, <1>5 DEF Refused
<1>6. ASSUME NEW c \in Callers, web[c].pc = "idle", Listing(c, q), q.op # "id" PROVE HandlersInv'
  <2>1. web' = [web EXCEPT ![c] = Fresh("list", q, << >>)] /\ UNCHANGED vars
    <3>1. web' = [web EXCEPT ![c].pc = "list", ![c].ask = q] /\ UNCHANGED vars
      BY <1>6 DEF Listing
    <3> DEFINE w == Fresh("list", q, << >>)
    <3>2. [NoRequest EXCEPT !.pc = "list", !.ask = q] = w
      <4>1. NoRequest.answers = << >> /\ NoRequest \in Webs
        BY NoRequestFits DEF NoRequest
      <4> QED BY <4>1 DEF Fresh, Webs
    <3> HIDE DEF w
    <3>3. web' = [web EXCEPT ![c] = w]
      BY <1>2, <1>6, <3>1, <3>2
    <3> QED BY <3>1, <3>3 DEF w
  <2> QED BY <1>1, <1>3, <1>6, <2>1, AnsweredInv
<1>7. CASE HttpCall(q)
  <2> DEFINE t == IF q.type = UnknownType THEN <<Answer(BadRequest)>> ELSE << >>
             i == IF q.op = "id" /\ q.key < 0 THEN <<Answer(BadRequest)>> ELSE << >>
  <2>1. t \in {<< >>, <<Answer(BadRequest)>>} /\ i \in {<< >>, <<Answer(BadRequest)>>}
    OBVIOUS
  <2>2. /\ Calling(HttpThread, q, t \o i) /\ web[HttpThread].pc = "idle" /\ q.op \in CallOps
        /\ q.type \in Types \cup {UnknownType} /\ HttpThread \in Callers
    BY <1>1, <1>7 DEF HttpCall, In
  <2> HIDE DEF t, i
  <2> QED BY <1>1, <2>1, <2>2, Refusals, CallingInv
<1>8. CASE CoapCall(q)
  <2>1. CoapThread \in Callers /\ web[CoapThread].pc = "idle" /\ q.op \in CallOps
    BY <1>1, <1>8 DEF CoapCall, In
  <2>2. CASE Calling(CoapThread, q, << >>) /\ ~Throws(q) /\ ~CoapBadCall(q)
    <3>1. q.type \in Types \cup {UnknownType}
      BY <1>1, <2>2 DEF Throws, CoapBadCall
    <3>2. << >> \in Seq(Answers) /\ Len(<< >>) \in 0 .. 2 /\ DOMAIN << >> = {}
      OBVIOUS
    <3> QED BY <1>1, <2>1, <2>2, <3>1, <3>2, CallingInv
  <2> QED BY <1>5, <1>8, <2>1, <2>2, EndsInv DEF CoapCall, RestInv, Below
<1>9. CASE HttpList(q) \/ CoapList(q)
  <2>1. q.op \in ListOps => q.op # "id"
    BY DEF ListOps
  <2> QED BY <1>1, <1>5, <1>6, <1>9, <2>1, EndsInv DEF HttpList, CoapList, In, RestInv, Below
<1>10. CASE HttpKill(q)
  BY <1>1, <1>4, <1>10 DEF HttpKill, In
<1>11. CASE CoapKill(q)
  BY <1>1, <1>4, <1>11 DEF CoapKill, In
<1> QED BY <1>7, <1>8, <1>9, <1>10, <1>11 DEF Arrives

LEMMA DoneInv ==
  ASSUME RestInv, NEW c \in Callers, Done(c)
  PROVE  HandlersInv'
<1>1. down = "" /\ web[c].pc = "answered" /\ web' = [web EXCEPT ![c] = NoRequest] /\ UNCHANGED vars
  BY DEF Done, In
<1>2. calls[c].pc = "idle" /\ lreg \in Registries
  BY <1>1, AtHandler DEF Serves
<1> QED BY <1>1, <1>2, NoRequestFits, Moved

\* The second lookup finds a lambda under the id or name asked for, and misses
\* the one that was called only if that is gone.
LEMMA SecondLookup ==
  ASSUME ConnectorInv, NEW q \in Request, NEW found \in Found(q)
  PROVE  /\ found \in Ids \cup {Null}
         /\ found # Null => found < lreg.counter /\ (q.by = "id" => found = q.key)
         /\ found = Null =>
              \A id \in Ids : id < lreg.counter /\ Suits(lreg, rx, id, q) => ~Firm(lreg, rx, id)
<1>1. lreg \in Registries /\ WellFormed(lreg)
  BY DEF ConnectorInv, SharedInv
<1>2. found # Null => found \in Ids /\ found < lreg.counter /\ (q.by = "id" => found = q.key)
  BY <1>1, FoundBelow
<1>3. ASSUME found = Null, NEW id \in Ids, id < lreg.counter, Suits(lreg, rx, id, q),
             Firm(lreg, rx, id)
      PROVE  FALSE
  <2>1. CASE q.by = "id"
    <3>1. id = q.key /\ Null \notin Ids
      BY <1>3, <2>1, ConnectorAssumption DEF Suits
    <3>2. ById(lreg, q.key) = Null
      BY <1>3, <2>1, <3>1 DEF Found
    <3>3. ById(lreg, id) = lreg.slot[id]
      BY <1>1, <1>3, RegistryAssumption DEF ById, Ids, Registries
    <3> QED BY <1>3, <3>1, <3>2, <3>3 DEF Firm
  <2>2. CASE q.by # "id"
    <3>1. id \in Hits(lreg, q.key) /\ ~Gone(id)
      BY <1>3, <2>2, FirmNotGone DEF Suits, Firm, Hits
    <3>2. Null \notin Ids
      BY ConnectorAssumption
    <3> QED BY <1>3, <2>2, <3>1, <3>2 DEF Found, Hits
  <2> QED BY <2>1, <2>2
<1> QED BY <1>2, <1>3

LEMMA LookAgainInv ==
  ASSUME RestInv, NEW c \in Callers, LookAgain(c)
  PROVE  HandlersInv'
<1> DEFINE q == web[c].ask
           k == calls[c]
<1>1. PICK found \in Found(AsRequest(q)) :
        /\ down = "" /\ web[c].pc = "calling" /\ k.pc = "idle" /\ UNCHANGED vars
        /\ web' = [web EXCEPT ![c].pc = "assemble", ![c].found = found]
  BY DEF LookAgain, In, At
<1> DEFINE w == [web[c] EXCEPT !.pc = "assemble", !.found = found]
<1>2. /\ web[c] \in Webs /\ q \in Asks /\ q.op \in CallOps
      /\ k.id # Null => /\ Suits(lreg, rx, k.id, AsRequest(q))
                        /\ k.code # CallWrongType => OfType(lreg, rx, k.id, q.type)
      /\ k.id \in Ids \cup {Null} /\ (k.id # Null => k.id < lreg.counter)
      /\ web \in [Callers -> Webs] /\ ConnectorInv
  BY <1>1, AtHandler, CallIds DEF Serves, RestInv, Below
<1>3. web' = [web EXCEPT ![c] = w]
  BY <1>1, <1>2
<1>4. AsRequest(q) \in Request
  BY <1>1, AtHandler DEF Serves
<1>5. /\ found \in Ids \cup {Null}
      /\ found # Null => found < lreg.counter /\ (q.op = "id" => found = Narrow(q.key))
      /\ (found = Null /\ k.id # Null) => ~Firm(lreg, rx, k.id)
  <2>1. AsRequest(q).by = q.op /\ (q.op = "id" => AsRequest(q).key = Narrow(q.key))
    BY DEF AsRequest
  <2> HIDE DEF q, k
  <2> QED BY <1>1, <1>2, <1>4, <2>1, SecondLookup
<1>6. w \in Webs /\ w.pc = "assemble" /\ w.found = found /\ w.ask = q /\ w.answers = web[c].answers
      /\ w.next = web[c].next /\ w.shown = web[c].shown
  BY <1>2, <1>5 DEF Webs
<1> HIDE DEF w
<1>7. Serves(w, k, lreg, rx)
  <2> HIDE DEF k, q
  <2> QED BY <1>1, <1>2, <1>4, <1>5, <1>6 DEF Serves
<1>8. Given(w, lreg, rx)
  BY <1>1, <1>6, AtHandler DEF Given
<1>9. Listed(w, lreg, rx, produced)
  BY <1>1, <1>2, <1>6, AtHandler DEF Listed
<1> QED BY <1>1, <1>3, <1>6, <1>7, <1>8, <1>9, Moved

\* t is s with an a.
OneMore(t, s, a) ==
  /\ t \in Seq(Answers) /\ Len(t) \in 0 .. 3
  /\ \A n \in DOMAIN t : t[n] = a \/ \E m \in DOMAIN s : t[n] = s[m]

LEMMA Appended ==
  ASSUME NEW s \in Seq(Answers), Len(s) \in 0 .. 2, NEW a \in Answers, NEW t, t = Append(s, a)
  PROVE  OneMore(t, s, a)
<1>1. t \in Seq(Answers) /\ Len(t) = Len(s) + 1
  OBVIOUS
<1>2. Len(t) \in 0 .. 3
  BY <1>1
<1>3. \A n \in DOMAIN t : t[n] = a \/ \E m \in DOMAIN s : t[n] = s[m]
  OBVIOUS
<1> QED BY <1>1, <1>2, <1>3 DEF OneMore

\* A handler that sends an answer is done.
LEMMA AnswersInv ==
  ASSUME RestInv, down = "", NEW c \in Callers, web[c].pc \in {"assemble", "list"},
         NEW a \in Answers, Answered(c, a), Untouched, Right(lreg, rx, a, web[c].ask)
  PROVE  HandlersInv'
<1> DEFINE s == web[c].answers
           t == Append(s, a)
           w == [web[c] EXCEPT !.pc = "answered", !.answers = t]
<1>1. web[c] \in Webs /\ web \in [Callers -> Webs] /\ calls[c].pc = "idle"
  BY AtHandler DEF Serves
<1>2. s \in Seq(Answers) /\ Len(s) \in 0 .. 2
  BY <1>1, AtHandler DEF Given, Webs
<1>3. web' = [web EXCEPT ![c] = w]
  BY <1>1 DEF Answered
<1>4. OneMore(t, s, a)
  <2>1. t = Append(s, a)
    OBVIOUS
  <2> HIDE DEF s, t
  <2> QED BY <1>2, <2>1, Appended
<1> HIDE DEF t
<1>5. /\ w \in Webs /\ w.pc = "answered" /\ w.ask = web[c].ask /\ w.answers = t
      /\ w.next = web[c].next /\ w.shown = web[c].shown
  BY <1>1, <1>4 DEF Webs, OneMore
<1> HIDE DEF w
<1>6. Given(w, lreg, rx)
  <2>1. \A m \in DOMAIN s : Right(lreg, rx, s[m], web[c].ask)
    BY AtHandler DEF Given
  <2>2. \A n \in DOMAIN t : Right(lreg, rx, t[n], web[c].ask)
    BY <1>4, <2>1 DEF OneMore
  <2> HIDE DEF s
  <2> QED BY <1>4, <1>5, <2>2 DEF Given, OneMore
<1>7. Listed(w, lreg, rx, produced)
  BY <1>1, <1>5, AtHandler DEF Listed
<1>8. Forget(c)
  BY <1>1 DEF Forget, Answered, Untouched
<1> QED BY <1>3, <1>5, <1>6, <1>7, <1>8, MovedOn

LEMMA EndsDown ==
  ASSUME NEW cause \in {"exception", "badstring"} \cup Missing, Ends(cause),
         cause \in Missing => \E i \in Ids : i < lreg.counter /\ Gone(i)
  PROVE  DownInv'
<1>1. lreg' = lreg /\ rx' = rx /\ down' = cause
  BY DEF Ends, vars, connectorVars
<1>2. \A c \in Callers : web'[c].pc = "idle"
  BY DEF Ends, NoRequest
<1> QED BY <1>1, <1>2 DEF DownInv, DiesOfMissingLambda, Missing, Gone

LEMMA StillUp ==
  ASSUME down' = ""
  PROVE  DownInv'
  BY DEF DownInv, DiesOfMissingLambda, Missing

LEMMA AssembleInv ==
  ASSUME RestInv, NEW c \in Callers, Assemble(c)
  PROVE  HandlersInv' /\ DownInv'
<1> DEFINE q == web[c].ask
           k == calls[c]
           id == web[c].found
<1>1. /\ down = "" /\ web[c].pc = "assemble" /\ web[c] \in Webs /\ k.pc = "idle"
      /\ q \in Asks /\ q.op \in CallOps /\ id \in Ids \cup {Null}
      /\ id # Null => id < lreg.counter /\ (q.op = "id" => id = Narrow(q.key))
      /\ (id = Null /\ k.id # Null) => ~Firm(lreg, rx, k.id)
      /\ k.id # Null => /\ Suits(lreg, rx, k.id, AsRequest(q))
                        /\ k.code # CallWrongType => OfType(lreg, rx, k.id, q.type)
  BY AtHandler DEF Assemble, In, Serves, Webs
<1>2. k.id \in Ids \cup {Null} /\ (k.id # Null => k.id < lreg.counter)
  BY CallIds DEF RestInv, Below
<1>3. lreg \in Registries /\ k \in Calls /\ Bound(lreg, rx, k) /\ lreg.counter \in Int
  <2>1. /\ lreg \in Registries /\ calls \in [Callers -> Calls] /\ Bound(lreg, rx, k)
        /\ lreg.counter \in 0 .. MaxLambdas /\ MaxLambdas \in Nat
    BY <1>1, AtHandler
  <2>2. k \in Calls
    BY <2>1
  <2>3. lreg.counter \in Int
    BY <2>1
  <2> QED BY <2>1, <2>2, <2>3
<1>4. ASSUME NEW cause \in {"badstring"} \cup Missing, Ends(cause)
      PROVE  HandlersInv'
  BY <1>4, EndsInv DEF RestInv, Below, Missing
<1>5. ASSUME NEW a \in Answers, Answered(c, a), Untouched, Right(lreg, rx, a, q)
      PROVE  HandlersInv' /\ DownInv'
  <2>1. down' = ""
    BY <1>1, <1>5 DEF Untouched
  <2> QED BY <1>1, <1>5, <2>1, AnswersInv, StillUp
<1>6. CASE k.code \in {CallSuccess, CallCache, CallCacheTimeout}
  <2>1. k.id # Null /\ k.code # CallWrongType
    <3>1. k.id = Null => k.code = CallNotFound
      BY <1>1, <1>3 DEF Bound
    <3> QED BY <1>6, <3>1 DEF CallSuccess, CallCache, CallCacheTimeout, CallNotFound, CallWrongType
  <2>2. CASE id = Null /\ Ends("nolambda")
    BY <1>1, <1>2, <1>4, <2>1, <2>2, EndsDown, FirmNotGone DEF Missing
  <2>3. CASE id # Null /\ Gone(id) /\ Ends("freed")
    BY <1>1, <1>4, <2>3, EndsDown DEF Missing
  <2>4. CASE Ends("badstring")
    BY <1>4, <2>4, EndsDown DEF Missing
  <2>5. CASE id # Null /\ Gone(id) /\ Answered(c, Answer(Ok)) /\ Untouched
    <3>1. Right(lreg, rx, Answer(Ok), q)
      BY <1>1, <2>5, FirmNotGone DEF Right
    <3> QED BY <1>5, <2>5, <3>1, PlainAnswers
  <2>6. CASE id # Null /\ \E i \in LambdasRead(id), type \in TypesRead(id) :
               Answered(c, [status |-> Ok, id |-> i, type |-> type, value |-> k.value]) /\ Untouched
    <3>1. PICK i \in LambdasRead(id), type \in TypesRead(id) :
               Answered(c, [status |-> Ok, id |-> i, type |-> type, value |-> k.value]) /\ Untouched
      BY <2>6
    <3> DEFINE a == [status |-> Ok, id |-> i, type |-> type, value |-> k.value]
    <3>2. i \in Ids /\ (Firm(lreg, rx, id) => i = id)
      BY <1>1, <1>3, <2>6, LambdasBelow
    <3>3. type \in AllTypes \cup {UnknownType} /\ (Firm(lreg, rx, id) => type = lreg.slot[id].type)
      <4>1. lreg.slot[id] # Null => lreg.slot[id].type \in Types
        BY <1>1, <1>3, <2>6 DEF Registries, Entry
      <4> QED BY <4>1, FirmNotGone, ConnectorAssumption DEF TypesRead, Gone
    <3>4. a \in Answers /\ a.id = i /\ a.type = type /\ a.status = Ok
      BY <1>3, <3>2, <3>3 DEF Answers, Calls
    <3>5. q.op = "id" => id \in Ids /\ id < lreg.counter /\ id = Narrow(q.key) /\ k.id = id
      BY <1>1, <2>1, <2>6 DEF Suits, AsRequest
    <3>6. (q.op = "id" /\ Firm(lreg, rx, id)) => i = id /\ type = q.type
      BY <1>1, <2>1, <3>2, <3>3, <3>5 DEF OfType
    <3> HIDE DEF a
    <3>7. Right(lreg, rx, a, q)
      BY <3>4, <3>5, <3>6 DEF Right
    <3> QED BY <1>5, <3>1, <3>4, <3>7 DEF a
  <2> QED BY <1>6, <2>2, <2>3, <2>4, <2>5, <2>6 DEF Assemble, Success
<1>7. CASE k.code \notin {CallSuccess, CallCache, CallCacheTimeout}
  <2>1. CASE id # Null /\ Gone(id) /\ Ends("freed")
    BY <1>1, <1>4, <2>1, EndsDown DEF Missing
  <2>2. CASE Answered(c, Answer(NotFound)) /\ Untouched
    <3>1. Answer(NotFound) \in Answers /\ Answer(NotFound).status = NotFound
      BY PlainAnswers
    <3>2. Right(lreg, rx, Answer(NotFound), q)
      BY <3>1 DEF Right, NotFound, Ok
    <3> QED BY <1>5, <2>2, <3>1, <3>2
  <2> QED BY <1>7, <2>1, <2>2 DEF Assemble, Failure
<1> QED BY <1>6, <1>7

LEMMA ListLookInv ==
  ASSUME RestInv, NEW c \in Callers, ListLook(c)
  PROVE  HandlersInv'
<1> DEFINE i == web[c].next
           ws == [web[c] EXCEPT !.next = i + 1]
           wp == [web[c] EXCEPT !.pc = "print"]
<1>1. down = "" /\ web[c].pc = "list" /\ Untouched
  BY DEF ListLook, In
<1>2. /\ web[c] \in Webs /\ web \in [Callers -> Webs] /\ i \in Nat /\ calls[c].pc = "idle"
      /\ i <= lreg.counter /\ lreg.counter \in 0 .. MaxLambdas /\ MaxLambdas \in Nat
      /\ Given(web[c], lreg, rx) /\ Listed(web[c], lreg, rx, produced) /\ web[c].ask.op # "id"
      /\ lreg \in Registries
  <2>1. /\ web[c] \in Webs /\ web \in [Callers -> Webs] /\ lreg \in Registries
        /\ Given(web[c], lreg, rx) /\ Listed(web[c], lreg, rx, produced)
        /\ Serves(web[c], calls[c], lreg, rx)
        /\ lreg.counter \in 0 .. MaxLambdas /\ MaxLambdas \in Nat
    BY <1>1, AtHandler
  <2>2. i \in Nat
    BY <2>1 DEF Webs
  <2>3. calls[c].pc = "idle"
    BY <1>1, <2>1 DEF Serves
  <2>4. i <= lreg.counter /\ web[c].ask.op # "id"
    BY <1>1, <2>1 DEF Listed
  <2> QED BY <2>1, <2>2, <2>3, <2>4
<1>3. CASE Answered(c, Answer(Ok))
  <2>1. Right(lreg, rx, Answer(Ok), web[c].ask)
    BY <1>2 DEF Right
  <2> QED BY <1>1, <1>3, <2>1, AnswersInv, PlainAnswers
<1>4. calls' = calls => UNCHANGED vars
  BY <1>1 DEF Untouched, vars, connectorVars
<1>5. CASE /\ i < lreg.counter
           /\ lreg.slot[i] # Null => \E type \in TypesRead(i) : ~Wanted(c, type)
           /\ web' = [web EXCEPT ![c].next = i + 1] /\ UNCHANGED calls
  <2>1. web' = [web EXCEPT ![c] = ws]
    BY <1>2, <1>5
  <2>2. /\ ws \in Webs /\ ws.pc = "list" /\ ws.ask = web[c].ask /\ ws.answers = web[c].answers
        /\ ws.next = i + 1 /\ ws.shown = web[c].shown
    <3> DEFINE n == i + 1
    <3>1. n \in Nat
      BY <1>2
    <3>2. ws = [web[c] EXCEPT !.next = n]
      BY DEF n
    <3> HIDE DEF n, ws
    <3>3. ws \in Webs /\ ws.next = n /\ ws.shown = web[c].shown /\ ws.pc = "list"
          /\ ws.ask = web[c].ask /\ ws.answers = web[c].answers
      BY <1>1, <1>2, <3>1, <3>2 DEF Webs
    <3> QED BY <3>3 DEF n
  <2> HIDE DEF ws
  <2>3. Given(ws, lreg, rx)
    BY <1>1, <1>2, <2>2 DEF Given
  <2>4. Listed(ws, lreg, rx, produced)
    <3>1. ASSUME NEW j \in Ids, j < i + 1, Firm(lreg, rx, j),
                 web[c].ask.type \in {"missing", lreg.slot[j].type}
          PROVE  \E s \in web[c].shown : s[1] = j
      <4>1. j < i \/ j = i
        BY <1>2, <3>1 DEF Ids
      <4>2. j # i
        BY <1>5, <3>1, FirmNotGone DEF Wanted, TypesRead, Firm
      <4> QED BY <1>1, <1>2, <3>1, <4>1, <4>2 DEF Listed
    <3>2. i + 1 <= lreg.counter
      BY <1>2, <1>5
    <3> QED BY <1>2, <2>2, <3>1, <3>2 DEF Listed
  <2> QED BY <1>1, <1>2, <1>4, <1>5, <2>1, <2>2, <2>3, <2>4, NotCalling, Moved
<1>6. CASE /\ i < lreg.counter
           /\ web' = [web EXCEPT ![c].pc = "print"] /\ UNCHANGED calls
  <2>1. web' = [web EXCEPT ![c] = wp]
    BY <1>2, <1>6
  <2>2. /\ wp \in Webs /\ wp.pc = "print" /\ wp.ask = web[c].ask /\ wp.answers = web[c].answers
        /\ wp.next = i /\ wp.shown = web[c].shown
    BY <1>1, <1>2 DEF Webs
  <2> HIDE DEF wp
  <2>3. Given(wp, lreg, rx)
    BY <1>1, <1>2, <2>2 DEF Given
  <2>4. Listed(wp, lreg, rx, produced)
    BY <1>1, <1>2, <1>6, <2>2 DEF Listed
  <2> QED BY <1>1, <1>2, <1>4, <1>6, <2>1, <2>2, <2>3, <2>4, NotCalling, Moved
<1> QED BY <1>3, <1>5, <1>6 DEF ListLook

LEMMA ListPrintInv ==
  ASSUME RestInv, NEW c \in Callers, ListPrint(c)
  PROVE  HandlersInv' /\ DownInv'
<1> DEFINE i == web[c].next
<1>1. down = "" /\ web[c].pc = "print"
  BY DEF ListPrint, In
<1>2. /\ web[c] \in Webs /\ web \in [Callers -> Webs] /\ i \in Nat /\ calls[c].pc = "idle"
      /\ i < lreg.counter /\ lreg.counter \in 0 .. MaxLambdas /\ MaxLambdas \in Nat
      /\ Given(web[c], lreg, rx) /\ Listed(web[c], lreg, rx, produced) /\ i \in Ids
  <2>1. web[c] \in Webs /\ Listed(web[c], lreg, rx, produced) /\ i \in Nat /\ calls[c].pc = "idle"
    BY <1>1, AtHandler DEF Webs, Serves
  <2>2. i < lreg.counter /\ lreg.counter \in 0 .. MaxLambdas /\ MaxLambdas \in Nat
    BY <1>1, <2>1, AtHandler DEF Listed
  <2>3. i \in Ids
    BY <2>1, <2>2 DEF Ids
  <2> QED BY <1>1, <2>1, <2>2, <2>3, AtHandler
<1>3. CASE Gone(i) /\ Ends("freed")
  BY <1>1, <1>2, <1>3, EndsInv, EndsDown DEF RestInv, Below, Missing
<1>4. CASE (\E a \in LambdasRead(i) :
              web' = [web EXCEPT ![c].pc = "list", ![c].next = i + 1,
                                 ![c].shown = @ \cup {<<i, Cached(c, a)>>}])
           /\ UNCHANGED <<vars, down>>
  <2>10. PICK a \in LambdasRead(i) :
              web' = [web EXCEPT ![c].pc = "list", ![c].next = i + 1,
                                 ![c].shown = @ \cup {<<i, Cached(c, a)>>}]
    BY <1>4
  <2>11. a \in Ids /\ (Firm(lreg, rx, i) => a = i)
    BY <1>2, LambdasBelow
  <2> DEFINE e == <<i, Cached(c, a)>>
             w == [web[c] EXCEPT !.pc = "list", !.next = i + 1, !.shown = @ \cup {e}]
  <2>1. web' = [web EXCEPT ![c] = w]
    BY <1>2, <2>10
  <2>2. Cached(c, a) \in SUBSET Values
    BY <2>11 DEF Cached, RestInv, Below, ConnectorInv, SharedInv, Arguments
  <2>3. /\ w \in Webs /\ w.pc = "list" /\ w.ask = web[c].ask /\ w.answers = web[c].answers
        /\ w.next = i + 1 /\ w.shown = web[c].shown \cup {e}
    <3> DEFINE n == i + 1
               shown == web[c].shown \cup {e}
    <3>1. n \in Nat
      BY <1>2
    <3>2. shown \in SUBSET (Ids \X SUBSET Values)
      BY <1>2, <2>2 DEF Webs
    <3> HIDE DEF n, shown
    <3>3. w = [web[c] EXCEPT !.pc = "list", !.next = n, !.shown = shown]
      BY DEF n, shown
    <3>4. w \in Webs /\ w.next = n /\ w.shown = shown /\ w.pc = "list"
          /\ w.ask = web[c].ask /\ w.answers = web[c].answers
      BY <1>2, <3>1, <3>2, <3>3 DEF Webs
    <3> QED BY <3>4 DEF n, shown
  <2> HIDE DEF w
  <2>4. Given(w, lreg, rx)
    BY <1>1, <1>2, <2>3 DEF Given
  <2>5. Cached(c, a) \subseteq 1 .. produced \/ (Firm(lreg, rx, i) => lreg.slot[i].type = "STRING")
    <3> SUFFICES ASSUME Firm(lreg, rx, i), lreg.slot[i].type # "STRING"
                 PROVE  Cached(c, a) \subseteq 1 .. produced
      OBVIOUS
    <3>1. MadeAt(args[i], lreg, produced, i) /\ (args[i].cached => args[i].ret # NoValue)
      BY <1>2 DEF RestInv, Below, MadeInv, CachedInv
    <3>2. args[i].cached => args[i].ret \in 1 .. produced
      BY <3>1 DEF MadeAt, TypedAs, Firm
    <3> QED BY <2>11, <3>2 DEF Cached
  <2>6. Listed(w, lreg, rx, produced)
    <3>1. ASSUME NEW j \in Ids, j < i + 1, Firm(lreg, rx, j),
                 web[c].ask.type \in {"missing", lreg.slot[j].type}
          PROVE  \E s \in w.shown : s[1] = j
      <4>1. j < i \/ j = i
        BY <1>2, <3>1 DEF Ids
      <4>2. e \in w.shown /\ e[1] = i
        BY <2>3
      <4>3. CASE j = i
        BY <4>2, <4>3
      <4>4. CASE j < i
        <5>1. \E s \in web[c].shown : s[1] = j
          BY <1>1, <1>2, <3>1, <4>4 DEF Listed
        <5> QED BY <2>3, <5>1
      <4> QED BY <4>1, <4>3, <4>4
    <3>2. ASSUME NEW s \in w.shown
          PROVE  /\ s[1] < lreg.counter
                 /\ s[2] \subseteq 1 .. produced
                    \/ (Firm(lreg, rx, s[1]) => lreg.slot[s[1]].type = "STRING")
      <4>1. CASE s \in web[c].shown
        BY <1>2, <4>1 DEF Listed
      <4>2. CASE s = e
        BY <1>2, <2>5, <4>2
      <4> QED BY <2>3, <4>1, <4>2
    <3>3. i + 1 <= lreg.counter
      BY <1>2
    <3>4. w.ask.op # "id"
      BY <1>1, <1>2, <2>3 DEF Listed
    <3> QED BY <2>3, <3>1, <3>2, <3>3, <3>4 DEF Listed
  <2>7. down' = ""
    BY <1>1, <1>4
  <2> QED BY <1>1, <1>2, <1>4, <2>1, <2>3, <2>4, <2>6, <2>7, NotCalling, Moved, StillUp
<1> QED BY <1>3, <1>4 DEF ListPrint

\* A call that follows its pointer to nowhere has lost its lambda.
LEMMA StraysInv ==
  ASSUME RestInv, NEW c \in Callers, CallStrays(c)
  PROVE  HandlersInv' /\ DownInv'
<1>1. calls[c].pc \in {"cache", "sent"} /\ Gone(calls[c].id) /\ Ends("wild")
  BY DEF CallStrays, Strays, At
<1>2. calls[c].id \in Ids /\ calls[c].id < lreg.counter
  BY <1>1, CallerTyped DEF RestInv, Below, ConnectorInv, Committed, CallPcs
<1> QED BY <1>1, <1>2, EndsInv, EndsDown DEF RestInv, Below, Missing

-----------------------------------------------------------------------------
(***************************************************************************)
(* The invariant of the server.                                            *)
(***************************************************************************)
LEMMA RestStepInv == RestInv /\ [RestNext]_allVars => RestInv'
<1> SUFFICES ASSUME RestInv, [RestNext]_allVars PROVE RestInv'
  OBVIOUS
<1>1. CASE RestNext
  <2>1. Beneath /\ down = "" /\ Below'
    BY <1>1, StepsBeneath, BeneathInv DEF RestInv
  <2>2. ASSUME NEW q \in Asks, Arrives(q) PROVE HandlersInv' /\ DownInv'
    <3>1. down' = "" \/ Ends("exception")
      BY <2>1, <2>2 DEF Arrives, HttpCall, HttpList, HttpKill, CoapCall, CoapList, CoapKill,
                        Refused, Calling, Listing
    <3>2. DownInv'
      BY <3>1, StillUp, EndsDown DEF Missing
    <3> QED BY <2>2, <3>2, ArrivesInv
  <2>3. ASSUME NEW c \in Callers, HandlerStep(c) PROVE HandlersInv' /\ DownInv'
    <3>1. CASE Done(c)
      BY <2>1, <3>1, DoneInv, StillUp DEF Done
    <3>2. CASE LookAgain(c)
      BY <2>1, <3>2, LookAgainInv, StillUp DEF LookAgain
    <3>3. CASE ListLook(c)
      BY <2>1, <3>3, ListLookInv, StillUp DEF ListLook, Untouched
    <3> QED BY <2>3, <3>1, <3>2, <3>3, AssembleInv, ListPrintInv DEF HandlerStep
  <2>4. ASSUME (\E c \in Callers : ConnectorCall(c)) \/ RxStep \/ PeerNext, Elsewhere
        PROVE  HandlersInv' /\ DownInv'
    <3>1. down' = ""
      BY <2>4 DEF Elsewhere, restVars
    <3> QED BY <2>1, <2>4, <3>1, BesidesInv, StillUp DEF RestInv
  <2>5. HandlersInv' /\ DownInv'
    <3>1. CASE \E c \in Callers : ConnectorCall(c) /\ Elsewhere
      BY <2>4, <3>1
    <3>2. CASE (RxStep \/ PeerNext) /\ Elsewhere
      BY <2>4, <3>2
    <3> QED BY <1>1, <2>2, <2>3, <3>1, <3>2, StraysInv DEF RestNext
  <2> QED BY <2>1, <2>5 DEF RestInv
<1>2. CASE UNCHANGED allVars
  <2>1. UNCHANGED vars /\ web' = web /\ down' = down
    BY <1>2 DEF allVars, restVars
  <2>2. calls' = calls /\ lreg' = lreg /\ rx' = rx /\ produced' = produced
    BY <2>1 DEF vars, connectorVars
  <2>3. Below'
    BY <2>1, BeneathInv DEF RestInv, Beneath
  <2>4. HandlersInv'
    BY <2>1, <2>2, HandlersNext DEF RestInv, HandlersInv
  <2>5. DownInv'
    BY <2>1, <2>2 DEF RestInv, DownInv, DiesOfMissingLambda, Gone
  <2> QED BY <2>3, <2>4, <2>5 DEF RestInv
<1> QED BY <1>1, <1>2

LEMMA RestInitInv == RestInit => RestInv
<1> SUFFICES ASSUME RestInit PROVE RestInv
  OBVIOUS
<1>1. Init /\ web = [c \in Callers |-> NoRequest] /\ down = ""
  BY DEF RestInit
<1>2. Below
  BY <1>1, ConnectorInitInv, FreshStart DEF Init, Below
<1>3. lreg \in Registries /\ \A c \in Callers : calls[c].pc = "idle"
  BY <1>1, <1>2 DEF Init, ConnectorInit, NoCall, Below, ConnectorInv, SharedInv
<1>4. HandlersInv
  BY <1>1, <1>3, NoRequestFits DEF HandlersInv
<1>5. DownInv
  BY <1>1 DEF DownInv, DiesOfMissingLambda, Missing
<1> QED BY <1>2, <1>4, <1>5 DEF RestInv

LEMMA RestAlwaysInv == RestSpec => []RestInv
  BY RestInitInv, RestStepInv, PTL DEF RestSpec

\* What the handlers keep of a request is of its type, and a request gets at
\* most three answers.
THEOREM RestTypeCorrect == RestSpec => []RestTypeOK
<1>1. RestInv => RestTypeOK
  <2> SUFFICES ASSUME RestInv, NEW c \in Callers
               PROVE  /\ web[c].pc \in {"idle", "calling", "assemble", "list", "print",
                                        "answered", "ended"}
                      /\ web[c].found \in Ids \cup {Null}
                      /\ web[c].next \in 0 .. MaxLambdas
                      /\ web[c].shown \subseteq Ids \X SUBSET Values
                      /\ Len(web[c].answers) <= 3
    BY DEF RestTypeOK, RestInv, DownInv, Missing
  <2>1. /\ web[c] \in Webs /\ Given(web[c], lreg, rx) /\ Listed(web[c], lreg, rx, produced)
        /\ lreg \in Registries
    BY DEF RestInv, Below, HandlersInv, ConnectorInv, SharedInv
  <2>2. web[c].next \in 0 .. MaxLambdas
    BY <2>1, RegistryAssumption DEF Webs, Listed, Registries
  <2>3. Len(web[c].answers) <= 3
    <3>1. Len(web[c].answers) \in 0 .. 3
      BY <2>1 DEF Given
    <3>2. \A n \in 0 .. 3 : n <= 3
      OBVIOUS
    <3> QED BY <3>1, <3>2, Zenon
  <2> QED BY <2>1, <2>2, <2>3 DEF Webs
<1> QED BY <1>1, RestAlwaysInv, PTL

\* The lambda that a 200 answer to a call by id describes, and whose type says
\* how the value is printed, is the one that was called, as long as that is
\* registered, although handleCallById looks it up again after the call and
\* without the lock: an id is never given to a second lambda.  For any bytes
\* that the memory of other lambdas, given back, may hold.
THEOREM AnswersAlwaysDescribeTheCalled == RestSpec => []AnswersDescribeTheCalled
<1>1. RestInv => AnswersDescribeTheCalled
  BY FirmNotGone DEF RestInv, HandlersInv, Given, Right, AnswersDescribeTheCalled
<1> QED BY <1>1, RestAlwaysInv, PTL

\* Only the end of its loop answers a listing.
LEMMA ListingEnds ==
  ASSUME RestInv, RestNext, NEW c \in Callers, web[c].pc = "list", web'[c].pc = "answered"
  PROVE  down = "" /\ web[c].next >= lreg.counter
<1>1. down = "" /\ web \in [Callers -> Webs]
  BY StepsBeneath DEF RestInv, HandlersInv
<1>2. ASSUME NEW cause, Ends(cause) PROVE FALSE
  BY <1>2 DEF Ends, NoRequest
<1>3. ASSUME NEW q \in Asks, Arrives(q) PROVE FALSE
  <2>1. HttpThread \in Callers /\ CoapThread \in Callers
    BY RestAssumption
  <2>2. ASSUME NEW d \in Callers, web[d].pc = "idle", NEW w, web' = [web EXCEPT ![d] = w]
        PROVE  FALSE
    BY <1>1, <2>2
  <2>3. ASSUME NEW d \in Callers, web[d].pc = "idle", Refused(d) \/ Listing(d, q)
        PROVE  FALSE
    BY <1>1, <2>2, <2>3 DEF Refused, Listing
  <2>4. ASSUME NEW d \in Callers, web[d].pc = "idle", NEW answers, Calling(d, q, answers)
        PROVE  FALSE
    BY <1>1, <2>2, <2>4 DEF Calling
  <2>5. CASE HttpCall(q)
    BY <2>1, <2>4, <2>5 DEF HttpCall, In
  <2>6. CASE CoapCall(q)
    BY <1>2, <2>1, <2>3, <2>4, <2>6 DEF CoapCall, In
  <2>7. CASE HttpList(q) \/ CoapList(q)
    BY <1>2, <2>1, <2>3, <2>7 DEF HttpList, CoapList, In
  <2>8. CASE HttpKill(q) \/ CoapKill(q)
    BY <1>1, <2>1, <2>2, <2>8 DEF HttpKill, CoapKill, In
  <2> QED BY <1>3, <2>5, <2>6, <2>7, <2>8 DEF Arrives
<1>4. ASSUME NEW d \in Callers, HandlerStep(d) PROVE ListLook(c)
  <2>1. d = c
    <3> SUFFICES ASSUME d # c PROVE FALSE
      OBVIOUS
    <3>1. ASSUME NEW w, web' = [web EXCEPT ![d] = w] PROVE FALSE
      BY <1>1, <3>1
    <3>2. CASE Done(d) \/ LookAgain(d)
      BY <3>1, <3>2 DEF Done, LookAgain
    <3>3. CASE Assemble(d)
      BY <1>2, <3>1, <3>3 DEF Assemble, Success, Failure, Answered
    <3>4. CASE ListLook(d)
      BY <3>1, <3>4 DEF ListLook, Answered
    <3>5. CASE ListPrint(d)
      BY <1>2, <3>1, <3>5 DEF ListPrint
    <3> QED BY <1>4, <3>2, <3>3, <3>4, <3>5 DEF HandlerStep
  <2> QED BY <1>4, <2>1 DEF HandlerStep, Done, LookAgain, Assemble, ListPrint, In
<1>5. ListLook(c)
  <2>1. web' # web /\ \A d \in Callers : ~CallStrays(d)
    BY <1>1, <1>2 DEF CallStrays, Ends
  <2> QED BY <1>3, <1>4, <2>1 DEF RestNext, Elsewhere, restVars
<1>6. web[c] \in Webs /\ \A w : web' = [web EXCEPT ![c] = w] => web'[c] = w
  BY <1>1
<1>7. CASE web' = [web EXCEPT ![c].next = web[c].next + 1]
  <2>1. web'[c] = [web[c] EXCEPT !.next = web[c].next + 1]
    BY <1>6, <1>7
  <2> QED BY <1>6, <2>1 DEF Webs
<1>8. CASE web' = [web EXCEPT ![c].pc = "print"]
  <2>1. web'[c] = [web[c] EXCEPT !.pc = "print"]
    BY <1>6, <1>8
  <2> QED BY <1>6, <2>1 DEF Webs
<1> QED BY <1>1, <1>5, <1>7, <1>8 DEF ListLook

LEMMA AllShown ==
  ASSUME NEW w \in Webs, lreg \in Registries, WellFormed(lreg), NEW n, Listed(w, lreg, rx, n),
         w.pc = "list", w.next >= lreg.counter,
         NEW i \in Ids, ~Gone(i), w.ask.type \in {"missing", lreg.slot[i].type}
  PROVE  \E s \in w.shown : s[1] = i
<1>1. Firm(lreg, rx, i) /\ lreg.slot[i] # Null
  BY FirmNotGone DEF Gone
<1>2. i < lreg.counter
  BY <1>1 DEF Live, WellFormed, SlotsBelowCounter
<1>3. lreg.counter \in Int /\ i \in Int /\ w.next \in Int
  BY RegistryAssumption DEF Webs, Ids, Registries
<1>4. i < w.next
  BY <1>2, <1>3
<1> QED BY <1>1, <1>4 DEF Listed

\* A listing that ends has shown every lambda of its type that is registered as
\* it ends: the loop runs up to a counter that only grows, and skips nothing
\* below it.
THEOREM ListingsAlwaysComplete == RestSpec => ListingsComplete
<1>1. RestInv /\ [RestNext]_allVars =>
        [\A c \in Callers :
           (web[c].pc = "list" /\ web'[c].pc = "answered") =>
              {i \in Ids : ~Gone(i) /\ Wanted(c, lreg.slot[i].type)}
                \subseteq {s[1] : s \in web[c].shown}]_allVars
  <2> SUFFICES ASSUME RestInv, RestNext, NEW c \in Callers, web[c].pc = "list",
                      web'[c].pc = "answered", NEW i \in Ids, ~Gone(i), Wanted(c, lreg.slot[i].type)
               PROVE  \E s \in web[c].shown : s[1] = i
    OBVIOUS
  <2>1. down = "" /\ web[c].next >= lreg.counter
    BY ListingEnds
  <2>2. /\ web[c] \in Webs /\ Listed(web[c], lreg, rx, produced)
        /\ lreg \in Registries /\ WellFormed(lreg)
    BY <2>1, AtHandler
  <2>3. web[c].ask.type \in {"missing", lreg.slot[i].type}
    BY DEF Wanted
  <2> QED BY <2>1, <2>2, <2>3, AllShown
<1> QED BY <1>1, RestAlwaysInv, PTL DEF RestSpec, ListingsComplete

\* A cached value that a listing shows has been made by the board, although the
\* listing reads the flag and the value while the libspt thread may store them.
THEOREM ShownValuesAreAlwaysMade == RestSpec => []ShownValuesAreMade
<1>1. RestInv => ShownValuesAreMade
  BY FirmNotGone DEF RestInv, HandlersInv, Listed, ShownValuesAreMade
<1> QED BY <1>1, RestAlwaysInv, PTL

\* A request with an unknown type, which the HTTP handler refuses and then
\* carries on with, never becomes a call of the board as long as its lambda is
\* registered: no lambda has that type.
THEOREM UnknownTypesAlwaysStayOffTheLine == RestSpec => []UnknownTypesStayOffTheLine
<1>1. RestInv => UnknownTypesStayOffTheLine
  <2> SUFFICES ASSUME RestInv, NEW c \in Callers, web[c].pc = "calling",
                      web[c].ask.type = UnknownType, ~Gone(calls[c].id)
               PROVE  calls[c].pc \in {"idle", "lock", "lookup", "type"}
    BY DEF UnknownTypesStayOffTheLine
  <2>1. /\ Serves(web[c], calls[c], lreg, rx) /\ Bound(lreg, rx, calls[c])
        /\ calls[c] \in Calls /\ lreg \in Registries /\ Held(lreg, calls[c])
    BY DEF RestInv, Below, DownInv, HandlersInv, ConnectorInv, CallsInv, SharedInv, CallsBound
  <2> SUFFICES ASSUME calls[c].pc \in Committed \ {"type"}
               PROVE  FALSE
    BY <2>1 DEF Calls, CallPcs, Committed
  <2>2. calls[c].req.type = UnknownType /\ calls[c].id \in Ids /\ calls[c].pc # "idle"
    BY <2>1 DEF Serves, AsRequest, Held, Committed
  <2>3. lreg.slot[calls[c].id].type = UnknownType /\ lreg.slot[calls[c].id] # Null
    BY <2>1, <2>2, FirmNotGone DEF Bound, OfType, Firm
  <2>4. lreg.slot[calls[c].id].type \in Types
    BY <2>1, <2>2, <2>3 DEF Registries, Entry
  <2> QED BY <2>3, <2>4, ConnectorAssumption DEF UnknownType, AllTypes
<1> QED BY <1>1, RestAlwaysInv, PTL

\* The process follows a NULL pointer or one to freed memory, in a call, after
\* it or in a listing, only after a lambda has been unregistered.
THEOREM DiesOnlyOfMissingLambda == RestSpec => []DiesOfMissingLambda
<1>1. RestInv => DiesOfMissingLambda
  BY DEF RestInv, DownInv
<1> QED BY <1>1, RestAlwaysInv, PTL

=============================================================================
