-------------------------- MODULE BoardCoapProofs --------------------------
(***************************************************************************)
(* Theorems about the board's CoAP server beside the application, for any  *)
(* number of slots and all sets of names, types and requests.  They rest   *)
(* on how the slots and their blocks look between two writes of the        *)
(* application.                                                            *)
(***************************************************************************)
EXTENDS BoardCoap, RegistryTheorems

Adding   == app.pc \in {"fill", "publish"}
Freeing  == app.pc \in {"clear", "stopclear"}
Stopping == app.pc \in {"stop", "stopclear"}

\* A block is there exactly where a pointer is, unwritten only while its
\* registration is under way and freed only until its pointer is cleared.
BlocksFit ==
  \A i \in Ids : /\ mem[i] = "none" <=> reg.slot[i] = Null
                 /\ mem[i] = "raw" <=> app.pc = "fill" /\ app.id = i
                 /\ mem[i] = "freed" <=> Freeing /\ app.id = i

\* Entries sit below the counter, but for the one being added, in their slots.
SlotsFit ==
  /\ Adding => /\ app.id = reg.counter /\ app.id \in Ids
               /\ reg.slot[app.id] # Null
  /\ Freeing => app.id \in Ids
  /\ Stopping => \A i \in Ids : i < app.id => reg.slot[i] = Null
  /\ \A i \in Ids : reg.slot[i] # Null =>
       /\ reg.slot[i].id = i
       /\ i < reg.counter \/ (Adding /\ i = app.id)
       /\ reg.slot[i].arg = Null => reg.slot[i].cache = "CACHE_ONLY"
  /\ NamesUnique(reg)

\* What the server's thread can be.
Server == [pc : {"off", "idle", "send"}, lambda : {Null}, at : {Null}]
            \cup [pc : {"evaluating"}, lambda : Entry, at : Ids \cup {Null}]

IInv ==
  /\ BoardCoapTypeOK
  /\ BlocksFit
  /\ SlotsFit
  /\ NeverReadsRaw
  /\ DiesOnlyOf

-----------------------------------------------------------------------------
\* Ids are numbers below the length of the array.
LEMMA IdRange ==
  /\ MaxLambdas \in Nat /\ 0 \in 0 .. MaxLambdas
  /\ \A i \in Ids : i \in Nat /\ i \in 0 .. MaxLambdas /\ i + 1 \in 0 .. MaxLambdas
  /\ \A i \in Ids, j \in Ids : i < j + 1 => i < j \/ i = j
  /\ \A i \in 0 .. MaxLambdas, k \in 0 .. MaxLambdas : i < k => i \in Ids
  BY RegistryAssumption DEF Ids

\* Between two calls of the application the registry is a well-formed one.
LEMMA IdleWellFormed ==
  ASSUME IInv, app.pc = "idle"
  PROVE  reg \in Registries /\ WellFormed(reg)
  BY DEF IInv, BoardCoapTypeOK, SlotsFit, WellFormed, SlotsBelowCounter, Live, Adding

\* What the first part of a registration writes: the new entry into the slot at
\* the counter, or nothing.
LEMMA AllocWrites ==
  ASSUME IInv, NEW n \in Names, NEW t \in Types, NEW c \in Policies, NEW f \in Args,
         NEW oom \in BOOLEAN, Alloc(n, t, c, f, oom)
  PROVE  LET e == [id |-> reg.counter, name |-> n, type |-> t, cache |-> c, arg |-> f] IN
         \/ /\ reg.counter \in Ids /\ e \in Entry /\ e # Null
            /\ e.arg = Null => e.cache = "CACHE_ONLY"
            /\ n \notin FullNames => \A i \in Live(reg) : reg.slot[i].name # n
            /\ reg' = [reg EXCEPT !.slot[reg.counter] = e]
            /\ mem' = [mem EXCEPT ![reg.counter] = "raw"]
            /\ app' = [pc |-> "fill", id |-> reg.counter]
         \/ reg' = reg /\ mem' = mem /\ app' = app
<1> DEFINE e == [id |-> reg.counter, name |-> n, type |-> t, cache |-> c, arg |-> f]
<1>1. app.pc = "idle" /\ (f = Null => c = "CACHE_ONLY")
  BY DEF Alloc, App
<1>2. reg \in Registries /\ WellFormed(reg)
  BY <1>1, IdleWellFormed
<1>3. CASE RegisterFailure(reg, n, oom) = 0
  <2>1. /\ reg.counter \in Ids
        /\ n \in ShortNames \cup FullNames
        /\ n \notin FullNames => \A i \in Live(reg) : reg.slot[i].name # n
    BY <1>2, <1>3, Accepted
  <2>2. e \in Entry /\ e # Null
    BY <2>1, NullAssumption DEF Entry
  <2>3. Registered(reg, n, t, c, f, oom)
          = [slot |-> [reg.slot EXCEPT ![reg.counter] = e], counter |-> reg.counter + 1]
    BY <1>3 DEF Registered, RegisterNoMem
  <2>4. reg' = [reg EXCEPT !.slot[reg.counter] = e]
    BY <1>2, <2>3 DEF Alloc, Registries
  <2>5. /\ mem' = [mem EXCEPT ![reg.counter] = "raw"]
        /\ app' = [pc |-> "fill", id |-> reg.counter]
    BY <1>3 DEF Alloc
  <2> QED BY <1>1, <2>1, <2>2, <2>4, <2>5
<1>4. CASE RegisterFailure(reg, n, oom) # 0
  <2>1. mem' = mem /\ app' = app
    BY <1>4 DEF Alloc
  <2>2. CASE RegisterFailure(reg, n, oom) = RegisterNoMem
    <3>1. Registered(reg, n, t, c, f, oom) = [reg EXCEPT !.slot[reg.counter] = Null]
      BY <2>2 DEF Registered
    <3>2. reg.counter \in Ids => reg.slot[reg.counter] = Null
      BY <1>2 DEF WellFormed, SlotsBelowCounter, Live, Registries
    <3>3. [reg EXCEPT !.slot[reg.counter] = Null] = reg
      BY <1>2, <3>2 DEF Registries
    <3>4. reg' = reg
      BY <1>2, <3>1, <3>3 DEF Alloc, Registries
    <3> QED BY <2>1, <3>4
  <2>3. CASE RegisterFailure(reg, n, oom) # RegisterNoMem
    <3>1. Registered(reg, n, t, c, f, oom) = reg
      BY <1>4, <2>3 DEF Registered
    <3>2. reg' = reg
      BY <1>2, <3>1 DEF Alloc, Registries
    <3> QED BY <2>1, <3>2
  <2> QED BY <2>2, <2>3
<1> QED BY <1>3, <1>4

\* To the server a registration does at most one thing: its block becomes one
\* that the server has a pointer to.
LEMMA AllocServer ==
  ASSUME IInv, NEW n \in Names, NEW t \in Types, NEW c \in Policies, NEW f \in Args,
         NEW oom \in BOOLEAN, Alloc(n, t, c, f, oom)
  PROVE  \/ coap' = coap
         \/ /\ coap.pc = "evaluating" /\ reg.counter \in Ids
            /\ coap' = [coap EXCEPT !.at = reg.counter]
<1>1. reg \in Registries /\ WellFormed(reg)
  BY IdleWellFormed DEF Alloc, App
<1>2. RegisterFailure(reg, n, oom) = 0 => reg.counter \in Ids
  BY <1>1, Accepted
<1> QED BY <1>2 DEF Alloc, MayReuse

-----------------------------------------------------------------------------
LEMMA InitInv == Init => IInv
<1> SUFFICES ASSUME Init PROVE IInv
  OBVIOUS
<1>1. ZeroedRegistry \in Registries /\ \A i \in Ids : ZeroedRegistry.slot[i] = Null
  BY EmptyWellFormed DEF ZeroedRegistry, EmptySlots
<1>2. BoardCoapTypeOK
  <2>1. 0 \in 0 .. MaxLambdas
    BY RegistryAssumption
  <2>2. coap = [pc |-> "off", lambda |-> Null, at |-> Null]
    BY DEF Init, CoapIdle
  <2>3. answer.kind = "none" /\ answer.shown = {}
    BY DEF Init, NoReply, Reply
  <2>4. mem \in [Ids -> {"none", "raw", "live", "freed"}]
    BY DEF Init
  <2>5. app = [pc |-> "idle", id |-> 0] /\ reg \in Registries /\ down = ""
    BY <1>1 DEF Init, AppIdle
  <2> QED BY <2>1, <2>2, <2>3, <2>4, <2>5 DEF BoardCoapTypeOK
<1>3. BlocksFit
  BY <1>1 DEF Init, BlocksFit, AppIdle, Freeing
<1>4. SlotsFit
  BY <1>1 DEF Init, SlotsFit, AppIdle, Adding, Freeing, Stopping, NamesUnique, Live
<1>5. NeverReadsRaw /\ DiesOnlyOf
  BY DEF Init, NeverReadsRaw, DiesOnlyOf
<1> QED BY <1>2, <1>3, <1>4, <1>5 DEF IInv

\* Nothing that the application does ends the board.
LEMMA AppDies ==
  ASSUME down = "", UNCHANGED down
  PROVE  NeverReadsRaw' /\ DiesOnlyOf'
  BY DEF NeverReadsRaw, DiesOnlyOf

LEMMA AllocInv ==
  ASSUME IInv, NEW n \in Names, NEW t \in Types, NEW c \in Policies, NEW f \in Args,
         NEW oom \in BOOLEAN, Alloc(n, t, c, f, oom)
  PROVE  IInv'
<1> DEFINE i == reg.counter
           e == [id |-> i, name |-> n, type |-> t, cache |-> c, arg |-> f]
<1>1. app.pc = "idle" /\ down = "" /\ UNCHANGED <<answer, down>>
  BY DEF Alloc, App
<1>2. NeverReadsRaw' /\ DiesOnlyOf'
  BY <1>1, AppDies
<1>5. coap' = coap \/ (coap.pc = "evaluating" /\ coap' = [coap EXCEPT !.at = i] /\ i \in Ids)
  BY AllocServer
<1>6. coap' \in Server
  BY <1>5 DEF Server, IInv, BoardCoapTypeOK
<1>3. CASE /\ i \in Ids /\ e \in Entry /\ e # Null
           /\ e.arg = Null => e.cache = "CACHE_ONLY"
           /\ n \notin FullNames => \A j \in Live(reg) : reg.slot[j].name # n
           /\ reg' = [reg EXCEPT !.slot[i] = e]
           /\ mem' = [mem EXCEPT ![i] = "raw"]
           /\ app' = [pc |-> "fill", id |-> i]
  <2>1. reg.slot \in [Ids -> Entry \cup {Null}] /\ i \in 0 .. MaxLambdas
    BY DEF IInv, BoardCoapTypeOK, Registries
  <2>2. \A j \in Ids : reg'.slot[j] = IF j = i THEN e ELSE reg.slot[j]
    BY <1>3, <2>1 DEF IInv, BoardCoapTypeOK, Registries
  <2>3. reg'.counter = i /\ reg' \in Registries
    BY <1>3, <2>1 DEF IInv, BoardCoapTypeOK, Registries
  <2>4. mem' \in [Ids -> {"none", "raw", "live", "freed"}]
        /\ \A j \in Ids : mem'[j] = IF j = i THEN "raw" ELSE mem[j]
    BY <1>3 DEF IInv, BoardCoapTypeOK
  <2>5. BoardCoapTypeOK'
    <3>1. app'.pc = "fill" /\ app'.id = i /\ app' \in [pc : {"fill"}, id : 0 .. MaxLambdas]
      BY <1>3, <2>1
    <3> QED BY <1>1, <1>6, <2>3, <2>4, <3>1 DEF Server, IInv, BoardCoapTypeOK
  <2>6. BlocksFit'
    <3>1. app'.pc = "fill" /\ app'.id = i /\ ~Freeing /\ ~Freeing' /\ app.pc # "fill"
      BY <1>1, <1>3 DEF Freeing
    <3> SUFFICES ASSUME NEW j \in Ids
                 PROVE  /\ mem'[j] = "none" <=> reg'.slot[j] = Null
                        /\ mem'[j] = "raw" <=> app'.pc = "fill" /\ app'.id = j
                        /\ mem'[j] = "freed" <=> Freeing' /\ app'.id = j
      BY DEF BlocksFit
    <3>2. CASE j = i
      BY <1>3, <2>2, <2>4, <3>1, <3>2
    <3>3. CASE j # i
      BY <2>2, <2>4, <3>1, <3>3 DEF IInv, BlocksFit
    <3> QED BY <3>2, <3>3
  <2>7. NamesUnique(reg')
    BY <1>3, <2>2 DEF IInv, SlotsFit, NamesUnique, Live
  <2>8. SlotsFit'
    <3>1. app'.pc = "fill" /\ app'.id = i /\ reg'.slot[i] = e /\ e # Null /\ i \in Ids
      BY <1>3, <2>2
    <3>2. ASSUME NEW j \in Ids, reg'.slot[j] # Null
          PROVE  /\ reg'.slot[j].id = j
                 /\ j < reg'.counter \/ j = i
                 /\ reg'.slot[j].arg = Null => reg'.slot[j].cache = "CACHE_ONLY"
      <4>1. CASE j = i
        BY <1>3, <2>2, <4>1
      <4>2. CASE j # i
        BY <1>1, <2>2, <2>3, <3>2, <4>2 DEF IInv, SlotsFit, Adding
      <4> QED BY <4>1, <4>2
    <3> QED BY <2>3, <2>7, <3>1, <3>2 DEF SlotsFit, Adding, Freeing, Stopping
  <2> QED BY <1>2, <2>5, <2>6, <2>8 DEF IInv
<1>4. CASE reg' = reg /\ mem' = mem /\ app' = app
  BY <1>1, <1>2, <1>4, <1>6
     DEF Server, IInv, BoardCoapTypeOK, BlocksFit, SlotsFit, NeverReadsRaw, DiesOnlyOf,
         Adding, Freeing, Stopping
<1> QED BY <1>3, <1>4, AllocWrites

LEMMA FillInv == ASSUME IInv, Fill PROVE IInv'
<1>1. app.pc = "fill" /\ down = "" /\ UNCHANGED <<reg, coap, answer, down>>
  BY DEF Fill, App
<1>2. app'.pc = "publish" /\ app'.id = app.id /\ app.id \in Ids
  BY <1>1 DEF Fill, IInv, BoardCoapTypeOK, SlotsFit, Adding
<1>3. mem' \in [Ids -> {"none", "raw", "live", "freed"}]
      /\ \A j \in Ids : mem'[j] = IF j = app.id THEN "live" ELSE mem[j]
  BY DEF Fill, IInv, BoardCoapTypeOK
<1>4. BoardCoapTypeOK'
  <2>1. app' \in [pc : {"publish"}, id : 0 .. MaxLambdas]
    BY <1>1, <1>2 DEF Fill, IInv, BoardCoapTypeOK
  <2> QED BY <1>1, <1>3, <2>1 DEF IInv, BoardCoapTypeOK
<1>5. BlocksFit'
  <2>1. ~Freeing /\ ~Freeing' /\ app'.pc # "fill" /\ reg.slot[app.id] # Null
    BY <1>1, <1>2 DEF IInv, SlotsFit, Adding, Freeing
  <2> SUFFICES ASSUME NEW j \in Ids
               PROVE  /\ mem'[j] = "none" <=> reg'.slot[j] = Null
                      /\ mem'[j] = "raw" <=> app'.pc = "fill" /\ app'.id = j
                      /\ mem'[j] = "freed" <=> Freeing' /\ app'.id = j
    BY DEF BlocksFit
  <2>2. CASE j = app.id
    BY <1>1, <1>3, <2>1, <2>2
  <2>3. CASE j # app.id
    BY <1>1, <1>3, <2>1, <2>3 DEF IInv, BlocksFit
  <2> QED BY <2>2, <2>3
<1>6. SlotsFit'
  BY <1>1, <1>2 DEF IInv, SlotsFit, Adding, Freeing, Stopping
<1> QED BY <1>1, <1>4, <1>5, <1>6, AppDies DEF IInv

LEMMA PublishInv == ASSUME IInv, Publish PROVE IInv'
<1>1. app.pc = "publish" /\ down = "" /\ UNCHANGED <<mem, coap, answer, down>>
  BY DEF Publish, App
<1>2. app.id = reg.counter /\ app.id \in Ids /\ app' = AppIdle
  BY <1>1 DEF Publish, IInv, SlotsFit, Adding
<1>3. reg'.slot = reg.slot /\ reg'.counter = app.id + 1 /\ reg' \in Registries
  <2>1. app.id + 1 \in 0 .. MaxLambdas
    BY <1>2, RegistryAssumption DEF Ids
  <2> QED BY <2>1 DEF Publish, IInv, BoardCoapTypeOK, Registries
<1>4. BoardCoapTypeOK'
  <2>1. app' \in [pc : {"idle"}, id : 0 .. MaxLambdas]
    BY <1>2, RegistryAssumption DEF AppIdle
  <2> QED BY <1>1, <1>3, <2>1 DEF IInv, BoardCoapTypeOK
<1>5. BlocksFit'
  BY <1>1, <1>2, <1>3 DEF IInv, BlocksFit, Freeing, AppIdle
<1>6. SlotsFit'
  <2>1. NamesUnique(reg')
    BY <1>3 DEF IInv, SlotsFit, NamesUnique, Live
  <2>2. \A i \in Ids : i < reg.counter \/ i = app.id => i < app.id + 1
    BY <1>2, RegistryAssumption DEF Ids
  <2> QED BY <1>1, <1>2, <1>3, <2>1, <2>2
             DEF IInv, SlotsFit, Adding, Freeing, Stopping, AppIdle
<1> QED BY <1>1, <1>4, <1>5, <1>6, AppDies DEF IInv

\* A block is given back between two calls or in the loop of rs_stop.
LEMMA FreeBlockInv ==
  ASSUME IInv, NEW id \in Ids, NEW next \in {"clear", "stopclear"},
         down = "", reg.slot[id] # Null, id < reg.counter,
         \/ app.pc = "idle" /\ next = "clear"
         \/ app.pc = "stop" /\ next = "stopclear" /\ app.id = id,
         FreeBlock(id, next)
  PROVE  IInv'
<1>1. app'.pc = next /\ app'.id = id /\ UNCHANGED <<reg, answer, down>>
  BY DEF FreeBlock
<1>2. mem' \in [Ids -> {"none", "raw", "live", "freed"}]
      /\ \A j \in Ids : mem'[j] = IF j = id THEN "freed" ELSE mem[j]
  BY DEF FreeBlock, IInv, BoardCoapTypeOK
<1>3. BoardCoapTypeOK'
  <2>1. app' \in [pc : {"clear", "stopclear"}, id : 0 .. MaxLambdas]
    <3>1. id \in 0 .. MaxLambdas
      BY IdRange
    <3> QED BY <3>1 DEF FreeBlock
  <2>2. coap' = [coap EXCEPT !.at = IF @ = id THEN Null ELSE @]
    BY DEF FreeBlock
  <2>3. coap' \in Server
    BY <2>2 DEF Server, IInv, BoardCoapTypeOK
  <2> QED BY <1>1, <1>2, <2>1, <2>3 DEF Server, IInv, BoardCoapTypeOK
<1>4. BlocksFit'
  <2>1. ~Freeing /\ Freeing' /\ app.pc # "fill" /\ app'.pc # "fill"
    BY <1>1 DEF Freeing
  <2> SUFFICES ASSUME NEW j \in Ids
               PROVE  /\ mem'[j] = "none" <=> reg'.slot[j] = Null
                      /\ mem'[j] = "raw" <=> app'.pc = "fill" /\ app'.id = j
                      /\ mem'[j] = "freed" <=> Freeing' /\ app'.id = j
    BY DEF BlocksFit
  <2>2. CASE j = id
    BY <1>1, <1>2, <2>1, <2>2
  <2>3. CASE j # id
    BY <1>1, <1>2, <2>1, <2>3 DEF IInv, BlocksFit
  <2> QED BY <2>2, <2>3
<1>5. SlotsFit'
  BY <1>1 DEF IInv, SlotsFit, Adding, Freeing, Stopping
<1> QED BY <1>1, <1>3, <1>4, <1>5, AppDies DEF IInv

\* Its pointer is cleared.
LEMMA ClearSlotInv ==
  ASSUME IInv, down = "", Freeing, ClearSlot(app.id),
         \/ app' = AppIdle
         \/ app.pc = "stopclear" /\ app' = [pc |-> "stop", id |-> app.id + 1]
  PROVE  IInv'
<1>1. app.id \in Ids /\ UNCHANGED <<coap, answer, down>>
  BY DEF IInv, SlotsFit, ClearSlot
<1>2. mem' \in [Ids -> {"none", "raw", "live", "freed"}]
      /\ \A j \in Ids : mem'[j] = IF j = app.id THEN "none" ELSE mem[j]
  BY DEF ClearSlot, IInv, BoardCoapTypeOK
<1>3. /\ reg' \in Registries /\ reg'.counter = reg.counter
      /\ \A j \in Ids : reg'.slot[j] = IF j = app.id THEN Null ELSE reg.slot[j]
  BY DEF ClearSlot, IInv, BoardCoapTypeOK, Registries
<1>4. app' \in [pc : {"idle", "stop"}, id : 0 .. MaxLambdas]
  <2>1. 0 \in 0 .. MaxLambdas /\ app.id + 1 \in 0 .. MaxLambdas
    BY <1>1, IdRange
  <2>2. CASE app' = AppIdle
    BY <2>1, <2>2 DEF AppIdle
  <2>3. CASE app' = [pc |-> "stop", id |-> app.id + 1]
    BY <2>1, <2>3
  <2> QED BY <2>2, <2>3
<1>5. BoardCoapTypeOK'
  BY <1>1, <1>2, <1>3, <1>4 DEF IInv, BoardCoapTypeOK
<1>6. BlocksFit'
  <2>1. ~Freeing' /\ app.pc # "fill" /\ app'.pc # "fill"
    BY <1>4 DEF Freeing
  <2> SUFFICES ASSUME NEW j \in Ids
               PROVE  /\ mem'[j] = "none" <=> reg'.slot[j] = Null
                      /\ mem'[j] = "raw" <=> app'.pc = "fill" /\ app'.id = j
                      /\ mem'[j] = "freed" <=> Freeing' /\ app'.id = j
    BY DEF BlocksFit
  <2>2. CASE j = app.id
    BY <1>2, <1>3, <2>1, <2>2
  <2>3. CASE j # app.id
    BY <1>2, <1>3, <2>1, <2>3 DEF IInv, BlocksFit
  <2> QED BY <2>2, <2>3
<1>7. SlotsFit'
  <2>1. ~Adding /\ ~Adding' /\ ~Freeing'
    BY <1>4 DEF Adding, Freeing
  <2>2. NamesUnique(reg')
    <3>1. \A j \in Live(reg') : j \in Live(reg) /\ reg'.slot[j] = reg.slot[j]
      BY <1>3 DEF Live
    <3> QED BY <3>1 DEF IInv, SlotsFit, NamesUnique
  <2>3. ASSUME Stopping', NEW j \in Ids, j < app'.id PROVE reg'.slot[j] = Null
    <3>1. app.pc = "stopclear" /\ app'.id = app.id + 1
      <4>1. app'.pc # "idle"
        BY <2>3 DEF Stopping
      <4>2. CASE app' = AppIdle
        <5>1. AppIdle.pc = "idle"
          BY DEF AppIdle
        <5> QED BY <4>1, <4>2, <5>1
      <4>3. CASE app.pc = "stopclear" /\ app' = [pc |-> "stop", id |-> app.id + 1]
        BY <4>3
      <4> QED BY <4>2, <4>3
    <3>2. j < app.id \/ j = app.id
      BY <1>1, <2>3, <3>1, IdRange
    <3>3. j < app.id => reg.slot[j] = Null
      BY <3>1 DEF IInv, SlotsFit, Stopping
    <3> QED BY <1>3, <3>2, <3>3
  <2>4. \A j \in Ids : reg'.slot[j] # Null => reg'.slot[j] = reg.slot[j] /\ reg.slot[j] # Null
    BY <1>3
  <2> QED BY <1>3, <2>1, <2>2, <2>3, <2>4 DEF IInv, SlotsFit
<1> QED BY <1>1, <1>5, <1>6, <1>7, AppDies DEF IInv

LEMMA UnregisterInv == ASSUME IInv, NEW id \in Ids, unregister_lambda(id) PROVE IInv'
<1>1. app.pc = "idle" /\ down = "" /\ ById(reg, id) # Null /\ FreeBlock(id, "clear")
  BY DEF unregister_lambda, App
<1>2. reg.slot[id] # Null /\ ~(id >= reg.counter)
  <2>1. ~(id >= MaxLambdas \/ id >= reg.counter)
    BY <1>1 DEF ById
  <2> QED BY <1>1, <2>1 DEF ById
<1>3. id < reg.counter
  <2>1. reg.counter \in 0 .. MaxLambdas
    BY DEF IInv, BoardCoapTypeOK, Registries
  <2>2. id \in Nat /\ MaxLambdas \in Nat
    BY IdRange
  <2> QED BY <1>2, <2>1, <2>2
<1> QED BY <1>1, <1>2, <1>3, FreeBlockInv

LEMMA Unregister2Inv == ASSUME IInv, Unregister2 PROVE IInv'
  BY ClearSlotInv DEF Unregister2, App, Freeing

LEMMA StopBeginsInv == ASSUME IInv, rs_stop PROVE IInv'
<1>1. app.pc = "idle" /\ down = "" /\ UNCHANGED <<reg, mem, coap, answer, down>>
      /\ app' = [pc |-> "stop", id |-> 0]
  BY DEF rs_stop, App
<1>2. app' \in [pc : {"stop"}, id : 0 .. MaxLambdas] /\ app'.id = 0
  <2>1. 0 \in 0 .. MaxLambdas
    BY IdRange
  <2> QED BY <1>1, <2>1
<1>3. BoardCoapTypeOK'
  BY <1>1, <1>2 DEF IInv, BoardCoapTypeOK
<1>4. BlocksFit'
  BY <1>1 DEF IInv, BlocksFit, Freeing
<1>5. SlotsFit'
  <2>1. \A i \in Ids : ~(i < app'.id)
    BY <1>2, IdRange
  <2> QED BY <1>1, <2>1 DEF IInv, SlotsFit, Adding, Freeing, Stopping
<1> QED BY <1>1, <1>3, <1>4, <1>5, AppDies DEF IInv

LEMMA StopNextInv == ASSUME IInv, StopNext PROVE IInv'
<1>1. app.pc = "stop" /\ down = "" /\ app.id < reg.counter
  BY DEF StopNext, App
<1>2. app.id \in Ids /\ reg.counter \in 0 .. MaxLambdas
  <2>1. app.id \in 0 .. MaxLambdas /\ reg.counter \in 0 .. MaxLambdas
    BY DEF IInv, BoardCoapTypeOK, Registries
  <2> QED BY <1>1, <2>1, IdRange
<1>3. CASE reg.slot[app.id] = Null
  <2>1. UNCHANGED <<reg, mem, coap, answer, down>> /\ app' = [app EXCEPT !.id = @ + 1]
    BY <1>3 DEF StopNext
  <2>2. app'.pc = "stop" /\ app'.id = app.id + 1 /\ app' \in [pc : {"stop"}, id : 0 .. MaxLambdas]
    <3>1. app.id + 1 \in 0 .. MaxLambdas
      BY <1>2, IdRange
    <3> QED BY <1>1, <2>1, <3>1 DEF IInv, BoardCoapTypeOK
  <2>3. BoardCoapTypeOK'
    BY <2>1, <2>2 DEF IInv, BoardCoapTypeOK
  <2>4. BlocksFit'
    BY <1>1, <2>1, <2>2 DEF IInv, BlocksFit, Freeing
  <2>5. \A j \in Ids : j < app.id + 1 => reg.slot[j] = Null
    <3>1. \A j \in Ids : j < app.id + 1 => j < app.id \/ j = app.id
      BY <1>2, IdRange
    <3> QED BY <1>1, <1>3, <3>1 DEF IInv, SlotsFit, Stopping
  <2>6. SlotsFit'
    BY <1>1, <2>1, <2>2, <2>5 DEF IInv, SlotsFit, Adding, Freeing, Stopping
  <2> QED BY <1>1, <2>1, <2>3, <2>4, <2>6, AppDies DEF IInv
<1>4. CASE reg.slot[app.id] # Null
  BY <1>1, <1>2, <1>4, FreeBlockInv DEF StopNext
<1> QED BY <1>3, <1>4

LEMMA StopClearInv == ASSUME IInv, StopClear PROVE IInv'
  BY ClearSlotInv DEF StopClear, App, Freeing

\* When the loop of rs_stop is through, no entry is left.
LEMMA StoppedEmpty == ASSUME IInv, Stopped PROVE \A i \in Ids : reg.slot[i] = Null
<1>1. app.pc = "stop" /\ app.id >= reg.counter
  BY DEF Stopped, App
<1>2. \A i \in Ids : reg.slot[i] # Null => i < reg.counter
  BY <1>1 DEF IInv, SlotsFit, Adding
<1>3. \A i \in Ids : i < reg.counter => i < app.id
  <2>1. app.id \in 0 .. MaxLambdas /\ reg.counter \in 0 .. MaxLambdas
    BY DEF IInv, BoardCoapTypeOK, Registries
  <2>2. \A i \in Ids : i \in Nat
    BY IdRange
  <2> QED BY <1>1, <2>1, <2>2
<1> QED BY <1>1, <1>2, <1>3 DEF IInv, SlotsFit, Stopping

LEMMA StoppedInv == ASSUME IInv, Stopped PROVE IInv'
<1>1. app.pc = "stop" /\ down = "" /\ UNCHANGED <<mem, coap, answer, down>> /\ app' = AppIdle
  BY DEF Stopped, App
<1>2. reg'.slot = reg.slot /\ reg'.counter = 0 /\ reg' \in Registries
  <2>1. 0 \in 0 .. MaxLambdas
    BY IdRange
  <2> QED BY <2>1 DEF Stopped, IInv, BoardCoapTypeOK, Registries
<1>3. BoardCoapTypeOK'
  <2>1. app' \in [pc : {"idle"}, id : 0 .. MaxLambdas]
    <3>1. 0 \in 0 .. MaxLambdas
      BY IdRange
    <3> QED BY <1>1, <3>1 DEF AppIdle
  <2> QED BY <1>1, <1>2, <2>1 DEF IInv, BoardCoapTypeOK
<1>4. BlocksFit'
  BY <1>1, <1>2 DEF IInv, BlocksFit, Freeing, AppIdle
<1>5. SlotsFit'
  BY <1>1, <1>2, StoppedEmpty DEF SlotsFit, Adding, Freeing, Stopping, AppIdle, NamesUnique, Live
<1> QED BY <1>1, <1>3, <1>4, <1>5, AppDies DEF IInv

LEMMA StartInv == ASSUME IInv, rs_start PROVE IInv'
<1>1. app.pc = "idle" /\ down = "" /\ UNCHANGED <<app, answer, down>>
  BY DEF rs_start, App
<1>2. reg' \in Registries /\ \A i \in Ids : reg'.slot[i] = Null
  BY EmptyWellFormed DEF rs_start, Initialised, EmptySlots, IInv, BoardCoapTypeOK, Registries
<1>3. mem' \in [Ids -> {"none", "raw", "live", "freed"}] /\ \A i \in Ids : mem'[i] = "none"
  BY DEF rs_start
<1>4. BoardCoapTypeOK'
  BY <1>1, <1>2, <1>3 DEF rs_start, CoapIdle, IInv, BoardCoapTypeOK
<1>5. BlocksFit'
  BY <1>1, <1>2, <1>3 DEF BlocksFit, Freeing
<1>6. SlotsFit'
  BY <1>1, <1>2 DEF SlotsFit, Adding, Freeing, Stopping, NamesUnique, Live
<1> QED BY <1>1, <1>4, <1>5, <1>6, AppDies DEF IInv

-----------------------------------------------------------------------------
\* The server's steps leave the application's data alone.
LEMMA ServerKeeps ==
  ASSUME IInv, UNCHANGED <<reg, mem, app>>
  PROVE  BlocksFit' /\ SlotsFit'
  BY DEF IInv, BlocksFit, SlotsFit, Adding, Freeing, Stopping

LEMMA AnsweredInv ==
  ASSUME IInv, down = "",
         NEW kind \in {"fixed", "bad", "error", "success", "list"},
         NEW shown \in SUBSET Entry,
         Answered(kind, shown)
  PROVE  IInv'
<1>1. /\ UNCHANGED <<reg, mem, app, down>>
      /\ answer'.kind = kind /\ answer'.shown = shown
      /\ coap' = [pc |-> "send", lambda |-> Null, at |-> Null]
  BY DEF Answered, Reply, CoapIdle
<1>2. BoardCoapTypeOK'
  BY <1>1 DEF IInv, BoardCoapTypeOK
<1>3. NeverReadsRaw' /\ DiesOnlyOf'
  BY <1>1, AppDies
<1> QED BY <1>1, <1>2, <1>3, ServerKeeps DEF IInv

LEMMA EndsInv ==
  ASSUME IInv, NEW cause \in {"freed", "overrun", "nullfunction"}, Ends(cause),
         cause = "freed" =>
           Freeing \/ (coap.pc = "evaluating" /\ (coap.at = Null \/ mem[coap.at] # "live")),
         cause = "nullfunction" =>
           \E i \in Ids : /\ mem[i] = "live" /\ i < reg.counter
                          /\ reg.slot[i].cache = "CACHE_ONLY" /\ reg.slot[i].arg = Null
  PROVE  IInv'
<1>1. down' = cause /\ UNCHANGED <<reg, mem, app, coap, answer>>
  BY DEF Ends
<1>2. BoardCoapTypeOK'
  BY <1>1 DEF IInv, BoardCoapTypeOK
<1>3. NeverReadsRaw' /\ DiesOnlyOf'
  BY <1>1 DEF NeverReadsRaw, DiesOnlyOf, Freeing
<1> QED BY <1>1, <1>2, <1>3, ServerKeeps DEF IInv

\* What the lookups can reach is an entry, and its block has been written.
LEMMA VisibleEntries ==
  ASSUME IInv, NEW i \in Visible
  PROVE  /\ i \in Ids /\ i < reg.counter /\ reg.slot[i] \in Entry
         /\ mem[i] # "live" => mem[i] = "freed" /\ Freeing
         /\ reg.slot[i].arg = Null => reg.slot[i].cache = "CACHE_ONLY"
<1>1. i \in Ids /\ i < reg.counter /\ reg.slot[i] # Null
  BY DEF Visible
<1>2. reg.slot[i] \in Entry
  BY <1>1 DEF IInv, BoardCoapTypeOK, Registries
<1>3. mem[i] \in {"none", "raw", "live", "freed"}
  BY <1>1 DEF IInv, BoardCoapTypeOK
<1>4. mem[i] # "none"
  BY <1>1 DEF IInv, BlocksFit
<1>5. mem[i] # "raw"
  <2>1. mem[i] = "raw" => i = reg.counter
    BY <1>1 DEF IInv, BlocksFit, SlotsFit, Adding
  <2>2. i # reg.counter
    <3>1. i \in Nat
      BY <1>1, IdRange
    <3> QED BY <1>1, <3>1
  <2> QED BY <2>1, <2>2
<1>6. mem[i] = "freed" => Freeing
  BY <1>1 DEF IInv, BlocksFit
<1>7. reg.slot[i].arg = Null => reg.slot[i].cache = "CACHE_ONLY"
  BY <1>1 DEF IInv, SlotsFit
<1> QED BY <1>1, <1>2, <1>3, <1>4, <1>5, <1>6, <1>7

LEMMA MisreadsInv ==
  ASSUME IInv, NEW blocks \in SUBSET Visible, Misreads(blocks)
  PROVE  IInv'
<1>1. PICK i \in blocks : mem[i] # "live" /\ Ends(mem[i])
  BY DEF Misreads
<1>2. mem[i] = "freed" /\ Freeing
  BY <1>1, VisibleEntries
<1> QED BY <1>1, <1>2, EndsInv

LEMMA PerformInv ==
  ASSUME IInv, down = "", NEW q \in Requests, NEW i \in Visible, mem[i] = "live",
         Perform(q, reg.slot[i])
  PROVE  IInv'
<1> DEFINE e == reg.slot[i]
<1>1. i \in Ids /\ i < reg.counter /\ e \in Entry /\ (e.arg = Null => e.cache = "CACHE_ONLY")
  BY VisibleEntries
<1>2. CASE e.type # q.type
  BY <1>1, <1>2, AnsweredInv DEF Perform
<1>3. CASE e.type = q.type /\ e.arg = Null
  BY <1>1, <1>3, EndsInv DEF Perform
<1>4. CASE e.type = q.type /\ e.arg # Null
  <2>1. /\ coap' = [pc |-> "evaluating", lambda |-> e, at |-> i]
        /\ UNCHANGED <<reg, mem, app, answer, down>>
    BY <1>1, <1>4 DEF Perform, IInv, SlotsFit, Visible
  <2>2. BoardCoapTypeOK'
    BY <1>1, <2>1 DEF IInv, BoardCoapTypeOK
  <2> QED BY <2>1, <2>2, AppDies, ServerKeeps DEF IInv
<1> QED BY <1>2, <1>3, <1>4

\* The entry that a lookup by name returns is one that it has gone through.
LEMMA FoundIsWalked ==
  ASSUME IInv, NEW n, ByName(reg, n) # Null
  PROVE  \E i \in Walked(n) : ByName(reg, n) = reg.slot[i]
<1>1. PICK i \in Hits(reg, n) : TRUE
  BY DEF ByName
<1>2. i \in Visible /\ NameEquals(reg.slot[i], n)
  BY DEF Hits, Visible
<1>3. ASSUME NEW j \in Hits(reg, n) PROVE j = i
  BY <1>2, <1>3 DEF Hits, NameEquals, Visible, IInv, SlotsFit, NamesUnique, Live
<1>4. i \in Nat
  BY <1>2, IdRange DEF Visible
<1>5. (CHOOSE k \in Hits(reg, n) : \A j \in Hits(reg, n) : k <= j) = i
  <2>1. Hits(reg, n) = {i}
    BY <1>3
  <2> QED BY <1>4, <2>1
<1>6. ByName(reg, n) = reg.slot[i]
  BY <1>5 DEF ByName
<1>7. i \in Walked(n)
  <2> SUFFICES ASSUME NEW j \in Visible, j < i, NameEquals(reg.slot[j], n) PROVE FALSE
    BY <1>2 DEF Walked
  <2>1. j = i
    BY <1>3 DEF Hits, Visible
  <2> QED BY <1>4, <2>1
<1> QED BY <1>6, <1>7

-----------------------------------------------------------------------------
LEMMA HandleListInv == ASSUME IInv, NEW q \in Requests, HandleList(q) PROVE IInv'
<1> DEFINE t == ParsedType(q.type)
           listed == {i \in Visible : t \in {Missing, reg.slot[i].type}}
<1>1. down = ""
  BY DEF HandleList, Request
<1>2. CASE Answered("bad", {})
  BY <1>1, <1>2, AnsweredInv
<1>3. CASE Misreads(Visible)
  BY <1>3, MisreadsInv
<1>4. CASE Ends("overrun")
  BY <1>4, EndsInv
<1>5. CASE Answered("list", {reg.slot[i] : i \in listed})
  <2>1. {reg.slot[i] : i \in listed} \in SUBSET Entry
    BY VisibleEntries
  <2> QED BY <1>1, <1>5, <2>1, AnsweredInv
<1> QED BY <1>2, <1>3, <1>4, <1>5 DEF HandleList

LEMMA HandleCallIdInv == ASSUME IInv, NEW q \in Requests, HandleCallId(q) PROVE IInv'
<1> DEFINE id == ParsedId(q.key)
<1>1. down = ""
  BY DEF HandleCallId, Request
<1>2. CASE Answered("bad", {}) \/ Answered("error", {})
  BY <1>1, <1>2, AnsweredInv
<1>3. CASE id \in Visible /\ Misreads({id})
  BY <1>3, MisreadsInv
<1>4. CASE id \in Visible /\ Intact({id}) /\ Perform(q, reg.slot[id])
  <2>1. mem[id] = "live"
    BY <1>4 DEF Intact
  <2> QED BY <1>1, <1>4, <2>1, PerformInv
<1> QED BY <1>2, <1>3, <1>4 DEF HandleCallId

LEMMA HandleCallNameInv == ASSUME IInv, NEW q \in Requests, HandleCallName(q) PROVE IInv'
<1>1. down = ""
  BY DEF HandleCallName, Request
<1>2. CASE Ends("overrun")
  BY <1>2, EndsInv
<1>3. CASE Answered("bad", {}) \/ Answered("error", {})
  BY <1>1, <1>3, AnsweredInv
<1>4. CASE Misreads(Walked(q.key))
  BY <1>4, MisreadsInv DEF Walked
<1>5. CASE /\ Intact(Walked(q.key)) /\ ByName(reg, q.key) # Null
           /\ Perform(q, ByName(reg, q.key))
  <2>1. PICK i \in Walked(q.key) : ByName(reg, q.key) = reg.slot[i]
    BY <1>5, FoundIsWalked
  <2>2. i \in Visible /\ mem[i] = "live"
    BY <1>5 DEF Walked, Intact
  <2> QED BY <1>1, <1>5, <2>1, <2>2, PerformInv
<1> QED BY <1>2, <1>3, <1>4, <1>5 DEF HandleCallName

LEMMA ReturnInv == ASSUME IInv, Return PROVE IInv'
<1>1. down = "" /\ coap.pc = "evaluating"
  BY DEF Return
<1>2. coap.lambda \in Entry
  BY <1>1 DEF IInv, BoardCoapTypeOK
<1>3. CASE coap.at # Null /\ mem[coap.at] = "live"
  <2>1. coap.at \in Ids
    BY <1>1, <1>3 DEF IInv, BoardCoapTypeOK
  <2>2. reg.slot[coap.at] \in Entry
    <3>1. reg.slot[coap.at] # Null
      BY <1>3, <2>1 DEF IInv, BlocksFit
    <3> QED BY <2>1, <3>1 DEF IInv, BoardCoapTypeOK, Registries
  <2> QED BY <1>1, <1>3, <2>2, AnsweredInv DEF Return
<1>4. CASE ~(coap.at # Null /\ mem[coap.at] = "live")
  <2>1. CASE Ends("freed")
    BY <1>1, <1>4, <2>1, EndsInv
  <2>2. CASE \E shown \in {{coap.lambda}, {}} : Answered("success", shown)
    BY <1>1, <1>2, <2>2, AnsweredInv
  <2> QED BY <1>4, <2>1, <2>2 DEF Return
<1> QED BY <1>3, <1>4

LEMMA SendInv == ASSUME IInv, Send PROVE IInv'
<1>1. /\ coap.pc = "send" /\ UNCHANGED <<reg, mem, app, down>>
      /\ coap' = [pc |-> "idle", lambda |-> Null, at |-> Null]
      /\ answer'.kind = "none" /\ answer'.shown = {}
  BY DEF Send, CoapIdle, NoReply, Reply
<1>2. BoardCoapTypeOK'
  BY <1>1 DEF IInv, BoardCoapTypeOK
<1>3. NeverReadsRaw' /\ DiesOnlyOf'
  BY <1>1 DEF IInv, NeverReadsRaw, DiesOnlyOf
<1> QED BY <1>1, <1>2, <1>3, ServerKeeps DEF IInv

-----------------------------------------------------------------------------
LEMMA NextInv == IInv /\ [Next]_vars => IInv'
<1> SUFFICES ASSUME IInv, [Next]_vars PROVE IInv'
  OBVIOUS
<1>1. CASE UNCHANGED vars
  <2>1. UNCHANGED <<reg, mem, app, coap, answer, down>>
    BY <1>1 DEF vars
  <2>2. BoardCoapTypeOK'
    BY <2>1 DEF IInv, BoardCoapTypeOK
  <2>3. NeverReadsRaw' /\ DiesOnlyOf'
    BY <2>1 DEF IInv, NeverReadsRaw, DiesOnlyOf
  <2> QED BY <2>1, <2>2, <2>3, ServerKeeps DEF IInv
<1>2. ASSUME NEW n \in Names, NEW t \in Types, NEW c \in Policies, NEW f \in Args,
             NEW oom \in BOOLEAN, Alloc(n, t, c, f, oom)
      PROVE  IInv'
  BY <1>2, AllocInv
<1>3. ASSUME NEW id \in Ids, unregister_lambda(id) PROVE IInv'
  BY <1>3, UnregisterInv
<1>4. CASE Fill
  BY <1>4, FillInv
<1>5. CASE Publish
  BY <1>5, PublishInv
<1>6. CASE Unregister2
  BY <1>6, Unregister2Inv
<1>7. CASE rs_start
  BY <1>7, StartInv
<1>8. CASE rs_stop
  BY <1>8, StopBeginsInv
<1>9. CASE StopNext \/ StopClear \/ Stopped
  BY <1>9, StopNextInv, StopClearInv, StoppedInv
<1>10. CASE AppStep
  BY <1>2, <1>3, <1>4, <1>5, <1>6, <1>7, <1>8, <1>9, <1>10 DEF AppStep
<1>11. ASSUME NEW q \in Requests, HandleFixed(q) PROVE IInv'
  BY <1>11, AnsweredInv DEF HandleFixed, Request
<1>12. CASE CoapStep
  BY <1>11, <1>12, HandleListInv, HandleCallIdInv, HandleCallNameInv, ReturnInv, SendInv
     DEF CoapStep
<1> QED BY <1>1, <1>10, <1>12 DEF Next

LEMMA AlwaysInv == Spec => []IInv
  BY InitInv, NextInv, PTL DEF Spec

\* The registry, its blocks and both threads keep their types: no write of the
\* application leaves the array.
THEOREM BoardCoapTypeCorrect == Spec => []BoardCoapTypeOK
<1>1. IInv => BoardCoapTypeOK
  BY DEF IInv
<1> QED BY <1>1, AlwaysInv, PTL

\* The server never meets an entry whose fields have not been written, wherever
\* it interrupts a registration: the counter that publishes it goes up last.
THEOREM RawNeverRead == Spec => []NeverReadsRaw
<1>1. IInv => NeverReadsRaw
  BY DEF IInv
<1> QED BY <1>1, AlwaysInv, PTL

\* The board is left in no defined state only by a lambda that is being freed,
\* or was while its function ran, by a CACHE_ONLY lambda without a function, or
\* by what is too long for its buffer.
THEOREM DiesOnlyOfThese == Spec => []DiesOnlyOf
<1>1. IInv => DiesOnlyOf
  BY DEF IInv
<1> QED BY <1>1, AlwaysInv, PTL

-----------------------------------------------------------------------------
(***************************************************************************)
(* The refinement.  What the server sees of a slot, and the ids that have  *)
(* been given out.                                                         *)
(***************************************************************************)
Seen == [i \in Ids |-> IF i < reg.counter /\ mem[i] = "live" THEN reg.slot[i] ELSE Null]
Issued == 0 .. reg.counter - 1

LEMMA InitImplements == Init => Directory!Init
<1> SUFFICES ASSUME Init PROVE Seen = [i \in Ids |-> Null] /\ Issued = {}
  BY DEF Directory!Init, Directory!Nobody, Seen, Issued
<1>1. reg.counter = 0 /\ \A i \in Ids : mem[i] = "none"
  BY DEF Init, ZeroedRegistry
<1> QED BY <1>1 DEF Seen, Issued

\* A write that changes neither what is live below the counter nor the counter
\* is not seen.
LEMMA Unseen ==
  ASSUME reg'.counter = reg.counter,
         \A i \in Ids : i < reg.counter =>
            (mem'[i] = "live" <=> mem[i] = "live")
            /\ (mem[i] = "live" => reg'.slot[i] = reg.slot[i])
  PROVE  UNCHANGED <<Seen, Issued>>
  BY DEF Seen, Issued

LEMMA PublishAdds ==
  ASSUME IInv, Publish, NEW i, i = app.id, NEW e, e = reg.slot[i]
  PROVE  Directory!Add(e)
<1>1. /\ app.pc = "publish" /\ i = reg.counter /\ i \in Ids /\ e # Null /\ e.id = i
      /\ reg.counter \in Nat
  BY IdRange DEF Publish, App, IInv, SlotsFit, Adding
<1>2. mem[i] = "live"
  <2>1. mem[i] \in {"none", "raw", "live", "freed"}
    BY <1>1 DEF IInv, BoardCoapTypeOK
  <2>2. mem[i] # "none" /\ mem[i] # "raw" /\ mem[i] # "freed"
    BY <1>1 DEF IInv, BlocksFit, Freeing
  <2> QED BY <2>1, <2>2
<1>3. reg'.slot = reg.slot /\ reg'.counter = i + 1 /\ mem' = mem
  BY DEF Publish, IInv, BoardCoapTypeOK, Registries
<1>4. \A j \in Ids : j < i + 1 <=> j < i \/ j = i
  BY <1>1, IdRange
<1>5. Seen' = [Seen EXCEPT ![i] = e]
  <2>1. \A j \in Ids : Seen'[j] = IF j = i THEN e ELSE Seen[j]
    <3> SUFFICES ASSUME NEW j \in Ids PROVE Seen'[j] = IF j = i THEN e ELSE Seen[j]
      OBVIOUS
    <3>1. Seen'[j] = IF j < i + 1 /\ mem[j] = "live" THEN reg.slot[j] ELSE Null
      BY <1>3 DEF Seen
    <3>2. Seen[j] = IF j < i /\ mem[j] = "live" THEN reg.slot[j] ELSE Null
      BY <1>1 DEF Seen
    <3> QED BY <1>2, <1>4, <3>1, <3>2
  <2> QED BY <2>1 DEF Seen
<1>6. Issued' = Issued \cup {i} /\ i \notin Issued
  BY <1>1, <1>3 DEF Issued
<1>7. ASSUME e.name \in ShortNames, NEW j \in Ids, Seen[j] # Null
      PROVE  Seen[j].name # e.name
  <2>1. j < i /\ Seen[j] = reg.slot[j] /\ reg.slot[j] # Null /\ j \in Nat
    BY <1>1, <1>7, IdRange DEF Seen
  <2>2. e.name \notin FullNames /\ j # i
    BY <1>1, <1>7, <2>1, RegistryAssumption
  <2> QED BY <1>1, <2>1, <2>2 DEF IInv, SlotsFit, NamesUnique, Live
<1> QED BY <1>1, <1>5, <1>6, <1>7
        DEF Directory!Add, Directory!NameFree, Seen, Issued

LEMMA FreeBlockRemoves ==
  ASSUME IInv, NEW id \in Ids, NEW next, reg.slot[id] # Null, id < reg.counter,
         app.pc \in {"idle", "stop"}, FreeBlock(id, next)
  PROVE  Directory!Remove(id)
<1>1. mem[id] = "live"
  <2>1. mem[id] \in {"none", "raw", "live", "freed"}
    BY DEF IInv, BoardCoapTypeOK
  <2>2. mem[id] # "none" /\ mem[id] # "raw" /\ mem[id] # "freed"
    BY DEF IInv, BlocksFit, Freeing
  <2> QED BY <2>1, <2>2
<1>2. reg' = reg /\ \A j \in Ids : mem'[j] = IF j = id THEN "freed" ELSE mem[j]
  BY DEF FreeBlock, IInv, BoardCoapTypeOK
<1>3. Seen' = [Seen EXCEPT ![id] = Null]
  <2>1. \A j \in Ids : Seen'[j] = IF j = id THEN Null ELSE Seen[j]
    BY <1>2 DEF Seen
  <2> QED BY <2>1 DEF Seen
<1>4. Seen[id] # Null /\ UNCHANGED Issued
  BY <1>1, <1>2 DEF Seen, Issued
<1> QED BY <1>3, <1>4 DEF Directory!Remove, Seen, Issued

LEMMA ClearSlotUnseen ==
  ASSUME IInv, Freeing, ClearSlot(app.id)
  PROVE  UNCHANGED <<Seen, Issued>>
<1>1. app.id \in Ids /\ mem[app.id] = "freed"
  BY DEF IInv, SlotsFit, BlocksFit
<1>2. /\ reg'.counter = reg.counter
      /\ \A j \in Ids : mem'[j] = IF j = app.id THEN "none" ELSE mem[j]
      /\ \A j \in Ids : j # app.id => reg'.slot[j] = reg.slot[j]
  BY DEF ClearSlot, IInv, BoardCoapTypeOK, Registries
<1> QED BY <1>1, <1>2, Unseen

LEMMA NextImplements == IInv /\ [Next]_vars => [Directory!Next]_<<Seen, Issued>>
<1> SUFFICES ASSUME IInv, [Next]_vars PROVE Directory!Next \/ UNCHANGED <<Seen, Issued>>
  OBVIOUS
<1>1. CASE UNCHANGED <<reg, mem>>
  BY <1>1, Unseen
<1>2. CASE UNCHANGED vars \/ CoapStep
  <2>1. UNCHANGED <<reg, mem>>
    BY <1>2
       DEF vars, CoapStep, HandleFixed, HandleList, HandleCallId, HandleCallName, Return, Send,
           Answered, Misreads, Ends, Perform
  <2> QED BY <1>1, <2>1
<1>3. ASSUME NEW n \in Names, NEW t \in Types, NEW c \in Policies, NEW f \in Args,
             NEW oom \in BOOLEAN, Alloc(n, t, c, f, oom)
      PROVE  UNCHANGED <<Seen, Issued>>
  <2>1. CASE reg' = reg /\ mem' = mem
    BY <1>1, <1>3, <2>1, Unseen
  <2>2. CASE /\ reg.counter \in Ids
             /\ reg' = [reg EXCEPT !.slot[reg.counter] =
                          [id |-> reg.counter, name |-> n, type |-> t, cache |-> c, arg |-> f]]
             /\ mem' = [mem EXCEPT ![reg.counter] = "raw"]
    <3>1. \A j \in Ids : j < reg.counter => j # reg.counter
      BY <2>2, IdRange
    <3>2. /\ reg'.counter = reg.counter
          /\ \A j \in Ids : j # reg.counter => reg'.slot[j] = reg.slot[j] /\ mem'[j] = mem[j]
      BY <2>2 DEF IInv, BoardCoapTypeOK, Registries
    <3> QED BY <3>1, <3>2, Unseen
  <2> QED BY <1>3, <2>1, <2>2, AllocWrites
<1>4. CASE Fill
  <2>1. app.id = reg.counter /\ app.id \in Ids /\ reg' = reg
    BY <1>4 DEF Fill, App, IInv, SlotsFit, Adding
  <2>2. \A j \in Ids : j < reg.counter => j # app.id
    <3>1. \A j \in Ids : j \in Nat
      BY IdRange
    <3> QED BY <2>1, <3>1
  <2>3. \A j \in Ids : j # app.id => mem'[j] = mem[j]
    BY <1>4 DEF Fill, IInv, BoardCoapTypeOK
  <2> QED BY <2>1, <2>2, <2>3, Unseen
<1>5. CASE Publish
  <2>1. app.id \in Ids /\ reg.slot[app.id] # Null
    BY <1>5 DEF Publish, App, IInv, SlotsFit, Adding
  <2>2. PICK i \in Ids : i = app.id
    BY <2>1
  <2>3. PICK e \in Entry : e = reg.slot[i]
    BY <2>1, <2>2 DEF IInv, BoardCoapTypeOK, Registries
  <2>4. Directory!Add(e)
    BY <1>5, <2>2, <2>3, PublishAdds
  <2> QED BY <2>4 DEF Directory!Next
<1>6. ASSUME NEW id \in Ids, unregister_lambda(id) PROVE Directory!Next
  <2>1. ~(id >= MaxLambdas \/ id >= reg.counter) /\ reg.slot[id] # Null
    <3>1. ById(reg, id) # Null
      BY <1>6 DEF unregister_lambda
    <3>2. ~(id >= MaxLambdas \/ id >= reg.counter)
      BY <3>1 DEF ById
    <3> QED BY <3>1, <3>2 DEF ById
  <2>2. id < reg.counter
    <3>1. reg.counter \in 0 .. MaxLambdas
      BY DEF IInv, BoardCoapTypeOK, Registries
    <3>2. id \in Nat /\ MaxLambdas \in Nat
      BY IdRange
    <3> QED BY <2>1, <3>1, <3>2
  <2>3. Directory!Remove(id)
    BY <1>6, <2>1, <2>2, FreeBlockRemoves DEF unregister_lambda, App
  <2> QED BY <2>3 DEF Directory!Next
<1>7. CASE Unregister2 \/ StopClear
  BY <1>7, ClearSlotUnseen DEF Unregister2, StopClear, App, Freeing
<1>8. CASE rs_start
  <2>1. reg'.counter = reg.counter /\ \A i \in Ids : mem'[i] = "none"
    BY <1>8 DEF rs_start, Initialised, IInv, BoardCoapTypeOK, Registries
  <2>2. Seen' = [i \in Ids |-> Null] /\ UNCHANGED Issued
    BY <2>1 DEF Seen, Issued
  <2>3. Directory!Forget
    BY <2>2 DEF Directory!Forget, Directory!Nobody, Seen, Issued
  <2> QED BY <2>3 DEF Directory!Next
<1>9. CASE rs_stop
  BY <1>1, <1>9 DEF rs_stop
<1>10. CASE StopNext
  <2>1. CASE reg.slot[app.id] = Null
    BY <1>1, <1>10, <2>1 DEF StopNext
  <2>2. CASE reg.slot[app.id] # Null
    <3>1. app.pc = "stop" /\ app.id < reg.counter /\ FreeBlock(app.id, "stopclear")
      BY <1>10, <2>2 DEF StopNext, App
    <3>2. app.id \in Ids
      <4>1. app.id \in 0 .. MaxLambdas
        BY DEF IInv, BoardCoapTypeOK
      <4>2. reg.counter \in 0 .. MaxLambdas
        BY DEF IInv, BoardCoapTypeOK, Registries
      <4> QED BY <3>1, <4>1, <4>2, IdRange
    <3>3. PICK i \in Ids : i = app.id
      BY <3>2
    <3>4. Directory!Remove(i)
      BY <2>2, <3>1, <3>3, FreeBlockRemoves
    <3> QED BY <3>4 DEF Directory!Next
  <2> QED BY <2>1, <2>2
<1>11. CASE Stopped
  <2>1. reg'.slot = reg.slot /\ reg'.counter = 0
    BY <1>11 DEF Stopped, IInv, BoardCoapTypeOK, Registries
  <2>2. Seen' = [i \in Ids |-> Null] /\ Issued' = {}
    BY <1>11, <2>1, StoppedEmpty DEF Seen, Issued
  <2>3. Directory!Clear
    BY <2>2 DEF Directory!Clear, Directory!Nobody, Seen, Issued
  <2> QED BY <2>3 DEF Directory!Next
<1>12. CASE AppStep
  BY <1>3, <1>4, <1>5, <1>6, <1>7, <1>8, <1>9, <1>10, <1>11, <1>12 DEF AppStep
<1> QED BY <1>2, <1>12 DEF Next

\* What the server can see changes as the abstract directory does, at every
\* single write of the application and without any lock: lambdas appear whole
\* under ids that nobody had, or disappear.
THEOREM BoardImplementsDirectory == Spec => ImplementsDirectory
  BY InitImplements, NextImplements, AlwaysInv, PTL
     DEF Spec, ImplementsDirectory, Directory!Spec, Seen, Issued
=============================================================================
