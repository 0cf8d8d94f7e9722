# Verification of riotsensors

riotsensors lets the application on a RIOT board register named functions
("lambdas") that a REST server on a Linux machine can call over a serial line.
This directory holds TLA+ models of that system, the TLC runs that check them
on small instances, and proofs, checked by TLAPS, for instances of any size.

    tlasany M.tla                          parse a module
    tlc -workers 2 -config X.cfg MCFoo     model-check one run
    tlapm M.tla                            check the proofs of a module

`PROJECT.json` lists the runs, the source lines of every definition, the
hazards, the findings and the theorems.

## The system

| Part | Source | State | Operations |
|---|---|---|---|
| lambda registry | `protocol/lambda_registry.c` | array of 255 entry pointers, 8-bit counter | register, unregister, look up by id and by name, init, free |
| packets | `protocol/include/rs_packets.h`, `protocol/rs_packets.c`, `protocol/ieee754_network.c` | none | layouts, byte order, packing of doubles |
| board | `riotmodule/rs.c` | a registry, `rs_spt_started` | register/unregister lambdas, push results, answer calls, start, stop |
| board CoAP server | `riotmodule/rs_coap_server.c` | shared response buffers | list lambdas, call one by id or name |
| connector | `linuxconnector/rs_connector.c` | a registry, per lambda a cached value, an error, a flag and a condition variable; one mutex | handle packets, call by id or name, start, stop |
| REST server | `restserver/*.cpp` | two server threads | call, list, show the cache, kill |
| libspt, Pistache, libcoap, microcoap | submodules, not in the repository | the serial line | send a packet, deliver packets in order on a thread |

Board and connector each link their own copy of the registry. The board sends
"registered", "unregistered", "result" and "error" packets; the connector sends
"call by id" and "call by name". An id is never part of a registration packet:
the connector registers what it hears of and counts like the board.

What is hard:

* **Threads.** In the connector, HTTP and CoAP threads call lambdas under
  `accessing_registry`; the libspt thread changes the registry, the cached values
  and the errors, and wakes the callers, without ever taking it. On the board
  the application, the libspt thread and the CoAP server share the registry with
  no lock at all.
* **Messages.** No packet is acknowledged or repeated, nothing ties an answer to
  the call it answers, and a call gives up after one second, so an answer may
  come late.
* **Restarts.** Either side may restart alone; the other is not told.
* **Limits.** Ids are never used again, the array has 255 slots, ids from 128 on
  do not fit the `int8_t` that returns them, a 12 character name fills its field.

What makes each part correct:

* *registry*: an entry sits in the slot of its id below the counter; names are
  unique; both lookups agree; it implements a directory that never reuses an id.
* *connector*: the mutex is held exactly where it must be; every call returns;
  a return code fits the cache policy; a value taken from the cache has been written;
  a byte that nobody wrote is reported once at most; a cache-only lambda is never
  called; an error is never reported as success.
* *board*: no function that is NULL is called; an answer belongs to its lambda.
* *both*: an id means the same lambda on both sides; registrations (of ids that are not
  negative) and unregistrations arrive.
* *REST, HTTP and CoAP front ends*: every request is answered; an answer by id describes
  the lambda that was called, as long as it is registered; a listing misses no lambda; a
  type that is none never reaches the board.
* *board CoAP server*: it never reads a half-written entry, and what it sees of the
  registry changes as the directory does; what can leave the board undefined is known.
* *codec*: packing ends, gives the bits of IEEE 754, and a value arrives with its sign,
  in order and close to what was sent.

## Modules

    Registry           pure operators, one per function of lambda_registry.c
      LambdaRegistry     the registry as a machine      --implements-->  LambdaDirectory
        MCLambdaRegistry, LambdaRegistryProofs
      RegistryTheorems   lemmas about the operators
    Serial             line, packets
    Connector          EXTENDS Registry, Serial
      ConnectorTheorems  its invariant, whoever is at the other end
      ConnectorPeer      the connector with any board that keeps to the packets
        MCConnectorPeer, ConnectorProofs
      Rest               EXTENDS ConnectorPeer: the two server threads above it
        MCRest, RestProofs
    Board              EXTENDS Registry, Serial
    RiotSystem         EXTENDS Connector, Board: both ends of one line
      MCRiotSystem, RiotSystemProofs
    BoardCoap          EXTENDS Registry: application and CoAP server on the board,
                       write by write     --implements-->  LambdaDirectory
      MCBoardCoap, BoardCoapProofs
    Codec              a double on its way
      MCCodec, CodecProofs

**Registry.** A registry is the record `[slot, counter]` of the static array and
`lambda_counter`. An entry and the pointer to it are the same thing, because the
array owns every entry and nobody writes to one. Names fall into three sets, by
what the code can tell apart: `ShortNames` (1 to 11 characters), `FullNames`
(exactly 12: `strcpy` puts the terminator over the type byte, which is then
written, so `strcmp` never matches the field) and `BadNames` (refused).
`RegisterFailure` has the checks in the order of the code, `AsInt8` the narrowing
of the return value. `lambda_registry_register` with `oom` is the failed `malloc`.

**LambdaRegistry** calls these operators in any order. **LambdaDirectory** is what
a user of the header may expect: a partial map from ids to lambdas, findable
names unique, no id issued twice until everything is cleared. The refinement
maps `dir` to the array and `issued` to the ids below the counter.

**Serial.** Two bounded FIFO queues. A packet is a record with its type byte
(`ptype`) and the struct it was filled as (`layout`), since receivers dispatch on
the first and insist on the size of the second. `Lossy` allows a packet to
vanish. A value is the number of the evaluation that made it (`produced`), so that
age and origin can be compared; 0 is memory nobody wrote, -1 a freed string.

**Connector.** `calls[c]` is the control state of a thread in
`call_lambda_by_id`/`_by_name`, one state per statement at which another thread
can interfere:

| State | Code |
|---|---|
| `lock` .. `cache` | `Lock`, `Lookup`, `CheckType`, `CheckCache`: rs_connector.c 289-305 |
| `send`, `sent` | `Send`, `Wait`: 306-317, 215-220 |
| `waiting`, `woken`, `timedout` | inside `pthread_cond_timedwait`; `Timeout`, `SpuriousWakeup`, `Relock` |
| `take` | `TakeResult`: 249-253 |
| `late`, `error`, `clear` | `LookForError`, `ReadError`, `ClearError`: 221-225, three accesses to `last_call_error` |
| `fallback` | `FallBack`: 227-247 |
| `lost` | `Stray`: the thread has followed a pointer into freed memory and leads nowhere |

The two functions differ in the lookup and the packet only and are one machine.
`rx` is the libspt thread: `Receive` dispatches the next packet, and for results
each store to memory the callers read is a step (`RxFree`, `RxStore`, `RxNoError`,
`RxCached`, `RxError`, `RxBroadcast`). Reading a flag and then the value is one step
of a caller: the flag of a lambda never goes back to false, so the pair is what
reading both at the time of the second read gives.

*Freed memory.* An unregistration gives the entry back (`RxUnregister`, after waiting for
sleeping callers as `pthread_cond_destroy` of glibc does) and clears its pointer in the step
after it (`RxClear`); callers and web handlers do not notice. `Gone(id)` is the time from the
first of these on. Whoever still has the pointer may read the bytes that were there, those
of a lambda that has been registered since and whose entry `malloc` put into the same block,
or anything else: `LambdasRead` are the lambdas whose `arg.obj` it may find (such a block can
only have gone to a later id), `TypesRead` and `PoliciesRead` what type and policy,
`Found` what a lookup by name may match. `FreedTypes` is what the type byte of freed memory
may be. If the bytes are no pointer the thread is `lost`, which is as much as can be said of
undefined behaviour (`Stray`; the REST server ends there, `CallStrays`). The object behind
`arg.obj` is never freed by the code, so it is always that of the lambda it was made for.
`calls[c].arg` is the object that `wait_lambda_result` has read at its beginning.

*Fresh memory.* `Leftovers` are the bytes that `last_call_error` may hold in the memory
of a new lambda, which the code does not initialise: any bytes. `raw` marks, as a ghost, the one
that is still there, and the call that has returned it.

**ConnectorPeer** gives the connector a peer that registers, unregisters, answers,
reports errors and pushes values as rs_packets.h allows.

**Board.** The application's calls, `rs_start` in two steps (the libspt thread runs before
`rs_spt_started` is set), `rs_stop` in two, the call handler in two: the lambda is
evaluated (`HandleCall`), then looked up again to answer (`Answer`), and the application
may act in between. A function is `Func` or `Null`; evaluating `Null` sets `fault`, and so
may a string result, which is copied over the end of its packet on the stack
(`SendResult`): the board goes on or is at its end. `Scope` says what the application of
an instance does: every behaviour in it is legal, and some properties hold only without
some of them. Registering is one step here; `BoardCoap` takes it apart.

**RiotSystem** puts both on one line; `toLinux`, `toBoard` and `produced` are shared.

**Rest.** `web[c]` holds the request that a server thread handles and the locals of its
handler. `Asks` is the set of requests of an instance; a request says how its id or name
is written and whether its type is one, since the front ends differ in what they refuse
(`HttpCall` answers 400 and goes on, `CoapBadCall` returns, `Throws` ends the process).
`Calling` starts the connector's call, which then runs as in `Connector`; `LookAgain` is
the second lookup without the lock, and `Assemble` reads what it found, in a step of its
own. Listings go lambda by lambda, look (`ListLook`) and print (`ListPrint`) apart.
`lambda_id_t` is a remainder by `MaxLambdas + 1`, as `uint8_t` is one by 256. What `LookAgain`
has found may be freed before `Assemble` reads it. `Success` then describes the lambda, one
that has got its block, or none (id `Null`), or the process ends; the value is that of
the call in each case. A value that is printed as a string must be the pointer to one, or the
process ends as well. `down` says which mistake ended it.

**BoardCoap.** RIOT runs the ready thread of the highest priority, and the CoAP thread is
created above the application's. So a handler is one step up to the lambda's function and
one after it, and the application's calls are split at their writes: `Alloc`, `Fill`,
`Publish` for a registration, `FreeBlock` and `ClearSlot` for an unregistration, and the
same pair in the loop of `rs_stop`. `mem` says what the block of a slot is (none, not yet
written, live, freed). While a function runs the server keeps a pointer to its lambda:
`coap.at` is the slot that owns the block it leads to, `Null` while nobody does, and the
next `Alloc` may take that block (`MayReuse`), so that the answer (`Return`) describes
another lambda. The order of these writes is that of the source; the code has neither
`volatile` nor a barrier to keep a compiler to it. `down` names what leaves the board
without a defined state. An answer is the set of lambdas it describes; `ListRoom` is what
fits the buffer. The libspt thread only reads the registry and is left out here; it is
part of `Board`.

**Codec.** A double is an integer number of smallest subnormals, so that all arithmetic is
exact. `Begin`, `Halve`, `Double` and `Emit` are `pack754` with its two loops, `Rounded` is the
store of the pattern through the `double` of the packet, `Converted` the way back, `Unpacked`
is `unpack754`. The widths are constants; `Pow2` is the shift `1LL << n`.

## Runs

| Run | Instance | Shows |
|---|---|---|
| `registry` | 3 slots, sign bit 2, 4 names, 2 types | consistency, lookups, refinement |
| `connector_safety` | 2 callers, 1 lambda of any policy and type, errors, pushes, unregistration, restart, spurious wakeups | mutex, return codes, cached values, bytes of fresh and of freed memory, cache-only lambdas are never called |
| `rest` | 2 server threads, 2 ids, 1 name that comes back with another type, 10 requests, lossy line | requests are answered, answers and listings describe what was asked for, what ends the server |
| `system_in_step` | 2 ids, 2 names, 2 types, pushes and unregistration, nothing lost | ids agree, results fit, NULL is never called, registrations arrive |
| `system_anything` | 2 ids, losses, restarts of both sides, names used again, registering before `rs_start` | each registry stays well formed |
| `board_coap` | 2 slots, 3 names, 14 requests, room for one entry in a listing | nothing half-written is read, refinement, what can go wrong |
| `codec` | 3 bits of exponent, 3 of significand, every value, two in a row | IEEE bits, nearness, order, termination |
| `no_name_twice`, `error_as_success`, `lost_wakeup`, `stale_no_cache`, `unregister_lost` | the smallest instance each | the code differs from what it documents (see Findings) |

*Why the bounds are enough.* Three slots let the registry fill up, keep a hole in the
middle and go on past it; with sign bit 2 the last id is negative as an `int8_t`, as ids
128 to 254 are with 255 slots. In the connector everything but the mutex and the memory
that was freed is per lambda, so one lambda and two callers show every race: a caller with
another and with the libspt thread. A freed block that another lambda gets takes a second
lambda, which `rest` has, and the proofs. Symmetry between callers is sound: no definition names one. In the system two ids
are what a shifted id needs, one name suffices where names may be used again. `LineBound`
(1 or 2 packets each way) makes senders wait, as a full line does. With one, three packets
can still be under way to Linux: the one in handling, the one on the line, and the answer
that the board waits to send. `MaxProduced` bounds evaluations; a second value is there
where age matters (`stale_no_cache`). What `malloc` leaves in `last_call_error` is in
`connector_safety` one of 0, the code of a call from the cache, one of the board's errors
and a byte that is none; elsewhere it is `RS_CALL_CACHE`, which the callers take for an
answer. Freed memory is read as any type of the instance or as none; in `rest` the type
that is none is left out, which would make five times as many states (`connector_safety`
has it, and the proofs). In `rest` both handlers, both lookups and a listing overlap with
a lambda that goes and comes back with another id and type; id 3 is cut to a legal one and
-1 to the one that stands for no lambda. In `board_coap` two slots are reached, stopped,
and reached again under the same ids. The codec's two loops, the rounding and the four
kinds of exponent do not depend on the widths; with 3 and 3 bits every kind of value
occurs and the stored pattern loses 3 bits. Deadlock is checked but where the system may
stop: after an exception or an undefined step in `rest` and `board_coap`, after a string
has overrun its packet on the board in `system_in_step`, and after two values in `codec`.

*Fairness.* `RestFairness`: strong fairness of each server thread's next step
(`ThreadStep`), in its handler and in the connector. A thread is only disabled where it waits
for the mutex or for a result. The scheduler runs it, the second of a timeout does
end, and it gets the mutex if the other thread and the libspt thread give it up again and
again (pthread mutexes are not queues, so weak fairness would not do). The lossy
line of `rest` never holds a sender up: a packet without room is lost. Nothing is
assumed of the board or of the libspt thread.
`Fairness` of RiotSystem: the libspt threads of both sides run, and an `rs_start` comes to
its end. In `Codec` the loops run on (weak fairness of `Step`).

*Conditions.* `IdsAgree`, `ResultsFitTheirLambda` and `LambdasArrive` are checked for
applications that start before they register, never restart, never register a name
again that they have unregistered and use no name of 12 characters, on a line that loses
nothing. Each condition is needed.
Losing a registration shifts every later id. Registering before `rs_start` puts the
board's counter ahead, because `init_lambda_registry` keeps it. Using a name again is
accepted by the board and refused by the connector, which never heard of the
unregistration; a name of 12 characters is accepted by the board and too long for the
connector, which finds no terminator in its field. `LambdasArrive` is about the ids that are
not negative as an `int8_t`, 0 to 127: `register_lambda` takes the result of the others for an
error and announces none of them (rs.c:41-43). Its instance has no others: with a third
id, a negative one, the liveness check takes more time than a run should. `IdsAgree` and
`ResultsFitTheirLambda` are proved with negative ids.

What is left in fresh memory and read from freed memory is not a condition of any run. It is
an exception in the properties that it breaks, and each says so: `CodesFitPolicies` excepts the
call that returns the byte nobody wrote, which `JunkReportedOnce` bounds, and lambdas that have
been unregistered; `AnswersDescribeTheCalled`, `CacheOnlyNeverCalled` and
`UnknownTypesStayOffTheLine` are about lambdas that are registered. `RepliesCarryValues`
says nothing of a code that came from `last_call_error`, nor of a caller that is woken
before any result of its lambda has come: finding 1 is such a wakeup.

Every property has a mutant: a plausible bug in one mapped definition with which TLC
finds the property violated in the same run. They stand before the definition they
change and are marked "Mutant".

## Findings

1. An error packet wakes the caller, which returns `RS_CALL_SUCCESS` with a value
   nobody wrote (`error_as_success`): the error is looked at after a timeout only.
2. An answer that is handled between `spt_send_packet` and `pthread_cond_timedwait`
   wakes nobody; the call sleeps its second and reports a timeout (`lost_wakeup`).
3. The late answer of a call that timed out is returned by the next call of the lambda,
   for `RS_CACHE_NO_CACHE` too (`stale_no_cache`).
4. `unregister_lambda` on the board writes `RS_PACKET_REGISTERED` into its packet, which
   the connector drops for its size: no lambda ever goes away there (`unregister_lost`).
5. A 12 character name, the documented maximum, is accepted any number of times and
   found by no lookup (`no_name_twice`).

`NegativeMeansFailure` in LambdaRegistry states what the header says of the result of a
registration; it fails for ids from 128 on. No run checks it.

Seen in the models, without a document or a test that says otherwise:

* A lambda with an id of 128 or more is registered on the board, which takes the negative
  result for a failure and announces nothing: the connector never hears of it. The ids
  below are not shifted by it, since none of the later ones is announced.
* `last_call_error` of a new lambda is not initialised (rs_connector.c:43-48). The first call
  of it that times out returns the byte that `malloc` left there, unless a result or an error
  has come before. It may be any number, so also the code of an answer from the cache: the
  web server then answers 200 with a value nobody made.
* A caller whose call has timed out reads `last_call_error` twice, first to see whether there
  is one. A result that clears it in between makes the call return `RS_CALL_SUCCESS`
  without a value.
* An entry that has been unregistered is freed while calls and web requests still point to it.
  If the next registration gets its block, the answer describes that lambda, id and type, with
  the value of the other (rs_server.cpp:22-26). On the board the CoAP server does the
  same when a lambda is unregistered while its function runs (rs_coap_server.c:308-312).
* A string result is copied to a packet on the stack that has room for one character
  (rs.c:212-216): any but the empty string overwrites what lies behind it.
* A `RS_CACHE_CALL_ONCE` lambda is called again by a caller that looked into the cache
  just before it was filled.
* Doubles change on the way by up to 2^10 representable values, because rs_packets.c:44
  stores the 64-bit pattern in a `double`; rs_packets_test.cpp:63-72 sends 42, which does
  not. Subnormals arrive as other values, NaN as 0, and `pack754` never returns from an
  infinity.
* Over HTTP a bad type is answered with 400 and the handler goes on: it calls and answers
  again. `kill` ends one of the two threads over HTTP and nothing over CoAP, which answers
  nevertheless.
* After a call by name the name is looked up again: a lambda registered anew in between
  lends its type to the value. A call whose lambda has gone ends in a NULL pointer.
* A CoAP request with an option without value, or with a number that is no `int`, ends the
  REST server with an exception.
* On the board a name of 12 characters or more in a CoAP request overruns the array of
  the handler, a list of more than about eight lambdas the 500 bytes of the answer, whose
  remaining length wraps around. The entries of that list have no comma between them.
* The board's CoAP server evaluates `CACHE_ONLY` lambdas without a function, and reads an
  entry that the application is freeing. A second `rs_start` would create its thread once
  more on the same stack; the models leave that out.

## Proofs

The number of slots, the width of the result and the sets of names, types, policies and
arguments are arbitrary, under `RegistryAssumption` (at least one slot, ids fit in a byte of
which half is negative, the name sets are disjoint) and `NullAssumption` (NULL is no
entry).

* `RegistryTheorems`: each operator keeps a registry typed and well formed.
  The central lemma is `ByNameFinds`: in a well-formed registry the loop that
  stops at the first match finds the only match. It makes the duplicate check
  right (`ByNameMissing`, `Accepted`), which makes `NamesUnique` inductive.
* `LambdaRegistryProofs`: `IInv`, the type of the array with `Consistent`, is
  inductive. `NamesUnique` alone is not: without `SlotsBelowCounter` an entry
  above the counter is missed by the duplicate check. From it follow
  `RegistryIsConsistent`, `TypeCorrect`, `LookupsAlwaysAgree` and
  `RegistryImplementsDirectory`, in which every step is mapped to a step of the
  directory or a stutter.
* `ConnectorTheorems`: the invariant of the connector, `ConnectorInv`, and that every
  step of it and every step of whoever is at the other end keeps it. The callers, the
  requests and the length of the line are arbitrary. `MutexHeld` needs little more than
  the types. `CacheOnlyNeverCalled` does not follow from them: between the look at the
  policy and the call the libspt thread runs without the lock. `Held` says that a call
  which has found its lambda has an id below the counter; a registration writes the slot
  at the counter, so it never replaces that lambda, an unregistration can only empty its
  slot, and a restart ends all calls. That makes `Checked`, the policy of the
  lambda of a call about to be sent, inductive.
* `ConnectorProofs`: the theorems for the connector with any peer, `MutexAlwaysHeld`,
  `ConnectorTypeCorrect`, `ConnectorRegistryWellFormed`, `CacheOnlyIsNeverCalled`,
  `ReturnCodesFit`, `JunkIsReportedOnce` and `RepliesAlwaysCarryValues`. The last three need
  more than `ConnectorInv` and have no hypotheses on memory, the board's errors, wakeups
  or restarts. A policy is read before the call and again after the timeout, without the
  lock of the libspt thread, and what a call returned must still fit when it has ended.
  `CallsBound` says that the id a call keeps, also after it has ended, stays below the
  counter and, as long as its lambda is registered, suits the request in name and type, so
  that it is the same lambda every time.
  `CodesInv` then says that from its decision to ask the board on the lambda of a call is not
  `CACHE_ONLY`, and that every error in a lambda, on the line or with the libspt thread is one
  of the board's or marked as a byte that nobody wrote. `JunkInv` says of that mark that it is
  in one place: with the lambda, or with one call that is about to clear it or has cleared
  it. It holds because the test, the reading and the clearing happen with the mutex held and
  because the libspt thread only takes the mark away. `CachedInv` says that a value marked as
  cached has been written, at every store of the handler: the value comes before the flag.
  `FirmNotGone`, used in all of these, says that a registered lambda is read as itself.
* `RestProofs`: every safety property of `rest`, for any number of threads, requests and
  lambdas, and the action property `ListingsComplete`. `RestInv` keeps `ConnectorInv` (the
  handlers call the connector as any caller may, which is why `RestAssumption` lets
  `Requests` be all of them), `CallsBound` and that a cached value was made (`MadeInv`),
  and adds `HandlersInv`, for each control state of a handler: `Serves` ties the handler
  to the call it has made (the request, the id that was found, whether the call is over),
  `Given` to its answers, and `Listed` says of a listing that it has shown every lambda of
  its type below its index that is registered now. `Listed` is inductive because lambdas
  only come at the counter, which the index has not passed. `DownInv` says what ended the
  process. `AnswersAlwaysDescribeTheCalled` holds whatever freed blocks are read as: the
  block of a registered lambda is not among them.
* `RiotSystemProofs`: first, for every application (every `Scope`) and every line,
  `ConnectorInv` with `BoardInv`, the types of the board and its well formed registry. What
  there is to show is that the board's packets are ones the connector knows: an answer is
  made from a lambda that was just looked up. `RegistriesAlwaysWellFormed`,
  `SystemTypeCorrect` and `SystemCacheOnlyNeverCalled` follow.

  Then the agreement of both sides, under the conditions named above (`InStep`). It is not
  inductive: whether an id will mean the same depends on what is on the line. `AgreeInv` says
  that there is a history, a function from ids to the entries that the board gave them, gone
  or not, with which everything agrees: both registries (`History`, `Mirrors`), every
  result on the line and in the hands of the libspt thread (`Describes`), every call
  (`Callable`, `Finds`), and that the registrations on the line carry on where the
  connector's counter is and lead up to the board's (`Numbering`, a second function, from
  places in the queue to ids). Each step of either side extends the two functions or leaves
  them. Names in the history are distinct, so the connector accepts each registration and
  a call by name finds the lambda it was checked for. `IdsAlwaysAgree`,
  `ResultsAlwaysFitTheirLambda` and, for boards whose application makes no local calls,
  `NullIsNeverCalled` follow. The ids whose result is negative as an `int8_t` are part of it
  (`Told`): they are in the history and never announced.

Besides the registry's assumptions these use `ConnectorAssumption` (types and policies are
those of rs_constants.h, callers and ids are not NULL, requests are well formed),
`SerialAssumption`, `PeerAssumption` and `BoardAssumption` (the bounds are numbers, a
function is not NULL).

* `BoardCoapProofs`: every property of `board_coap`, for any number of slots and any
  requests. A registry is not well formed between two writes, so the invariant says what
  is true there: `BlocksFit`, that a block is unwritten only in the slot being added and freed
  only in the slot being cleared, and `SlotsFit`, that entries sit below the counter but
  for that one. From it follow `RawNeverRead`, `DiesOnlyOfThese`, `BoardCoapTypeCorrect` and
  `BoardImplementsDirectory`: of a registration's three writes the server sees the last
  one, the counter, and of an unregistration's two the first. After the
  function of a lambda the server reads a live entry, that of the lambda or of another, or the
  block was given back while the function ran.

* `CodecProofs`: every safety property of `codec`, for any widths with
  `2 <= ExpBits <= SigBits` (`CodecAssumption`), so for the 11 and 52 bits of a double. No
  law of powers is assumed. `Highest` finds the last point of a bounded, downward closed set
  from its cardinality, `Inductive` is induction over numbers for a set of them, and with it
  `Powers` shows that the recursion of `Pow2` has a solution, which is why the model has that
  function and not `2 ^ n`. `ValueUp` says that patterns are ordered as the values they
  stand for, the infinity after the largest; so `Encoding` finds one pattern only. The
  invariant of the loops, `Normalising`, is that the significand stays and the exponent
  approaches 0 from the side where it was: `fnorm` is the magnitude of the
  significand with what is left of the exponent, so the loops end with the exponent that
  IEEE 754 prescribes (`Packed`). `Nearest` and `Landmark` bound the rounding:
  it moves a pattern by half the spacing at most and passes no multiple of `Hidden`, hence
  neither the sign bit nor the subnormals. That is where `ExpBits <= SigBits` is needed: with
  3 and 1 bits, TLC finds a normal value that arrives as a subnormal.
  `RoundedUp` says that rounding is monotone, also where the spacing doubles. `PackingIsIEEE`,
  `ValuesArriveClose`, `OrderIsKept` and `CodecTypes` follow.

Only model-checked: liveness (`RequestsAnswered`, `LambdasArrive`, `ConversionEnds`),
which TLAPS does not reach.

## Not modelled

* The byte order of ints, lengths and patterns in packets: what one side turns the other
  turns back.
* The text of answers, the parsing of CoAP options (`rs_coap_utils.c`) and the
  `stringify_` functions. What a parsed option can be is an input of the models.
* Out of memory anywhere but in the registry: the other callers of `malloc` do not look.
* What a wait on a condition variable does that has been destroyed, and what the board does
  once a string has overrun its packet: undefined, in the models a wait like any other and
  the end of the board or nothing.
* Lambdas whose functions register or unregister lambdas themselves.
* The libraries in submodules, whose source is not in the repository.
* The composition of `BoardCoap` with the system: `Board` has the CoAP server's calls as
  one action, `LocalCall`.

## Plan

1. `ReturnCodesFit` and `RepliesAlwaysCarryValues` for the connector with the real board: the
   packets of `Board` are some of those of `ConnectorPeer`, so their invariants carry over, as
   that of `CacheOnlyNeverCalled` has done.
2. `BoardCoap` with the libspt thread of the board in place of the one action `LocalCall`.
