---------------------------- MODULE RiotSystem ----------------------------
(***************************************************************************)
(* The whole of riotsensors: the board of module Board and the connector   *)
(* of module Connector at the two ends of one serial line.  Each end keeps *)
(* a lambda registry of its own.  No id is ever negotiated: the connector  *)
(* counts the registrations it receives and trusts that it counts like the *)
(* board.                                                                  *)
(***************************************************************************)
EXTENDS Connector, Board

vars == <<connectorVars, boardVars, line, produced>>

Init == ConnectorInit /\ BoardInit /\ SerialInit

Next ==
  \/ ConnectorNext /\ UNCHANGED boardVars
  \/ BoardNext /\ UNCHANGED connectorVars

Spec == Init /\ [][Next]_vars

(***************************************************************************)
(* The libspt threads of both sides keep handling packets and an rs_start  *)
(* that has begun comes to its end.                                        *)
(***************************************************************************)
Fairness ==
  /\ WF_vars(RxStep /\ UNCHANGED boardVars)
  /\ WF_vars(SptStep /\ UNCHANGED connectorVars)
  /\ WF_vars(rs_started /\ UNCHANGED connectorVars)

FairSpec == Spec /\ Fairness

-----------------------------------------------------------------------------
\* TypeOK: the types of both sides.
TypeOK ==
  /\ ConnectorTypeOK
  /\ breg \in Registries
  /\ phase \in {"off", "starting", "on", "stopping"}
  /\ spt.pc \in {"idle", "answer"}
  /\ fault \in {"", "nullfunction", "overrun"}
  /\ names \subseteq Names

(***************************************************************************)
(* RegistriesWellFormed: on both sides, after any mixture of registering,  *)
(* unregistering, restarts and lost packets, an entry sits in the slot of  *)
(* its own id below the counter and is the only one that its name finds.   *)
(***************************************************************************)
RegistriesWellFormed == WellFormed(breg) /\ WellFormed(lreg)

(***************************************************************************)
(* IdsAgree: an id means the same lambda on both sides: when both have one *)
(* under it, name, type and cache policy are equal.  The connector counts  *)
(* the registrations it sees and is never told an id, so one registration  *)
(* that only one side accepts shifts every later id.  For applications     *)
(* that start first, never restart and never reuse a name, on a line that  *)
(* loses nothing.                                                          *)
(***************************************************************************)
Same(e, f) == e.name = f.name /\ e.type = f.type /\ e.cache = f.cache

IdsAgree ==
  \A i \in Live(breg) \cap Live(lreg) : Same(breg.slot[i], lreg.slot[i])

(***************************************************************************)
(* ResultsFitTheirLambda: the lambda whose cache a result is written to is *)
(* the one that made it, in name and in type: no value is served under     *)
(* another lambda's name, and the string handler frees nothing but         *)
(* strings.  The connector looks at neither, only at the id.               *)
(***************************************************************************)
ResultsFitTheirLambda ==
  rx.pc \in {"free", "store", "noerror", "cached", "broadcast"} /\ rx.pkt.ptype = "RESULT" =>
    LET e == lreg.slot[rx.pkt.id] IN
      e # Null => e.name = rx.pkt.name /\ e.type = rx.pkt.type

(***************************************************************************)
(* NullNeverCalled: no call that comes over the line runs a lambda without *)
(* a function.  The board checks nothing: it relies on the connector, which*)
(* answers for CACHE_ONLY lambdas from its cache.                          *)
(***************************************************************************)
NullNeverCalled == fault # "nullfunction"

(***************************************************************************)
(* LambdasArrive: every lambda that the application has registered becomes *)
(* known to the connector, if the line loses nothing and its id is one that*)
(* is not negative as an int8_t: register_lambda takes the others, from 128*)
(* on, for errors of the registry and announces none of them (rs.c:41).    *)
(***************************************************************************)
LambdasArrive ==
  \A i \in Ids : i < SignBit => (breg.slot[i] # Null ~> lreg.slot[i] # Null)

(***************************************************************************)
(* What the documentation says and the code does not do.                   *)
(***************************************************************************)

\* rs_packets.h:32-34 - "A lambda has been unregistered": once the line is
\* empty and every packet handled, no lambda that the board has unregistered
\* is still registered at the connector.
UnregistrationsArrive ==
  (toLinux = << >> /\ rx.pc = "idle") => Live(lreg) \subseteq Live(breg)
=============================================================================
