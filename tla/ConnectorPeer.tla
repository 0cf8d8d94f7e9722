--------------------------- MODULE ConnectorPeer ---------------------------
(***************************************************************************)
(* The connector with any board that keeps to the packets of rs_packets.h. *)
(* The peer numbers its lambdas as the connector does: whether the real    *)
(* board does is the question of module RiotSystem.                        *)
(***************************************************************************)
EXTENDS Connector

CONSTANTS
  Offers,           \* the lambdas the peer may register
  PeerErrors,       \* whether the peer reports errors
  PeerUnregisters,  \* whether it unregisters lambdas
  PeerPushes,       \* whether it sends results that nobody asked for
  MaxProduced       \* values made by the peer, a bound of the model

ASSUME PeerAssumption ==
  /\ Offers \subseteq [name : Names, type : Types, cache : Policies]
  /\ PeerErrors \in BOOLEAN /\ PeerUnregisters \in BOOLEAN /\ PeerPushes \in BOOLEAN
  /\ MaxProduced \in Nat

vars == <<connectorVars, line, produced>>

Init == ConnectorInit /\ SerialInit

\* One registration in flight at a time keeps the ids in step.
PeerRegister ==
  /\ toLinux = << >>
  /\ \E o \in Offers : SendToLinux(RegisteredPacket(o.name, o.type, o.cache))
  /\ UNCHANGED <<connectorVars, toBoard, produced>>

PeerUnregister ==
  /\ PeerUnregisters
  /\ \E id \in Live(lreg) : SendToLinux(UnregisteredPacket("UNREGISTERED", id, lreg.slot[id].name))
  /\ UNCHANGED <<connectorVars, toBoard, produced>>

\* The lambda a call packet is for; a peer that does not know it stays silent.
Called(p) == IF p.ptype = "CALL_BY_ID" THEN ById(lreg, p.id) ELSE ByName(lreg, p.name)

\* Take the next call, evaluate the lambda and answer.
PeerAnswer ==
  /\ toBoard # << >>
  /\ toBoard' = Tail(toBoard)
  /\ LET e == Called(Head(toBoard)) IN
       \/ e = Null /\ UNCHANGED <<toLinux, produced>>
       \/ /\ e # Null /\ produced < MaxProduced
          /\ produced' = produced + 1
          /\ SendToLinux(ResultPacket(e.type, e.id, e.name, produced'))
       \/ /\ e # Null /\ PeerErrors
          /\ SendToLinux(ErrorPacket(e.id, CallNotFound))
          /\ UNCHANGED produced
  /\ UNCHANGED connectorVars

\* A result nobody asked for (send_result_lambda_*).
PeerPush ==
  /\ PeerPushes
  /\ produced < MaxProduced
  /\ produced' = produced + 1
  /\ \E id \in Live(lreg) :
       SendToLinux(ResultPacket(lreg.slot[id].type, id, lreg.slot[id].name, produced'))
  /\ UNCHANGED <<connectorVars, toBoard>>

PeerNext == PeerRegister \/ PeerUnregister \/ PeerAnswer \/ PeerPush

Next == ConnectorNext \/ PeerNext

Spec == Init /\ [][Next]_vars
=============================================================================
