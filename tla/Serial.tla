------------------------------- MODULE Serial -------------------------------
(***************************************************************************)
(* The serial line between the board and the Linux connector, and the      *)
(* packets of protocol/include/rs_packets.h.  The line is libspt's (not    *)
(* part of this repository): spt_send_packet hands over a packet and every *)
(* caller ignores what it returns; one thread on the other side passes     *)
(* each packet that arrives to handle_received_packet, in order.           *)
(***************************************************************************)
EXTENDS Naturals, Sequences

CONSTANTS
  LineBound,    \* packets in flight in one direction, a bound of the model
  Lossy         \* whether a packet can get lost on the line

ASSUME SerialAssumption == LineBound \in Nat \ {0} /\ Lossy \in BOOLEAN

VARIABLES
  toLinux,      \* packets on their way from the board
  toBoard,      \* packets on their way to the board
  produced      \* ghost: values made on the board so far; the k-th value is k

line == <<toLinux, toBoard>>

SerialInit == toLinux = << >> /\ toBoard = << >> /\ produced = 0

\* A full line makes the sender wait; a lost packet never shows up.
Put(packet, old, new) ==
  \/ Len(old) < LineBound /\ new = Append(old, packet)
  \/ Lossy /\ new = old

SendToLinux(packet) == Put(packet, toLinux, toLinux')
SendToBoard(packet) == Put(packet, toBoard, toBoard')

-----------------------------------------------------------------------------
(***************************************************************************)
(* Packets.  `ptype` is the type byte the sender wrote and `layout` the    *)
(* struct it filled: a receiver dispatches on the first and then insists   *)
(* on the size of the struct that belongs to it.  No two structs with a    *)
(* fixed size have the same size, except the error result and the          *)
(* registration (15 bytes), whose type bytes differ.                       *)
(***************************************************************************)
RegisteredPacket(n, t, c) ==
  [ptype |-> "REGISTERED", layout |-> "REGISTERED", name |-> n, type |-> t, cache |-> c]

\* The board's unregister_lambda passes "REGISTERED" as ptype.
UnregisteredPacket(ptype, id, n) ==
  [ptype |-> ptype, layout |-> "UNREGISTERED", id |-> id, name |-> n]

\* RESULT_INT, RESULT_DOUBLE and RESULT_STRING, told apart by `type`.
ResultPacket(t, id, n, v) ==
  [ptype |-> "RESULT", layout |-> "RESULT", type |-> t, id |-> id, name |-> n, value |-> v]

ErrorPacket(id, code) ==
  [ptype |-> "RESULT_ERROR", layout |-> "RESULT_ERROR", id |-> id, code |-> code]

CallByIdPacket(id, t) == [ptype |-> "CALL_BY_ID", id |-> id, type |-> t]
CallByNamePacket(n, t) == [ptype |-> "CALL_BY_NAME", name |-> n, type |-> t]
=============================================================================
