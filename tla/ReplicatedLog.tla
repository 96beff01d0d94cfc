--------------------------- MODULE ReplicatedLog ---------------------------
(***************************************************************************)
(* What the event store, the outbox and the cloud inbox promise together,  *)
(* seen from outside: one writer appends numbered events to a log whose    *)
(* entries never change, a replica receives them one at a time and in      *)
(* order, and the writer learns of each delivery after it has happened.    *)
(*                                                                         *)
(* EventSync implements this specification; see Abstract there.            *)
(***************************************************************************)
EXTENDS Naturals, Sequences

CONSTANT Payload    \* what an event may say

VARIABLES
  log,              \* the events of the device, in cursor order
  replica,          \* the events the receiver has stored
  acked             \* how many deliveries the device knows of

vars == <<log, replica, acked>>

Init ==
  /\ log = <<>>
  /\ replica = <<>>
  /\ acked = 0

Record ==
  /\ \E p \in Payload : log' = Append(log, [cursor |-> Len(log) + 1, payload |-> p])
  /\ UNCHANGED <<replica, acked>>

Replicate ==
  /\ Len(replica) < Len(log)
  /\ replica' = Append(replica, log[Len(replica) + 1])
  /\ UNCHANGED <<log, acked>>

Acknowledge ==
  /\ acked < Len(replica)
  /\ acked' = acked + 1
  /\ UNCHANGED <<log, replica>>

Next == Record \/ Replicate \/ Acknowledge

Spec == Init /\ [][Next]_vars

=============================================================================
