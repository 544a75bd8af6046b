---------------------------- MODULE DurableWrite ----------------------------
(***************************************************************************)
(* What a replica promises of the changes written on it, whatever the      *)
(* network does: a change is acknowledged as published only once a relay   *)
(* holds it, a relay only ever holds changes that were written, and the    *)
(* device's store is erased (logout) only when every written change was    *)
(* acknowledged.                                                           *)
(***************************************************************************)
CONSTANT Change

VARIABLES
  written,       \* changes committed on this device
  delivered,     \* changes a relay holds
  acknowledged,  \* changes this device knows a relay holds
  erased         \* the device's store was cleared

vars == <<written, delivered, acknowledged, erased>>

Init == written = {} /\ delivered = {} /\ acknowledged = {} /\ erased = FALSE

Write(c) ==
  /\ ~erased /\ c \notin written
  /\ written' = written \cup {c}
  /\ UNCHANGED <<delivered, acknowledged, erased>>

Deliver(c) ==
  /\ c \in written
  /\ delivered' = delivered \cup {c}
  /\ UNCHANGED <<written, acknowledged, erased>>

Acknowledge(c) ==
  /\ c \in delivered
  /\ acknowledged' = acknowledged \cup {c}
  /\ UNCHANGED <<written, delivered, erased>>

Erase ==
  /\ ~erased /\ written \subseteq acknowledged
  /\ erased' = TRUE /\ acknowledged' = {}
  /\ UNCHANGED <<written, delivered>>

Next ==
  \/ \E c \in Change : Write(c) \/ Deliver(c) \/ Acknowledge(c)
  \/ Erase

Spec == Init /\ [][Next]_vars

\* Every change written reaches a relay.
EventuallyDelivered == \A c \in Change : (c \in written) ~> (c \in delivered)
=============================================================================
