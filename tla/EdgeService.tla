---------------------------- MODULE EdgeService ----------------------------
(***************************************************************************)
(* What the edge events of the Python GPIO library promise a program:      *)
(* edges are recorded for armed channels only, an event is delivered only  *)
(* for an edge that was recorded since the channel was armed, and only     *)
(* delivery sets the flag that event_detected reads.  Several edges may    *)
(* become one event, and an edge may be dropped (the bounce filter).       *)
(***************************************************************************)
EXTENDS Naturals

CONSTANT Channel

VARIABLES
  armed,    \* the channels with event detection
  edges,    \* per channel, the edges that were recorded and not delivered yet
  flagged   \* the channels event_detected reports

vars == <<armed, edges, flagged>>

Init == armed = {} /\ edges = [c \in Channel |-> 0] /\ flagged = {}

Arm(c) ==
  /\ c \notin armed
  /\ armed' = armed \cup {c}
  /\ UNCHANGED <<edges, flagged>>

\* Removal forgets the edges and the flag with the channel.
Disarm(c) ==
  /\ c \in armed
  /\ armed' = armed \ {c}
  /\ edges' = [edges EXCEPT ![c] = 0]
  /\ flagged' = flagged \ {c}

Edge(c) ==
  /\ c \in armed
  /\ edges' = [edges EXCEPT ![c] = @ + 1]
  /\ UNCHANGED <<armed, flagged>>

Deliver(c) ==
  /\ edges[c] > 0
  /\ edges' = [edges EXCEPT ![c] = @ - 1]
  /\ flagged' = flagged \cup {c}
  /\ UNCHANGED armed

Drop(c) ==
  /\ edges[c] > 0
  /\ edges' = [edges EXCEPT ![c] = @ - 1]
  /\ UNCHANGED <<armed, flagged>>

Detect(c) ==
  /\ c \in flagged
  /\ flagged' = flagged \ {c}
  /\ UNCHANGED <<armed, edges>>

Next == \E c \in Channel : \/ Arm(c)     \/ Disarm(c) \/ Edge(c)
                           \/ Deliver(c) \/ Drop(c)   \/ Detect(c)

Spec == Init /\ [][Next]_vars
=============================================================================
