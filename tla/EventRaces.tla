----------------------------- MODULE EventRaces -----------------------------
(***************************************************************************)
(* EventGpio with a history variable that remembers whether a program has  *)
(* raced: in the code no lock keeps remove_edge_detect and event_cleanup   *)
(* away from a poll thread that uses what they free.  The variable is read *)
(* by no action.  It tells for every program, the unlocked ones included,  *)
(* which interleavings a freed or NULL pointer can come from.              *)
(***************************************************************************)
EXTENDS EventGpio

VARIABLE raced   \* a removal has overlapped the handling of an event

\* A poll thread handles an event: it has read the value file and is on its way
\* from the lookup of the record to the end of the callback list.
Handles(t) == pc[t] \in {"lookup", "use", "first", "walk", "call"}

\* A removal is in progress beside it.
Overlap == ~Idle /\ \E t \in Thread : Handles(t)

\* cleanup(channel) has got to the record of another channel.
Strayed == /\ op.kind = "cleanup" /\ op.target # "all"
           /\ op.cur \in Registered \ {op.target}

Race == Overlap \/ Strayed

RaceInit == Init /\ raced = FALSE
RaceNext == Next /\ raced' = (raced \/ Race')
RaceSpec == RaceInit /\ [][RaceNext]_<<vars, raced>>

\* Whatever a program calls and whenever, callbacks that remove channels included:
\* a freed or NULL pointer is dereferenced only after remove_edge_detect or
\* event_cleanup ran while a poll thread was between its lookup of a record and the
\* end of its callbacks, or after cleanup(channel) went on to another channel.
FaultsAreRaces == fault => raced
=============================================================================
