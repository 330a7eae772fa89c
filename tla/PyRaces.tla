------------------------------ MODULE PyRaces ------------------------------
(***************************************************************************)
(* PyGpio with a history variable that remembers whether two threads have  *)
(* raced on a word: in the code nothing excludes the read and the write of *)
(* a data or direction word, which have no write-enable bits, from those   *)
(* of another thread.  The variable is read by no action.                  *)
(***************************************************************************)
EXTENDS PyGpio

VARIABLE raced   \* two threads have held the same word at once

\* Both have read the data word of a bank, or both its direction word, and neither
\* has written it yet: the one that writes last undoes what the other does.
Race ==
  \E t, u \in Thread :
    /\ t # u /\ pc[t] = "store" /\ pc[u] = "store"
    /\ BankOf(t) = BankOf(u) /\ Current(t).fn = Current(u).fn

RaceInit == Init /\ raced = FALSE
RaceNext == Next /\ raced' = (raced \/ Race')
RaceSpec == RaceInit /\ [][RaceNext]_<<vars, raced>>

Calling(t, g) == todo[t] # <<>> /\ Current(t).gpio = g
Moves(t) == pc[t]' # pc[t] \/ Len(todo[t]') # Len(todo[t])

\* A step changes the clock of a bank only as part of a call on a pin of it, and the
\* function and the pull of a pin only as part of a call on that pin, however the
\* threads share their words.  Its level and its direction too, until two threads
\* have held the same word at once: then a write may undo what another one did.
OnlyOwnPin ==
  [][/\ \A b \in Banks : gate'[b] # gate[b] =>
          \E t \in Thread : Moves(t) /\ todo[t] # <<>> /\ BankOf(t) = b
     /\ \A g \in Gpio :
          \/ <<mux[g], pull[g]>>' # <<mux[g], pull[g]>>
          \/ ~raced /\ <<level[g], out[g]>>' # <<level[g], out[g]>>
          => \E t \in Thread : Moves(t) /\ Calling(t, g)]_vars
=============================================================================
