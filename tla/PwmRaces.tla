------------------------------ MODULE PwmRaces ------------------------------
(***************************************************************************)
(* SoftPwm with a history variable that remembers whether a program has    *)
(* raced: in the code no lock keeps the methods, which walk and change the *)
(* list, away from a thread that was told to end and frees its record.     *)
(* The variable is read by no action.                                      *)
(***************************************************************************)
EXTENDS SoftPwm

VARIABLE raced   \* a method has overlapped the end of a thread

\* A method of some object is in progress while the thread of some channel was told
\* to end and has not freed its record yet.
Race == call # NoCall /\ ~Settled

RaceInit == Init /\ raced = FALSE
RaceNext == Next /\ raced' = (raced \/ Race')
RaceSpec == RaceInit /\ [][RaceNext]_<<vars, raced>>
RaceFairSpec == /\ RaceSpec
                /\ WF_vars(~fault /\ CallStep /\ UNCHANGED program)
                /\ \A t \in Thread : WF_vars(~fault /\ PwmStep(t) /\ UNCHANGED program)

\* Whatever a program calls and whenever: a freed or NULL record is used only after
\* a method, of any object, overlapped a thread that was told to end.
FaultsAreRaces == fault => raced

\* ... and only after that is a channel toggled by two threads.
OneDriverUntilRace ==
  ~raced => \A c \in Channel : \A t, u \in Thread : Drives(t, c) /\ Drives(u, c) => t = u

\* Until then a channel that was started and has not been stopped since has a thread
\* on a record that is still allocated, and runs at the frequency that its object was
\* given last, or at the default one since a stop, which frees the record that held it.
StartedIsDriven ==
  ~raced /\ call = NoCall => \A c \in Channel : object[c].started =>
    \E t \in Thread : /\ Drives(t, c) /\ cell[p[t]].running
                      /\ cell[p[t]].freq = object[c].freq
=============================================================================
