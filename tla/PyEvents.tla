------------------------------ MODULE PyEvents ------------------------------
(***************************************************************************)
(* The edge events of the Python module (py_gpio.c): its list of Python    *)
(* functions, above the list of C callbacks that event_gpio.c keeps.       *)
(*                                                                         *)
(* Every function is appended to py_callbacks and has a C callback of its  *)
(* own, run_py_callbacks, which calls all the functions of its channel.    *)
(* The poll thread walks the list without the interpreter lock and takes   *)
(* it for each call; a Python function may call the module again.  Edge    *)
(* detection itself is abstracted to what EventGpio says of it.            *)
(***************************************************************************)
EXTENDS Naturals, Sequences, FiniteSets, SequencesExt

CONSTANTS
  Channel,   \* the channels
  Function,  \* the Python functions of the program
  None,      \* no function
  MaxCell    \* records of py_callbacks that there may be

ASSUME Parameters == None \notin Function /\ MaxCell \in Nat

Cell == 1..MaxCell

VARIABLES
  quiet,      \* this program removes the detection of a channel only while the
              \* poll thread runs no callback, or calls a function of another
  input,      \* the channels whose gpio_direction is INPUT
  armed,      \* those with edge detection
  ready,      \* those with an edge that was not reported yet
  cell,       \* the records: channel and function
  pyCallbacks, \* py_callbacks, as the list of its records
  callbacks,  \* the number of C callbacks of each channel
  poll,       \* the poll thread
  fault,      \* it read a record that was freed
  wanted,     \* history: the channels and functions added and not removed since
  due, heard  \* history: the functions on the list when the walk began, and
              \* those called in it

lists == <<cell, pyCallbacks, callbacks>>
vars == <<quiet, input, armed, ready, lists, poll, fault, wanted, due, heard>>

NoCell == [gpio |-> None, fn |-> None]

\* at is the record run_py_callbacks stands on, 0 for NULL; ran is the number of
\* C callbacks that were run; freed says that the records it uses are gone.
Waiting == [pc |-> "wait", gpio |-> None, ran |-> 0, at |-> 0, freed |-> FALSE]

Init ==
  /\ quiet \in BOOLEAN
  /\ input = {} /\ armed = {} /\ ready = {}
  /\ cell = [k \in Cell |-> NoCell]
  /\ pyCallbacks = <<>>
  /\ callbacks = [c \in Channel |-> 0]
  /\ poll = Waiting
  /\ fault = FALSE
  /\ wanted = {} /\ due = <<>> /\ heard = <<>>

-----------------------------------------------------------------------------
(* The functions of the module.  Each runs to its end under the lock; the   *)
(* main program or a Python function calls it.                             *)

Listed == ToSet(pyCallbacks)
Unused == Cell \ Listed

Index(k) == CHOOSE i \in DOMAIN pyCallbacks : pyCallbacks[i] = k

\* Some of the records, in the order of the list.
InOrder(ks) == CHOOSE s \in [1..Cardinality(ks) -> ks] :
                 \A i, j \in DOMAIN s : i < j => Index(s[i]) < Index(s[j])

\* The functions of a channel, in the order they were added.
Records(c) == {k \in Listed : cell[k].gpio = c}
Functions(c) == LET ks == InOrder(Records(c)) IN [i \in DOMAIN ks |-> cell[ks[i]].fn]

\* add_py_callback: the record and the C callback go last.
AddPyCallback(c, f) ==
  \E k \in Unused :
    /\ cell' = [cell EXCEPT ![k] = [gpio |-> c, fn |-> f]]
    /\ pyCallbacks' = Append(pyCallbacks, k)
    /\ callbacks' = [callbacks EXCEPT ![c] = @ + 1]
    /\ wanted' = wanted \cup {<<c, f>>}

\* setup, as an input or as an output.
Setup(c, in) ==
  /\ input' = IF in THEN input \cup {c} ELSE input \ {c}
  /\ UNCHANGED <<armed, ready, lists, poll, fault, wanted, due, heard>>

\* add_event_detect raises an exception where there is detection already.
AddEventDetect(c, f) ==
  /\ c \in input /\ c \notin armed
  /\ armed' = armed \cup {c}
  /\ IF f = None THEN UNCHANGED <<lists, wanted>> ELSE AddPyCallback(c, f)
  /\ UNCHANGED <<input, ready, poll, fault, due, heard>>

AddEventCallback(c, f) ==
  /\ c \in input /\ c \in armed
  /\ AddPyCallback(c, f)
  /\ UNCHANGED <<input, armed, ready, poll, fault, due, heard>>

\* Channels cs lose their detection and their C callbacks.
Disarm(cs) ==
  /\ armed' = armed \ cs /\ ready' = ready \ cs
  /\ callbacks' = [c \in Channel |-> IF c \in cs THEN 0 ELSE callbacks[c]]

MayRemove(cs) == quiet => poll.pc = "wait" \/ (poll.pc = "call" /\ poll.gpio \notin cs)

\* remove_event_detect unlinks and frees the channel's records first.
\* (Mutants: the list ends at the first of them; only the first is unlinked.)
WithoutRest(c) ==
  LET n == SelectInSeq(pyCallbacks, LAMBDA k : cell[k].gpio = c)
  IN IF n = 0 THEN pyCallbacks ELSE SubSeq(pyCallbacks, 1, n - 1)
WithoutFirst(c) ==
  LET n == SelectInSeq(pyCallbacks, LAMBDA k : cell[k].gpio = c)
  IN IF n = 0 THEN pyCallbacks ELSE RemoveAt(pyCallbacks, n)
Without(c) == InOrder(Listed \ Records(c))
RemoveEventDetect(c) ==
  /\ MayRemove({c})
  /\ pyCallbacks' = Without(c)
  /\ cell' = [k \in Cell |-> IF k \in ToSet(Without(c)) THEN cell[k] ELSE NoCell]
  /\ Disarm({c})
  /\ poll' = [poll EXCEPT !.freed = @ \/ (poll.pc # "wait" /\ poll.gpio = c)
                                      \/ (poll.at # 0 /\ poll.at \notin ToSet(Without(c)))]
  /\ wanted' = {w \in wanted : w[1] # c}
  /\ UNCHANGED <<input, fault, due, heard>>

\* cleanup: event_cleanup, which takes the detection of gone away, then the
\* directions of cs.  py_callbacks stays as it is.
CleanUp(cs, gone) ==
  /\ MayRemove(gone)
  /\ Disarm(gone)
  /\ poll' = [poll EXCEPT !.freed = @ \/ (poll.pc # "wait" /\ poll.gpio \in gone)]
  /\ input' = input \ cs
  /\ UNCHANGED <<cell, pyCallbacks, fault, wanted, due, heard>>
\* Of channel c, or of every one.  In the former case event_cleanup may take
\* other channels than c, as EventGpio says: here any.
Cleanup(c) == \E gone \in SUBSET armed : CleanUp({c}, gone)
CleanupAll == CleanUp(Channel, armed)

-----------------------------------------------------------------------------
(* The poll thread.                                                        *)

Edge(c) ==
  /\ c \in armed
  /\ ready' = ready \cup {c}
  /\ UNCHANGED <<input, armed, lists, poll, fault, wanted, due, heard>>

\* The edge is reported and not ignored: run_callbacks.
Report(c) ==
  /\ poll.pc = "wait" /\ c \in ready
  /\ ready' = ready \ {c}
  /\ poll' = [Waiting EXCEPT !.pc = "run", !.gpio = c]
  /\ UNCHANGED <<input, armed, lists, fault, wanted, due, heard>>
Ignore(c) ==
  /\ poll.pc = "wait" /\ c \in ready
  /\ ready' = ready \ {c}
  /\ UNCHANGED <<input, armed, lists, poll, fault, wanted, due, heard>>

\* run_callbacks: each C callback of the channel, those added meanwhile last.
First == IF pyCallbacks = <<>> THEN 0 ELSE pyCallbacks[1]
RunCallback ==
  /\ poll.pc = "run" /\ ~poll.freed /\ poll.ran < callbacks[poll.gpio]
  /\ poll' = [poll EXCEPT !.pc = "walk", !.at = First]
  /\ due' = Functions(poll.gpio) /\ heard' = <<>>
  /\ UNCHANGED <<input, armed, ready, lists, fault, wanted>>
RunEnd ==
  /\ poll.pc = "run" /\ ~poll.freed /\ poll.ran = callbacks[poll.gpio]
  /\ poll' = Waiting
  /\ UNCHANGED <<input, armed, ready, lists, fault, wanted, due, heard>>

\* cb->next.
NextOf(k) == IF Index(k) = Len(pyCallbacks) THEN 0 ELSE pyCallbacks[Index(k) + 1]

\* run_py_callbacks.  (Mutant: it takes the last record for the end.)
AtEndEarly == poll.at = 0 \/ NextOf(poll.at) = 0
AtEnd == poll.at = 0
WalkEnd ==
  /\ poll.pc = "walk" /\ ~poll.freed /\ AtEnd
  /\ poll' = [poll EXCEPT !.pc = "run", !.at = 0, !.ran = @ + 1]
  /\ UNCHANGED <<input, armed, ready, lists, fault, wanted, due, heard>>
WalkOther ==
  /\ poll.pc = "walk" /\ ~poll.freed /\ ~AtEnd /\ cell[poll.at].gpio # poll.gpio
  /\ poll' = [poll EXCEPT !.at = NextOf(@)]
  /\ UNCHANGED <<input, armed, ready, lists, fault, wanted, due, heard>>
WalkCall ==
  /\ poll.pc = "walk" /\ ~poll.freed /\ ~AtEnd /\ cell[poll.at].gpio = poll.gpio
  /\ poll' = [poll EXCEPT !.pc = "call"]
  /\ heard' = Append(heard, cell[poll.at].fn)
  /\ UNCHANGED <<input, armed, ready, lists, fault, wanted, due>>
CallReturns ==
  /\ poll.pc = "call" /\ ~poll.freed
  /\ poll' = [poll EXCEPT !.pc = "walk", !.at = NextOf(@)]
  /\ UNCHANGED <<input, armed, ready, lists, fault, wanted, due, heard>>
UseFreed ==
  /\ poll.pc # "wait" /\ poll.freed
  /\ fault' = TRUE
  /\ UNCHANGED <<input, armed, ready, lists, poll, wanted, due, heard>>

PollStep == \/ \E c \in Channel : Report(c) \/ Ignore(c)
            \/ RunCallback \/ RunEnd
            \/ WalkEnd \/ WalkOther \/ WalkCall \/ CallReturns
            \/ UseFreed

Method == \/ \E c \in Channel :
               \/ \E in \in BOOLEAN : Setup(c, in)
               \/ \E f \in Function \cup {None} : AddEventDetect(c, f)
               \/ \E f \in Function : AddEventCallback(c, f)
               \/ RemoveEventDetect(c)
               \/ Cleanup(c)
          \/ CleanupAll

\* Once the records under the thread are gone, all that matters is its next step.
Next == /\ ~fault
        /\ PollStep \/ (~poll.freed /\ (Method \/ \E c \in Channel : Edge(c)))
        /\ UNCHANGED quiet

Spec == Init /\ [][Next]_vars

-----------------------------------------------------------------------------
(* Properties.                                                             *)

\* In a quiet program the walk never reads a record that was freed: functions
\* may add callbacks, and remove the detection of other channels, under it.
NoFault == quiet => ~fault

\* A function is called for a channel only if the program added it there and
\* has not removed the detection since.  (After cleanup it may still be.)
OnlyWanted == poll.pc = "call" /\ ~poll.freed =>
  <<poll.gpio, cell[poll.at].fn>> \in wanted

\* Each C callback calls every function that its channel had when it began, in
\* the order they were added, whatever functions add and remove meanwhile.
EachIsCalled == poll.pc = "run" /\ ~poll.freed => IsPrefix(due, heard)
=============================================================================
