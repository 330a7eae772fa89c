------------------------------ MODULE SoftPwm ------------------------------
(***************************************************************************)
(* Software PWM of the Python GPIO library, soft_pwm.c under the PWM       *)
(* objects of py_pwm.c: a linked list of per-channel records, and one      *)
(* detached thread per started channel that toggles the pin while its      *)
(* record says running.  A thread that finds running cleared frees the     *)
(* record itself.                                                          *)
(*                                                                         *)
(* The methods of PWM objects exclude each other by the interpreter lock;  *)
(* the threads take no lock, so the list is walked, changed and freed by   *)
(* several parties.  It is modelled cell by cell: reading or writing a     *)
(* cell that is not allocated sets fault, where the behaviour ends.        *)
(***************************************************************************)
EXTENDS Naturals, FiniteSets

CONSTANTS
  Channel,    \* the GPIO numbers with a PWM object, each set up as an output
  Thread,     \* slots for PWM threads; none free is a failing pthread_create
  MaxCell,    \* addresses malloc can return for a record
  Duties,     \* duty cycles in use, between 0 and 100
  Freqs,      \* frequencies in use
  Default,    \* the 1 kHz of a new record
  NoChannel,
  Programs    \* what programs do: the methods they call, for which channels,
              \* and whether they are quiet: no method is called while a
              \* thread is ending

ASSUME Parameters ==
  /\ MaxCell \in Nat /\ NoChannel \notin Channel
  /\ Duties \subseteq 0..100 /\ Freqs \cup {Default} \subseteq Nat \ {0}
  /\ \A prog \in Programs :
       /\ prog.methods \subseteq {"start", "ChangeDutyCycle", "ChangeFrequency", "stop", "dealloc"}
       /\ prog.channels \subseteq Channel /\ prog.quiet \in BOOLEAN

Cell == 1..MaxCell     \* 0 is NULL

VARIABLES
  program,   \* the program that runs, one of Programs
  head,      \* pwm_list
  live,      \* the allocated cells
  cell,      \* what each cell holds
  level,     \* the output level of each channel
  pc, p, prev,   \* a PWM thread: where it is, its record or the cell it visits
  owner,     \* the channel of a thread that scans the list to remove its record
  call,      \* the method in progress: what it looks up and will store there
  object,    \* the PWM objects: the state asked for, and the frequency to run at,
             \* which is 0 without an object and the default after a stop
  fault      \* a freed cell or NULL was dereferenced

pwmVars == <<head, live, cell>>
threadVars == <<pc, p, prev, owner>>
vars == <<program, head, live, cell, level, pc, p, prev, owner, call, object, fault>>

\* add_new_pwm: stopped, at the default frequency and duty cycle.
NewPwm(c) == [gpio |-> c, freq |-> Default, duty |-> 0, running |-> FALSE, next |-> 0]

Blank == NewPwm(NoChannel)

NoObject == [freq |-> 0, started |-> FALSE]
NoCall == [kind |-> "idle", ch |-> NoChannel, val |-> 0, at |-> 0, phase |-> "find"]

Init ==
  /\ program \in Programs
  /\ head = 0 /\ live = {}
  /\ cell = [k \in Cell |-> Blank]
  /\ level = [c \in Channel |-> 0]
  /\ pc = [t \in Thread |-> "none"]
  /\ p = [t \in Thread |-> 0] /\ prev = [t \in Thread |-> 0]
  /\ owner = [t \in Thread |-> NoChannel]
  /\ call = NoCall
  /\ object = [c \in Channel |-> NoObject]
  /\ fault = FALSE

-----------------------------------------------------------------------------
(* The methods.  Each looks its record up with find_pwm, which appends one  *)
(* that is missing, and then stores into it; start does so twice.          *)

Ending(t) == \/ pc[t] \in {"low", "head", "scan"}
             \/ pc[t] # "none" /\ ~cell[p[t]].running
Settled == \A t \in Thread : ~Ending(t)

Call(kind, c, v) ==
  /\ call = NoCall
  /\ program.quiet => Settled
  /\ call' = [NoCall EXCEPT !.kind = kind, !.ch = c, !.val = v]
  /\ UNCHANGED <<pwmVars, level, threadVars, fault>>

\* The method named name, of the object of channel c.
Has(c, name) == name \in program.methods /\ object[c] # NoObject

\* PWM_init, the creation of an object.
NewObject(c, f) ==
  /\ object[c] = NoObject /\ Call("frequency", c, f)
  /\ object' = [object EXCEPT ![c].freq = f]

ChangeFrequency(c, f) ==
  /\ Has(c, "ChangeFrequency") /\ Call("frequency", c, f)
  /\ object' = [object EXCEPT ![c].freq = f]

ChangeDutyCycle(c, d) ==
  /\ Has(c, "ChangeDutyCycle") /\ Call("duty", c, d)
  /\ UNCHANGED object

\* PWM_start: pwm_set_duty_cycle, then pwm_start.
\* (Mutant: only the former.)
StartDutyOnly(c, d) ==
  /\ Has(c, "start") /\ Call("duty", c, d)
  /\ object' = [object EXCEPT ![c].started = TRUE]
Start(c, d) ==
  /\ Has(c, "start") /\ Call("dutyAndStart", c, d)
  /\ object' = [object EXCEPT ![c].started = TRUE]

Stop(c) ==
  /\ Has(c, "stop") /\ Call("stop", c, 0)
  /\ object' = [object EXCEPT ![c] = [freq |-> IF @.started THEN Default ELSE @.freq,
                                     started |-> FALSE]]

\* PWM_dealloc, when the last reference to the object goes away.
Dealloc(c) ==
  /\ Has(c, "dealloc") /\ Call("stop", c, 0)
  /\ object' = [object EXCEPT ![c] = NoObject]

\* The list gets a new last cell, reached from the cell last (0: from head).
LinkCell(last) ==
  \E k \in Cell \ live :
    /\ live' = live \cup {k}
    /\ cell' = [j \in Cell |-> IF j = k THEN NewPwm(call.ch)
                              ELSE IF j = last THEN [cell[j] EXCEPT !.next = k]
                              ELSE cell[j]]
    /\ head' = IF last = 0 THEN k ELSE head
    /\ call' = [call EXCEPT !.at = k, !.phase = "store"]

FindHead ==
  /\ call # NoCall /\ call.phase = "find"
  /\ \/ head = 0 /\ LinkCell(0)
     \/ /\ head # 0
        /\ call' = [call EXCEPT !.at = head, !.phase = "walk"]
        /\ UNCHANGED pwmVars
  /\ UNCHANGED <<level, threadVars, object, fault>>

FindNext ==
  /\ call.phase = "walk" /\ call.at \in live
  /\ \/ /\ cell[call.at].gpio = call.ch
        /\ call' = [call EXCEPT !.phase = "store"]
        /\ UNCHANGED pwmVars
     \/ /\ cell[call.at].gpio # call.ch /\ cell[call.at].next = 0
        /\ LinkCell(call.at)
     \/ /\ cell[call.at].gpio # call.ch /\ cell[call.at].next # 0
        /\ call' = [call EXCEPT !.at = cell[call.at].next]
        /\ UNCHANGED pwmVars
  /\ UNCHANGED <<level, threadVars, object, fault>>

Store(field, v) == cell' = [cell EXCEPT ![call.at] = [@ EXCEPT ![field] = v]]

\* pwm_set_frequency, pwm_set_duty_cycle and pwm_stop, once found.
StoreValue ==
  /\ call.phase = "store" /\ call.at \in live
  /\ \/ /\ call.kind = "frequency" /\ Store("freq", call.val)
        /\ call' = NoCall
     \/ /\ call.kind = "duty" /\ Store("duty", call.val)
        /\ call' = NoCall
     \/ /\ call.kind = "dutyAndStart" /\ Store("duty", call.val)
        /\ call' = [NoCall EXCEPT !.kind = "start", !.ch = call.ch]
     \/ /\ call.kind = "stop" /\ Store("running", FALSE)
        /\ call' = NoCall
  /\ UNCHANGED <<head, live, level, threadVars, object, fault>>

\* pwm_start.  (Mutant: a record that is running already is started again.)
MayStartAgain == call.kind = "start" /\ call.phase = "store" /\ call.at \in live
MayStart == /\ call.kind = "start" /\ call.phase = "store" /\ call.at \in live
            /\ ~cell[call.at].running

\* The record is marked running and its thread created.
StartThread ==
  /\ MayStart
  /\ \E t \in Thread :
       /\ pc[t] = "none"
       /\ pc' = [pc EXCEPT ![t] = "loop"]
       /\ p' = [p EXCEPT ![t] = call.at]
  /\ Store("running", TRUE)
  /\ call' = NoCall
  /\ UNCHANGED <<head, live, level, prev, owner, object, fault>>

\* pthread_create fails, and the mark is taken back.  (Mutant: it is not.)
StartFailsMarked ==
  /\ MayStart /\ \A t \in Thread : pc[t] # "none"
  /\ Store("running", TRUE)
  /\ call' = NoCall
  /\ UNCHANGED <<head, live, level, threadVars, object, fault>>
StartFails ==
  /\ MayStart /\ \A t \in Thread : pc[t] # "none"
  /\ call' = NoCall
  /\ UNCHANGED <<pwmVars, level, threadVars, object, fault>>

AlreadyRunning ==
  /\ call.kind = "start" /\ call.phase = "store" /\ call.at \in live
  /\ cell[call.at].running
  /\ call' = NoCall
  /\ UNCHANGED <<pwmVars, level, threadVars, object, fault>>

\* The cell that find_pwm returned, or walks over, was freed meanwhile.
CallUsesFreed ==
  /\ call.phase \in {"walk", "store"} /\ call.at \notin live
  /\ fault' = TRUE
  /\ UNCHANGED <<pwmVars, level, threadVars, call, object>>

-----------------------------------------------------------------------------
(* pwm_thread.                                                             *)

Goto(t, l) == pc' = [pc EXCEPT ![t] = l]

\* while (p->running)
PwmLoop(t) ==
  /\ pc[t] = "loop" /\ p[t] \in live
  /\ Goto(t, IF cell[p[t]].running THEN "on" ELSE "low")
  /\ UNCHANGED <<pwmVars, level, p, prev, owner, call, object, fault>>

PwmOn(t) ==
  /\ pc[t] = "on" /\ p[t] \in live
  /\ level' = IF cell[p[t]].duty > 0 THEN [level EXCEPT ![cell[p[t]].gpio] = 1] ELSE level
  /\ Goto(t, "off")
  /\ UNCHANGED <<pwmVars, p, prev, owner, call, object, fault>>

PwmOff(t) ==
  /\ pc[t] = "off" /\ p[t] \in live
  /\ level' = IF cell[p[t]].duty < 100 THEN [level EXCEPT ![cell[p[t]].gpio] = 0] ELSE level
  /\ Goto(t, "loop")
  /\ UNCHANGED <<pwmVars, p, prev, owner, call, object, fault>>

\* The pin is left low; the argument of remove_pwm is read.
\* (Mutant: the pin is left as it is.)
PwmLeave(t) ==
  /\ pc[t] = "low" /\ p[t] \in live
  /\ owner' = [owner EXCEPT ![t] = cell[p[t]].gpio]
  /\ Goto(t, "head")
  /\ UNCHANGED <<pwmVars, level, p, prev, call, object, fault>>
PwmLow(t) ==
  /\ pc[t] = "low" /\ p[t] \in live
  /\ level' = [level EXCEPT ![cell[p[t]].gpio] = 0]
  /\ owner' = [owner EXCEPT ![t] = cell[p[t]].gpio]
  /\ Goto(t, "head")
  /\ UNCHANGED <<pwmVars, p, prev, call, object, fault>>

RemoveHead(t) ==
  /\ pc[t] = "head"
  /\ p' = [p EXCEPT ![t] = head]
  /\ Goto(t, "scan")
  /\ UNCHANGED <<pwmVars, level, prev, owner, call, object, fault>>

\* The head of the list after the cell that thread t visits was unlinked.
\* (Mutant: the case of the first cell is missing.)
HeadKept(t) == head
HeadAfter(t) == IF prev[t] = 0 THEN cell[p[t]].next ELSE head

\* One round of remove_pwm's loop: a match is unlinked and freed, its content
\* forgotten.
RemoveMatch(t) ==
  /\ pc[t] = "scan" /\ p[t] \in live /\ cell[p[t]].gpio = owner[t]
  /\ prev[t] # 0 => prev[t] \in live
  /\ head' = HeadAfter(t)
  /\ cell' = [k \in Cell |-> CASE k = p[t] -> Blank
                             [] k = prev[t] /\ k # p[t] -> [cell[k] EXCEPT !.next = cell[p[t]].next]
                             [] OTHER -> cell[k]]
  /\ live' = live \ {p[t]}
  /\ p' = [p EXCEPT ![t] = cell[p[t]].next]
  /\ UNCHANGED <<level, pc, prev, owner, call, object, fault>>

RemoveNext(t) ==
  /\ pc[t] = "scan" /\ p[t] \in live /\ cell[p[t]].gpio # owner[t]
  /\ prev' = [prev EXCEPT ![t] = p[t]]
  /\ p' = [p EXCEPT ![t] = cell[p[t]].next]
  /\ UNCHANGED <<pwmVars, level, pc, owner, call, object, fault>>

PwmExit(t) ==
  /\ pc[t] = "scan" /\ p[t] = 0
  /\ Goto(t, "none")
  /\ prev' = [prev EXCEPT ![t] = 0] /\ owner' = [owner EXCEPT ![t] = NoChannel]
  /\ UNCHANGED <<pwmVars, level, p, call, object, fault>>

\* The thread reads its record, or the cell its scan stands on, after another
\* party freed it; or it unlinks a cell from a predecessor that is gone.
PwmUsesFreed(t) ==
  /\ \/ pc[t] \in {"loop", "on", "off", "low"} /\ p[t] \notin live
     \/ pc[t] = "scan" /\ p[t] # 0 /\ p[t] \notin live
     \/ /\ pc[t] = "scan" /\ p[t] \in live /\ cell[p[t]].gpio = owner[t]
        /\ prev[t] # 0 /\ prev[t] \notin live
  /\ fault' = TRUE
  /\ UNCHANGED <<pwmVars, level, threadVars, call, object>>

-----------------------------------------------------------------------------
Method == \E c \in program.channels :
            \/ \E f \in Freqs : NewObject(c, f) \/ ChangeFrequency(c, f)
            \/ \E d \in Duties : ChangeDutyCycle(c, d) \/ Start(c, d)
            \/ Stop(c) \/ Dealloc(c)
CallStep == \/ FindHead    \/ FindNext       \/ StoreValue
            \/ StartThread \/ StartFails     \/ AlreadyRunning
            \/ CallUsesFreed
PwmStep(t) == \/ PwmLoop(t)    \/ PwmOn(t)       \/ PwmOff(t)     \/ PwmLow(t)
              \/ RemoveHead(t) \/ RemoveMatch(t) \/ RemoveNext(t) \/ PwmExit(t)
              \/ PwmUsesFreed(t)

Next == /\ ~fault
        /\ Method \/ CallStep \/ \E t \in Thread : PwmStep(t)
        /\ UNCHANGED program

Spec == Init /\ [][Next]_vars

\* The scheduler runs the threads and a method that was called; nothing makes
\* the program call one.
FairSpec == /\ Spec
            /\ WF_vars(~fault /\ CallStep /\ UNCHANGED program)
            /\ \A t \in Thread : WF_vars(~fault /\ PwmStep(t) /\ UNCHANGED program)

-----------------------------------------------------------------------------
(* Properties.                                                             *)

Fields == [gpio : Channel \cup {NoChannel}, freq : Freqs \cup {Default}, duty : Duties \cup {0},
           running : BOOLEAN, next : Cell \cup {0}]

TypeOK ==
  /\ program \in Programs
  /\ head \in Cell \cup {0} /\ live \subseteq Cell
  /\ cell \in [Cell -> Fields]
  /\ level \in [Channel -> {0, 1}]
  /\ pc \in [Thread -> {"none", "loop", "on", "off", "low", "head", "scan"}]
  /\ p \in [Thread -> Cell \cup {0}] /\ prev \in [Thread -> Cell \cup {0}]
  /\ owner \in [Thread -> Channel \cup {NoChannel}]
  /\ call \in [kind : {"idle", "frequency", "duty", "dutyAndStart", "start", "stop"},
               ch : Channel \cup {NoChannel}, val : Freqs \cup Duties \cup {0},
               at : Cell \cup {0}, phase : {"find", "walk", "store"}]
  /\ object \in [Channel -> [freq : Freqs \cup {0, Default}, started : BOOLEAN]]
  /\ fault \in BOOLEAN

\* A thread drives a channel.
Drives(t, c) == /\ pc[t] \in {"loop", "on", "off", "low"}
                /\ p[t] \in live /\ cell[p[t]].gpio = c

\* Between calls, a record is marked running exactly while a thread drives it
\* that will go on, so that start never finds a mark nobody acts on, whatever
\* the program.
RunningIsDriven ==
  call = NoCall => \A k \in live : cell[k].running =>
    \E t \in Thread : pc[t] \in {"loop", "on", "off"} /\ p[t] = k

\* After stop the pin goes low and stays so until the next start, in a quiet
\* program.
Stopped(c) == program.quiet /\ call = NoCall /\ ~object[c].started
StopEndsLow == \A c \in Channel :
  Stopped(c) ~> (object[c].started \/ (level[c] = 0 /\ \A t \in Thread : ~Drives(t, c)))
=============================================================================
