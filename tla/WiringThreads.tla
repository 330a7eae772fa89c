--------------------------- MODULE WiringThreads ---------------------------
(***************************************************************************)
(* The threads that wiringPi starts for a program: software PWM            *)
(* (softPwm.c), tones (softTone.c) and interrupt handlers (wiringPiISR).   *)
(* Each learns its pin through one variable of its file: the creator       *)
(* stores the pin, creates the thread and spins until the thread has       *)
(* taken it.  PWM and tone threads are ended by pthread_cancel, which      *)
(* takes effect only where a thread sleeps or, with sysfs, writes.         *)
(*                                                                         *)
(* The functions are sequences of steps that a caller has yet to make.     *)
(***************************************************************************)
EXTENDS Integers, Sequences, FiniteSets, SequencesExt

CONSTANTS
  Pin,       \* the on-board pins in use
  Main,      \* the program's main thread, the one that makes PWM and tones
  Helper,    \* its other threads; they and Main register interrupts
  Worker,    \* slots for threads; none free is a failing pthread_create
  None,
  Values,    \* the values of softPwmWrite and softPwmCreate
  Ranges,    \* the ranges of softPwmCreate
  Tones,     \* the frequencies of softToneWrite
  Programs   \* the kinds of thread a program may make, and for which pins

Caller == {Main} \cup Helper
Kind == {"pwm", "tone", "isr"}
Sleep == 100   \* delayMicroseconds: shorter delays are a busy loop
Pause == 1000  \* delay (1)
MaxTone == 5000

ASSUME Parameters ==
  /\ Main \notin Helper /\ None \notin Pin \cup Caller \cup Worker
  /\ Values \subseteq Int /\ Ranges \subseteq Int /\ Tones \subseteq Int
  /\ Programs \subseteq SUBSET (Kind \X Pin)

VARIABLES
  uses,        \* those of this program, <<kind, pin>>
  sys,         \* wiringPiSetupSys was called: digitalWrite writes a file
  marks, range, \* softPwm.c, with its threads[]
  freqs,       \* softTone.c, with its threads[]
  threads,     \* threads[] of each file, for pins that have one
  newPin,      \* newPin of either file, and pinPass
  level,       \* the output level
  sysFds,      \* the pins whose value file wiringPiISR opened
  pinMutex,    \* the caller that holds it
  todo,        \* what each caller has yet to do
  worker,      \* the threads; for: the pin each was created for (history)
  rangeless,   \* history: the pins softPwmCreate was given a range of 0 for
  unfit,       \* history: those it was given a value outside 0..range for, too
  edge,        \* the pins with an edge that poll reports
  unserved     \* history: those whose edge no call of the function followed

soft == <<marks, range, freqs, threads, rangeless, unfit>>
isr == <<sysFds, pinMutex, edge, unserved>>
vars == <<uses, sys, marks, range, freqs, threads, newPin, level, sysFds,
          pinMutex, todo, worker, rangeless, unfit, edge, unserved>>

Free == [kind |-> "none", pc |-> "free", pin |-> None, for |-> None,
         nap |-> 0, space |-> 0, cancel |-> FALSE]

Init ==
  /\ uses \in Programs /\ sys \in BOOLEAN
  /\ marks = [p \in Pin |-> 0] /\ range = [p \in Pin |-> 0]
  /\ freqs = [p \in Pin |-> 0]
  /\ threads = [k \in {"pwm", "tone"} |-> [p \in Pin |-> None]]
  /\ newPin = [k \in Kind |-> None]
  /\ level = [p \in Pin |-> 0]
  /\ sysFds = {} /\ pinMutex = None
  /\ todo = [c \in Caller |-> <<>>]
  /\ worker = [w \in Worker |-> Free]
  /\ rangeless = {} /\ unfit = {}
  /\ edge = {} /\ unserved = {}

-----------------------------------------------------------------------------
(* The functions, as steps.                                                *)

Step(op, kind, p) == [op |-> op, kind |-> kind, pin |-> p, val |-> 0, range |-> 0]

\* pinMode stops what drives the pin; with sysfs it returns before that.
\* (Mutant: it stops the PWM thread only.)
PinModePwmOnly(p) == IF sys THEN <<>> ELSE <<Step("stop", "pwm", p)>>
PinMode(p) == IF sys THEN <<>> ELSE <<Step("stop", "pwm", p), Step("stop", "tone", p)>>

\* softPwmCreate of a pin whose range is 0, and softToneCreate.  What asks for
\* a range above 0 compares the address of the array with 0, so every value
\* and every range goes on.
PwmCreate(p, v, r) ==
  PinMode(p) \o <<Step("low", "pwm", p),
                  [Step("create", "pwm", p) EXCEPT !.val = v, !.range = r]>>
ToneCreate(p) == PinMode(p) \o <<Step("low", "tone", p), Step("toneIfFree", "tone", p)>>

\* wiringPiISR.  (Mutant: without the mutex.)
IsrUnlocked(p) == <<Step("open", "isr", p), Step("create", "isr", p)>>
Isr(p) == <<Step("open", "isr", p), Step("lock", "isr", p),
            Step("create", "isr", p), Step("unlock", "isr", p)>>

Uses(k, p) == <<k, p>> \in uses
Call(c, steps) ==
  /\ todo[c] = <<>>
  /\ todo' = [todo EXCEPT ![c] = steps]
  /\ UNCHANGED <<uses, sys, soft, newPin, level, isr, worker>>

SoftPwmCreate(p, v, r) ==
  Uses("pwm", p) /\ Call(Main, IF range[p] # 0 THEN <<>> ELSE PwmCreate(p, v, r))
SoftPwmStop(p) == Uses("pwm", p) /\ Call(Main, <<Step("stop", "pwm", p)>>)
SoftToneCreate(p) == Uses("tone", p) /\ Call(Main, ToneCreate(p))
SoftToneStop(p) == Uses("tone", p) /\ Call(Main, <<Step("stop", "tone", p)>>)
\* pinMode (p, INPUT) or OUTPUT, and pinMode (p, SOFT_PWM_OUTPUT).
SetPinMode(p) == (Uses("pwm", p) \/ Uses("tone", p)) /\ Call(Main, PinMode(p))
PinModeSoftPwm(p) ==
  Uses("pwm", p) /\ Call(Main, IF sys THEN <<>> ELSE PinMode(p) \o PwmCreate(p, 0, 100))
WiringPiISR(c, p) == Uses("isr", p) /\ Call(c, Isr(p))

\* softPwmWrite.
Clamped(p, v) == IF v < 0 THEN 0 ELSE IF v > range[p] THEN range[p] ELSE v
SoftPwmWrite(p, v) ==
  /\ Uses("pwm", p) /\ todo[Main] = <<>>
  /\ marks' = [marks EXCEPT ![p] = Clamped(p, v)]
  /\ UNCHANGED <<uses, sys, range, freqs, threads, rangeless, unfit, newPin, level,
                 isr, todo, worker>>

\* softToneWrite.  (Mutant: the frequency is not held down.)
AnyFreq(f) == IF f < 0 THEN 0 ELSE f
AtMost5kHz(f) == IF f < 0 THEN 0 ELSE IF f > MaxTone THEN MaxTone ELSE f
SoftToneWrite(p, f) ==
  /\ Uses("tone", p) /\ todo[Main] = <<>>
  /\ freqs' = [freqs EXCEPT ![p] = AtMost5kHz(f)]
  /\ UNCHANGED <<uses, sys, marks, range, threads, rangeless, unfit, newPin, level,
                 isr, todo, worker>>

-----------------------------------------------------------------------------
(* The steps of callers.                                                   *)

At(c, op) == todo[c] # <<>> /\ Head(todo[c]).op = op
Its(c) == Head(todo[c])
Done(c) == todo' = [todo EXCEPT ![c] = Tail(@)]
Now(c, op) == todo' = [todo EXCEPT ![c][1].op = op]

\* softPwmStop and softToneStop: cancel the thread there is, and join it.  For
\* softPwm.c a pin whose range is 0 has none.
Running(k, p) == IF k = "pwm" THEN range[p] # 0 ELSE threads[k][p] # None
StopNothing(c) ==
  /\ At(c, "stop") /\ ~Running(Its(c).kind, Its(c).pin)
  /\ Done(c)
  /\ UNCHANGED <<uses, sys, soft, newPin, level, isr, worker>>
Cancel(c) ==
  /\ At(c, "stop") /\ Running(Its(c).kind, Its(c).pin)
  /\ worker' = [worker EXCEPT ![threads[Its(c).kind][Its(c).pin]].cancel = TRUE]
  /\ Now(c, "join")
  /\ UNCHANGED <<uses, sys, soft, newPin, level, isr>>

\* The thread has ended: the entry is reset and the pin left low.  softPwmStop
\* resets its range, softToneStop its thread.
LeftLow(p) == [level EXCEPT ![p] = 0]
Join(c) ==
  /\ At(c, "join")
  /\ LET k == Its(c).kind
         p == Its(c).pin
         w == threads[k][p]
     IN /\ worker[w].pc = "ended"
        /\ worker' = [worker EXCEPT ![w] = Free]
        /\ range' = IF k = "pwm" THEN [range EXCEPT ![p] = 0] ELSE range
        /\ threads' = [threads EXCEPT ![k][p] = None]
        /\ level' = LeftLow(p)
  /\ Done(c)
  /\ UNCHANGED <<uses, sys, marks, freqs, rangeless, unfit, newPin, isr>>

WriteLow(c) ==
  /\ At(c, "low")
  /\ level' = [level EXCEPT ![Its(c).pin] = 0]
  /\ Done(c)
  /\ UNCHANGED <<uses, sys, soft, newPin, isr, worker>>

ToneIfFree(c) ==
  /\ At(c, "toneIfFree")
  /\ IF threads["tone"][Its(c).pin] # None THEN Done(c) ELSE Now(c, "create")
  /\ UNCHANGED <<uses, sys, soft, newPin, level, isr, worker>>

\* What softPwmCreate is meant for.
Suits(v, r) == r > 0 /\ 0 <= v /\ v <= r

\* The tables are set, the pin stored and the thread created, unless that
\* fails; then the thread's word that it has its pin is awaited.
Create(c) ==
  /\ At(c, "create")
  /\ LET k == Its(c).kind
         p == Its(c).pin
     IN /\ marks' = IF k = "pwm" THEN [marks EXCEPT ![p] = Its(c).val] ELSE marks
        /\ range' = IF k = "pwm" THEN [range EXCEPT ![p] = Its(c).range] ELSE range
        /\ freqs' = IF k = "tone" THEN [freqs EXCEPT ![p] = 0] ELSE freqs
        /\ rangeless' = IF k = "pwm" /\ Its(c).range = 0 THEN rangeless \cup {p} ELSE rangeless
        /\ unfit' = IF k = "pwm" /\ ~Suits(Its(c).val, Its(c).range) THEN unfit \cup {p} ELSE unfit
        /\ newPin' = [newPin EXCEPT ![k] = p]
        /\ \/ \E w \in Worker :
                /\ worker[w].pc = "free"
                /\ worker' = [worker EXCEPT ![w] = [Free EXCEPT !.kind = k, !.pc = "start", !.for = p]]
                /\ threads' = IF k = "isr" THEN threads ELSE [threads EXCEPT ![k][p] = w]
           \/ /\ \A w \in Worker : worker[w].pc # "free"
              /\ UNCHANGED <<worker, threads>>
  /\ Now(c, "await")
  /\ UNCHANGED <<uses, sys, level, isr>>

Await(c) ==
  /\ At(c, "await") /\ newPin[Its(c).kind] = None
  /\ Done(c)
  /\ UNCHANGED <<uses, sys, soft, newPin, level, isr, worker>>

\* wiringPiISR opens the value file, unless it has, and reads what is pending;
\* where it cannot be opened the call returns.
Open(c) ==
  /\ At(c, "open")
  /\ LET p == Its(c).pin
     IN \/ /\ sysFds' = sysFds \cup {p}
           /\ edge' = edge \ {p} /\ unserved' = unserved \ {p}
           /\ Done(c)
        \/ /\ p \notin sysFds
           /\ todo' = [todo EXCEPT ![c] = <<>>]
           /\ UNCHANGED <<sysFds, edge, unserved>>
  /\ UNCHANGED <<uses, sys, soft, newPin, level, pinMutex, worker>>

Lock(c) ==
  /\ At(c, "lock") /\ pinMutex = None
  /\ pinMutex' = c
  /\ Done(c)
  /\ UNCHANGED <<uses, sys, soft, newPin, level, sysFds, edge, unserved, worker>>

Unlock(c) ==
  /\ At(c, "unlock")
  /\ pinMutex' = None
  /\ Done(c)
  /\ UNCHANGED <<uses, sys, soft, newPin, level, sysFds, edge, unserved, worker>>

-----------------------------------------------------------------------------
(* The threads.                                                            *)

Becomes(w, new) == worker' = [worker EXCEPT ![w] = new]
Moves(w, pc) == Becomes(w, [worker[w] EXCEPT !.pc = pc])

\* The stored pin is taken, then cleared.
TakePin(w) ==
  /\ worker[w].pc = "start"
  /\ Becomes(w, [worker[w] EXCEPT !.pc = "clear", !.pin = newPin[worker[w].kind]])
  /\ UNCHANGED <<uses, sys, soft, newPin, level, isr, todo>>
ClearPin(w) ==
  /\ worker[w].pc = "clear"
  /\ newPin' = [newPin EXCEPT ![worker[w].kind] = None]
  /\ Moves(w, "loop")
  /\ UNCHANGED <<uses, sys, soft, level, isr, todo>>

\* A thread is cancelled where it sleeps, or before it writes a file.  A delay
\* is unsigned: that of a negative time is an hour's sleep.
Long(n) == n < 0 \/ n >= Sleep
Writes(w) == \/ worker[w].pc = "high"
             \/ worker[w].pc = "loop" /\ (worker[w].kind = "tone" => freqs[worker[w].pin] # 0)
CancellationPoint(w) ==
  \/ worker[w].pc \in {"high", "low"} /\ Long(worker[w].nap)
  \/ sys /\ Writes(w)
Ends(w) == worker[w].cancel /\ CancellationPoint(w)
End(w) ==
  /\ Ends(w)
  /\ Moves(w, "ended")
  /\ UNCHANGED <<uses, sys, soft, newPin, level, isr, todo>>

\* The two halves of softPwmThread's loop and of softToneThread's: the level
\* that is written, unless its time is 0, and the sleep that follows.  Both
\* times are read at the top of the loop.
HighTime(w) == IF worker[w].kind = "pwm" THEN marks[worker[w].pin]
               ELSE 500000 \div freqs[worker[w].pin]
LowTime(w) == IF worker[w].kind = "pwm" THEN range[worker[w].pin] - marks[worker[w].pin]
              ELSE HighTime(w)
High(w) ==
  /\ worker[w].pc = "loop" /\ worker[w].kind \in {"pwm", "tone"} /\ ~Ends(w)
  /\ worker[w].kind = "tone" => freqs[worker[w].pin] # 0
  /\ level' = IF HighTime(w) # 0 THEN [level EXCEPT ![worker[w].pin] = 1] ELSE level
  /\ Becomes(w, [worker[w] EXCEPT !.pc = "high", !.nap = HighTime(w), !.space = LowTime(w)])
  /\ UNCHANGED <<uses, sys, soft, newPin, isr, todo>>
Low(w) ==
  /\ worker[w].pc = "high" /\ ~Ends(w)
  /\ level' = IF worker[w].space # 0 THEN [level EXCEPT ![worker[w].pin] = 0] ELSE level
  /\ Becomes(w, [worker[w] EXCEPT !.pc = "low", !.nap = worker[w].space, !.space = 0])
  /\ UNCHANGED <<uses, sys, soft, newPin, isr, todo>>
Again(w) ==
  /\ worker[w].pc = "low" /\ ~Ends(w)
  /\ Becomes(w, [worker[w] EXCEPT !.pc = "loop", !.nap = 0])
  /\ UNCHANGED <<uses, sys, soft, newPin, level, isr, todo>>
\* No tone: delay (1).
Silent(w) ==
  /\ worker[w].pc = "loop" /\ worker[w].kind = "tone" /\ freqs[worker[w].pin] = 0
  /\ Becomes(w, [worker[w] EXCEPT !.pc = "low", !.nap = Pause])
  /\ UNCHANGED <<uses, sys, soft, newPin, level, isr, todo>>

\* interruptHandler: poll reports, the file is read, the function called.
Wake(w) ==
  /\ worker[w].pc = "loop" /\ worker[w].kind = "isr" /\ worker[w].pin \in edge
  /\ Moves(w, "woken")
  /\ UNCHANGED <<uses, sys, soft, newPin, level, isr, todo>>
\* (Mutant: the function is called first.)
ReadAndCallLate(w) ==
  \/ /\ worker[w].pc = "woken" /\ Moves(w, "called")
     /\ unserved' = unserved \ {worker[w].pin} /\ UNCHANGED edge
  \/ /\ worker[w].pc = "called" /\ Moves(w, "loop")
     /\ edge' = edge \ {worker[w].pin} /\ UNCHANGED unserved
ReadAndCall(w) ==
  \/ /\ worker[w].pc = "woken" /\ Moves(w, "called")
     /\ edge' = edge \ {worker[w].pin} /\ UNCHANGED unserved
  \/ /\ worker[w].pc = "called" /\ Moves(w, "loop")
     /\ unserved' = unserved \ {worker[w].pin} /\ UNCHANGED edge
Serve(w) ==
  /\ ReadAndCall(w)
  /\ UNCHANGED <<uses, sys, soft, newPin, level, sysFds, pinMutex, todo>>

\* An edge on a pin whose file is open.
Handles(w, p) == worker[w].kind = "isr" /\ worker[w].pin = p
Edge(p) ==
  /\ p \in sysFds
  /\ edge' = edge \cup {p}
  /\ unserved' = IF \E w \in Worker : Handles(w, p) THEN unserved \cup {p} ELSE unserved
  /\ UNCHANGED <<uses, sys, soft, newPin, level, sysFds, pinMutex, todo, worker>>

-----------------------------------------------------------------------------
SoftCall == \E p \in Pin :
  \/ \E r \in Ranges, v \in Values : SoftPwmCreate(p, v, r)
  \/ \E v \in Values : SoftPwmWrite(p, v)
  \/ \E f \in Tones : SoftToneWrite(p, f)
  \/ SoftPwmStop(p) \/ SoftToneCreate(p) \/ SoftToneStop(p)
  \/ SetPinMode(p) \/ PinModeSoftPwm(p)
IsrCall == \E c \in Caller, p \in Pin : WiringPiISR(c, p)
CallStep(c) == \/ StopNothing(c) \/ Cancel(c) \/ Join(c) \/ WriteLow(c)
               \/ ToneIfFree(c) \/ Create(c) \/ Await(c)
               \/ Open(c) \/ Lock(c) \/ Unlock(c)
WorkerStep(w) == \/ TakePin(w) \/ ClearPin(w) \/ End(w)
                 \/ High(w) \/ Low(w) \/ Again(w) \/ Silent(w)
                 \/ Wake(w) \/ Serve(w)

Next == \/ SoftCall \/ IsrCall
        \/ \E c \in Caller : CallStep(c)
        \/ \E w \in Worker : WorkerStep(w)
        \/ \E p \in Pin : Edge(p)

Spec == Init /\ [][Next]_vars

\* The scheduler runs every thread that can run.
FairSpec == /\ Spec
            /\ \A c \in Caller : WF_vars(CallStep(c))
            /\ \A w \in Worker : WF_vars(WorkerStep(w))

-----------------------------------------------------------------------------
(* Properties.                                                             *)

Steps == [op : {"stop", "join", "low", "toneIfFree", "create", "await", "open",
                "lock", "unlock"},
          kind : Kind, pin : Pin, val : Int, range : Int]

\* Every variable keeps its type.
TypeOK ==
  /\ uses \in Programs /\ sys \in BOOLEAN
  /\ marks \in [Pin -> Int] /\ range \in [Pin -> Int] /\ freqs \in [Pin -> 0..MaxTone]
  /\ threads \in [{"pwm", "tone"} -> [Pin -> Worker \cup {None}]]
  /\ newPin \in [Kind -> Pin \cup {None}]
  /\ level \in [Pin -> {0, 1}]
  /\ sysFds \subseteq Pin /\ pinMutex \in Caller \cup {None}
  /\ \A c \in Caller : todo[c] \in Seq(Steps)
  /\ worker \in [Worker ->
       [kind : Kind \cup {"none"}, pin : Pin \cup {None}, for : Pin \cup {None},
        pc : {"free", "start", "clear", "loop", "high", "low", "woken", "called", "ended"},
        nap : Int, space : Int, cancel : BOOLEAN]]
  /\ rangeless \subseteq Pin /\ unfit \subseteq Pin
  /\ edge \subseteq sysFds /\ unserved \subseteq sysFds

\* Every thread serves the pin it was created for, although creators pass it
\* through one variable.
OwnPin == \A w \in Worker : worker[w].pc \notin {"free", "start"} => worker[w].pin = worker[w].for

\* With the registers mapped, one thread at most drives a pin, whatever
\* mixture of PWM, tones and pinMode the program calls for, unless it gave
\* softPwmCreate a range of 0 for the pin: that thread cannot be stopped, and
\* softPwmCreate makes another beside it.
Drives(w, p) == worker[w].kind \in {"pwm", "tone"} /\ worker[w].for = p /\ worker[w].pc # "ended"
OneDriver == ~sys => \A p \in Pin \ rangeless :
  \A w, x \in Worker : Drives(w, p) /\ Drives(x, p) => w = x

\* No thread sleeps for an hour, a negative time, however softPwmWrite and the
\* stops of the pin fall, unless softPwmCreate was given an initial value
\* outside 0..range, or no range, for its pin.
NoHourSleep == \A w \in Worker :
  worker[w].nap < 0 => worker[w].kind = "pwm" /\ worker[w].for \in unfit

\* A stop returns where one half of the thread's round is long enough to sleep.
Joins(c, k, p) == At(c, "join") /\ Its(c).kind = k /\ Its(c).pin = p
StopReturns == \A p \in Pin :
  /\ (Joins(Main, "pwm", p) /\ (Long(marks[p]) \/ Long(range[p] - marks[p])))
       ~> ~Joins(Main, "pwm", p)
  /\ Joins(Main, "tone", p) ~> ~Joins(Main, "tone", p)

\* An edge on a pin with a handler is followed by a call of its function,
\* unless a further registration for the pin reads it away.
EdgeServed == \A p \in Pin : p \in unserved ~> p \notin unserved
=============================================================================
