------------------------------- MODULE PyGpio -------------------------------
(***************************************************************************)
(* The channel functions of the Python GPIO library: py_gpio.c and         *)
(* common.c over the registers.  setup, output, input, cleanup and setmode *)
(* keep a table of what each channel was set up as, and go through a list  *)
(* of channels with calls on their pins; a channel that fails ends the     *)
(* list where it is.                                                       *)
(*                                                                         *)
(* The functions exclude each other by the interpreter lock.  The threads  *)
(* of the software PWM write their pins without it, in the middle of a     *)
(* function's calls.  Here a PWM thread is on, ending or off; SoftPwm has  *)
(* the rest of it, and EventGpio what cleanup does to edge detection.      *)
(***************************************************************************)
EXTENDS GpioRegisters

CONSTANTS
  Main,         \* the thread that holds the interpreter lock
  SoftPin,      \* the pin of each other thread, a software PWM
  Chan,         \* the channels a program passes; those that are no GPIO are invalid
  ModeArgs,     \* what the program passes to setmode
  Setups,       \* the calls of setup: channels, direction, pull, initial
  Outputs,      \* the calls of output: channels and values
  Cleanups,     \* the lists of channels passed to cleanup
  PowerOn,      \* the configurations pins may have when the program starts
  Apart         \* TRUE: no function uses the bank of a pin with a PWM

NumberingModes == {"BOARD", "BCM", "RK", "ASUS"}
Directions == {"none", "IN", "OUT", "PWM"}
PwmThread == Thread \ {Main}
Unasked == -1

ASSUME PyParameters ==
  /\ Main \in Thread /\ SoftPin \in [PwmThread -> Wired]
  /\ Setups \subseteq [chans : Seq(Chan), dir : {"IN", "OUT", "PWM"},
                      pull : {"off", "down", "up"}, initial : Int]
  /\ Outputs \subseteq [chans : Seq(Chan), values : Seq(Int)]
  /\ \A r \in Outputs : Len(r.chans) = Len(r.values)
  /\ Cleanups \subseteq Seq(Chan)
  /\ PowerOn \subseteq [level : {0, 1}, out : {0, 1}, mux : {"gpio", "pwm", "other"},
                       pull : {"off", "down", "up"}]
  /\ Apart \in BOOLEAN

VARIABLES
  mapped,      \* module_setup: the registers are mapped
  mode,        \* gpio_mode
  direction,   \* gpio_direction
  rest,        \* what the function in progress has yet to do, channel by channel
  playing,     \* is the PWM of a thread on, ending or off?
  asked        \* the level and pull the program asked last of each pin

tableVars == <<mapped, mode, direction>>
vars == <<registerVars, tableVars, rest, playing, asked>>

Init ==
  /\ \E p \in PowerOn :
       /\ level = [g \in Gpio |-> p.level] /\ out = [g \in Gpio |-> p.out]
       /\ mux = [g \in Gpio |-> p.mux] /\ pull = [g \in Gpio |-> p.pull]
  /\ gate = [b \in Banks |-> b \in Stopped]
  /\ todo = [t \in Thread |-> <<>>] /\ pc = [t \in Thread |-> "start"]
  /\ word = [t \in Thread |-> <<>>] /\ saved = [t \in Thread |-> FALSE]
  /\ mapped = FALSE /\ mode = "UNKNOWN"
  /\ direction = [g \in Gpio |-> "none"]
  /\ rest = <<>>
  /\ playing = [t \in PwmThread |-> "off"]
  /\ asked = [g \in Gpio |-> [level |-> Unasked, pull |-> pull[g]]]

----------------------------------------------------------------------------

Idle(t) == todo[t] = <<>>
Free == Idle(Main) /\ rest = <<>>
Busy(t) == playing[t] # "off" \/ ~Idle(t)

\* The assumption on programs that Apart names.
MayUse(gs) ==
  Apart => \A t \in PwmThread : Busy(t) => Bank(SoftPin[t]) \notin {Bank(g) : g \in gs}

\* get_gpio_number fails unless the numbering mode is one of the four.
Numbered == mode \in NumberingModes
Valid(c) == Numbered /\ c \in Gpio

\* py_setmode stores the mode before it finds out that it is invalid.
SetMode(m) ==
  /\ Free
  /\ mode = "UNKNOWN"
  /\ mode' = m
  /\ UNCHANGED <<registerVars, mapped, direction, rest, playing, asked>>

Do(calls) == todo' = [todo EXCEPT ![Main] = calls]

\* py_input_gpio and py_gpio_function.
Input(g) ==
  /\ Free /\ Numbered /\ mapped /\ direction[g] \in {"IN", "OUT"} /\ MayUse({g})
  /\ Do(<<Call("read", g, "none")>>)
  /\ UNCHANGED <<gate, pinVars, pc, localVars, tableVars, rest, playing, asked>>

GpioFunction(g) ==
  /\ Free /\ Numbered /\ MayUse({g})
  /\ mapped' = TRUE
  /\ Do(<<Call("read", g, "none")>>)
  /\ UNCHANGED <<gate, pinVars, pc, localVars, mode, direction, rest, playing, asked>>

----------------------------------------------------------------------------
(* The functions that take lists.                                          *)

\* What such a function does for each channel of its list.
Each(fn, chans, args) == [i \in DOMAIN chans |-> [fn |-> fn, chan |-> chans[i], arg |-> args[i]]]

Begin(gs, items) ==
  /\ Free /\ MayUse(gs)
  /\ rest' = items
  /\ UNCHANGED <<registerVars, mode, direction, playing, asked>>

ValidOf(chans) == {g \in Gpio : \E i \in DOMAIN chans : chans[i] = g}

\* py_setup_channel maps the registers even if no channel can be set up.
Setup(r) ==
  /\ Begin(ValidOf(r.chans), Each("setup", r.chans, [i \in DOMAIN r.chans |-> r]))
  /\ mapped' = TRUE

\* py_output_gpio.
Output(r) == Begin(ValidOf(r.chans), Each("output", r.chans, r.values)) /\ UNCHANGED mapped

\* py_cleanup of channels, and without one: every channel of the table below
\* 258, and the numbering mode.
CleanupChannels(list) ==
  mapped /\ Begin(ValidOf(list), Each("cleanup", list, list)) /\ UNCHANGED mapped

Remembered == {g \in 0..257 : g \in Gpio /\ direction[g] # "none"}

CleanupAll ==
  mapped /\ Begin(Remembered, Each("cleanup all", <<"all">>, <<"all">>)) /\ UNCHANGED mapped

\* The next channel of the list.
Now(fn) == Idle(Main) /\ rest # <<>> /\ Head(rest).fn = fn

\* An exception ends the list: the channel is invalid, or no output.
Raise ==
  /\ Idle(Main) /\ rest # <<>> /\ ~Now("cleanup all")
  /\ \/ ~Valid(Head(rest).chan)
     \/ Now("output") /\ direction[Head(rest).chan] # "OUT"
  /\ rest' = <<>>
  /\ UNCHANGED <<registerVars, tableVars, playing, asked>>

\* hard_pwm_set_Frequency and hard_pwm_set_Period look the pin's mode up, once
\* each where there is no hardware PWM, else also to restore the duty cycle.
PwmCalls(g) == [i \in 1 .. (IF g \in PwmPin THEN 4 ELSE 2) |-> Call("read", g, "none")]

\* setup_one.  The initial level comes before the direction.  An output has no
\* pull.  (Mutants: the level comes last; it is forgotten.)
HasLevel(r) == r.dir = "OUT" /\ r.initial \in {0, 1}
PullOf(r) == IF r.dir = "OUT" THEN "off" ELSE r.pull
LevelCall(g, r) == IF HasLevel(r) THEN <<Call("write", g, r.initial)>> ELSE <<>>
PinCalls(g, r) == <<Call("pull", g, PullOf(r)), Call("mode", g, r.dir)>>
LastCalls(g, r) ==
  (IF r.dir = "PWM" THEN PwmCalls(g) ELSE <<>>) \o <<Call("remember", g, r.dir)>>
SetupOneLate(g, r) ==
  <<Call("read", g, "none")>> \o PinCalls(g, r) \o LevelCall(g, r) \o LastCalls(g, r)
SetupOneNoLevel(g, r) == <<Call("read", g, "none")>> \o PinCalls(g, r) \o LastCalls(g, r)
SetupOne(g, r) ==
  <<Call("read", g, "none")>> \o LevelCall(g, r) \o PinCalls(g, r) \o LastCalls(g, r)

SetupChannel ==
  LET g == Head(rest).chan
      r == Head(rest).arg
  IN /\ Now("setup") /\ Valid(g)
     /\ Do(SetupOne(g, r)) /\ rest' = Tail(rest)
     /\ asked' = [asked EXCEPT ![g] = [level |-> IF HasLevel(r) THEN r.initial ELSE @.level,
                                       pull |-> PullOf(r)]]
     /\ UNCHANGED <<gate, pinVars, pc, localVars, tableVars, playing>>

OutputChannel ==
  LET g == Head(rest).chan
      value == Head(rest).arg
  IN /\ Now("output") /\ Valid(g) /\ direction[g] = "OUT"
     /\ Do(<<Call("write", g, value)>>) /\ rest' = Tail(rest)
     /\ asked' = [asked EXCEPT ![g].level = Level(value)]
     /\ UNCHANGED <<gate, pinVars, pc, localVars, tableVars, playing>>

\* cleanup_one, and the body of the loop over the table.
CleanupOne(g) ==
  /\ Do(<<Call("pull", g, "off"), Call("mode", g, "IN"), Call("remember", g, "none")>>)
  /\ asked' = [asked EXCEPT ![g].pull = "off"]
  /\ UNCHANGED <<gate, pinVars, pc, localVars, tableVars, playing>>

CleanupChannel ==
  LET g == Head(rest).chan
  IN /\ Now("cleanup") /\ Valid(g)
     /\ rest' = Tail(rest)
     /\ IF direction[g] # "none" THEN CleanupOne(g)
        ELSE UNCHANGED <<registerVars, tableVars, playing, asked>>

CleanupNext ==
  /\ Now("cleanup all")
  /\ \E g \in Remembered : (\A h \in Remembered : g <= h) /\ CleanupOne(g)
  /\ UNCHANGED rest

CleanupEnd ==
  /\ Now("cleanup all") /\ Remembered = {}
  /\ mode' = "UNKNOWN" /\ rest' = Tail(rest)
  /\ UNCHANGED <<registerVars, mapped, direction, playing, asked>>

\* The last step of setup_one and cleanup_one: gpio_direction.
Remember ==
  /\ Calls(Main, {"remember"})
  /\ direction' = [direction EXCEPT ![Current(Main).gpio] = Current(Main).val]
  /\ Return(Main)
  /\ UNCHANGED <<gate, pinVars, localVars, mapped, mode, rest, playing, asked>>

----------------------------------------------------------------------------
(* The software PWM of SoftPin[t].                                         *)

StartPwm(t) ==
  /\ Free /\ direction[SoftPin[t]] = "OUT" /\ ~Busy(t)
  /\ MayUse({SoftPin[t]})
  /\ playing' = [playing EXCEPT ![t] = "on"]
  /\ asked' = [asked EXCEPT ![SoftPin[t]].level = Unasked]
  /\ UNCHANGED <<registerVars, tableVars, rest>>

StopPwm(t) ==
  /\ Free /\ playing[t] = "on"
  /\ playing' = [playing EXCEPT ![t] = "ending"]
  /\ UNCHANGED <<registerVars, tableVars, rest, asked>>

\* The thread's output_gpio calls: any while it is on, then a last low.
PwmWrite(t) ==
  /\ Idle(t)
  /\ \/ playing[t] = "on" /\ UNCHANGED playing
        /\ \E v \in {0, 1} : todo' = [todo EXCEPT ![t] = <<Call("write", SoftPin[t], v)>>]
     \/ playing[t] = "ending" /\ playing' = [playing EXCEPT ![t] = "off"]
        /\ todo' = [todo EXCEPT ![t] = <<Call("write", SoftPin[t], 0)>>]
  /\ UNCHANGED <<gate, pinVars, pc, localVars, tableVars, rest, asked>>

Step(t) == RegisterStep(t) /\ UNCHANGED <<tableVars, rest, playing, asked>>

Function ==
  \/ \E m \in ModeArgs : SetMode(m)
  \/ \E g \in Gpio : Input(g) \/ GpioFunction(g)
  \/ \E r \in Setups : Setup(r)
  \/ \E r \in Outputs : Output(r)
  \/ \E list \in Cleanups : CleanupChannels(list)
  \/ CleanupAll

FunctionStep == \/ Raise \/ SetupChannel \/ OutputChannel
                \/ CleanupChannel \/ CleanupNext \/ CleanupEnd
                \/ Remember

Next ==
  \/ Function \/ FunctionStep
  \/ \E t \in PwmThread : StartPwm(t) \/ StopPwm(t) \/ PwmWrite(t)
  \/ \E t \in Thread : Step(t)

Spec == Init /\ [][Next]_vars

----------------------------------------------------------------------------
(* Properties                                                              *)

IsCall(c) ==
  /\ c.gpio \in Gpio
  /\ \/ c.fn = "read" /\ c.val = "none"
     \/ c.fn = "write" /\ c.val \in Int
     \/ c.fn = "pull" /\ c.val \in {"off", "down", "up"}
     \/ c.fn \in {"mode", "remember"} /\ c.val \in Directions

\* Types: the bits are bits whatever integer a program passes to output, and a
\* thread holds a word only between a read and the write that belongs to it.
TypeOK ==
  /\ gate \in [Banks -> BOOLEAN]
  /\ level \in [Gpio -> {0, 1}] /\ out \in [Gpio -> {0, 1}]
  /\ mux \in [Gpio -> {"gpio", "pwm", "other"}] /\ pull \in [Gpio -> {"off", "down", "up"}]
  /\ \A t \in Thread :
       /\ \A i \in DOMAIN todo[t] : IsCall(todo[t][i])
       /\ word[t] # <<>> <=> pc[t] \in {"open", "store mux", "store", "close"}
       /\ pc[t] # "start" => todo[t] # <<>>
  /\ saved \in [Thread -> BOOLEAN]
  /\ mapped \in BOOLEAN /\ mode \in NumberingModes \cup ModeArgs \cup {"UNKNOWN"}
  /\ direction \in [Gpio -> Directions]
  /\ \A i \in DOMAIN rest : rest[i].fn \in {"setup", "output", "cleanup", "cleanup all"}
  /\ playing \in [PwmThread -> {"on", "ending", "off"}]
  /\ asked \in [Gpio -> [level : {Unasked, 0, 1}, pull : {"off", "down", "up"}]]

\* The data registers of a bank are accessed only while its clock runs, though
\* other threads start and stop the clocks of other banks in the same word
\* (gpio_clk_disable, gpio_clk_recovery).
ClockRuns ==
  \A t \in Thread : pc[t] \in {"load", "store", "look"} => ~gate[BankOf(t)]

\* A bank no call is working on has its clock as it was before the program:
\* no interleaving of the saves and restores of different banks loses one.
ClocksRestored ==
  \A b \in Banks :
    (\A t \in Thread : pc[t] # "start" => BankOf(t) # b) => gate[b] = (b \in Stopped)

\* Between functions, and between the channels of a list, the registers of a pin
\* agree with the table and with what was asked last, after a failed channel too.
PinsAsAsked ==
  Idle(Main) => \A g \in Wired :
    /\ direction[g] # "none" => pull[g] = asked[g].pull
    /\ direction[g] = "IN" => mux[g] = "gpio" /\ out[g] = 0
    /\ direction[g] = "OUT" => mux[g] = "gpio" /\ out[g] = 1
    /\ direction[g] = "PWM" /\ g \in PwmPin => mux[g] = "pwm"
    /\ asked[g].level # Unasked => level[g] = asked[g].level

Driven(g) == mux[g] = "gpio" /\ out[g] = 1

\* A pin that begins to be driven has at once the level the program asked
\* for, the initial value of setup included: never a glitch of the old one.
NoGlitch ==
  [][\A g \in Wired : Driven(g)' /\ ~Driven(g) /\ asked[g].level # Unasked
       => level'[g] = asked[g].level]_vars
=============================================================================
