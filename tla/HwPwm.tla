------------------------------- MODULE HwPwm -------------------------------
(***************************************************************************)
(* The hardware PWM of the board: three channels with a period, a low      *)
(* time, a clock divider and an enable bit each, written by wiringTB.c     *)
(* for the Python library (py_gpio.c) and for wiringPi (wiringPi.c).       *)
(*                                                                         *)
(* A register holds the low time; the functions speak of the high time, so *)
(* each change of the period reads the high time first and writes the low  *)
(* time again.  Registers are unsigned and wrap.  A channel counts while   *)
(* its words are written: a call is one function of wiringTB.c after       *)
(* another, and each of these a sequence of accesses, one per step.        *)
(*                                                                         *)
(* Where SoftPwm has a definition of the same name, the one here begins    *)
(* with Hw, so that one module can hold the proofs of both.                *)
(***************************************************************************)
EXTENDS Naturals, Sequences, SequencesExt

CONSTANTS
  Channels,   \* the PWM pins, in the order of asus_set_pwmRange
  Plain,      \* other pins of the program
  Size,       \* the values of a register, 2^32 on the board
  Clock,      \* the PWM clock before the divider, 48285715 Hz
  Lists,      \* the lists of pins the program passes
  Values, Periods, Divisors, Tones, Strengths,   \* the other arguments
  Directions, \* what setup makes of a pin, besides a PWM output
  DrivePins,  \* the pins whose drive strength it sets
  Alone       \* TRUE: pinMode makes a PWM output only while there is no other

PwmPin == ToSet(Channels)
Pin == PwmPin \cup Plain

ASSUME HwParameters ==
  /\ Channels \in Seq(ToSet(Channels)) /\ Lists \subseteq Seq(Pin)
  /\ Size \in Nat /\ Clock \in Nat /\ Clock < Size /\ 1024 < Size
  /\ PwmPin \cap Plain = {}
  /\ Values \subseteq 0..(Size - 1) /\ Periods \subseteq 0..(Size - 1)
  /\ Divisors \subseteq 0..(Size - 1) /\ Tones \subseteq Nat /\ Strengths \subseteq Nat
  /\ Directions \subseteq {"INPUT", "OUTPUT"} /\ DrivePins \subseteq Pin
  /\ Alone \in BOOLEAN

VARIABLES
  library,     \* the one the program uses, "python" or "wiringPi"
  direction,   \* gpio_direction[] of the Python library
  function,    \* the pins whose function is PWM
  period, low, \* the words *_PERIOD_HPR and *_DUTY_LPR
  half,        \* the divider field of *_CTRL, half the divisor
  on,          \* its enable bit
  drive,       \* the drive strength fields
  rest,        \* the functions that the call in progress has yet to call
  writes,      \* the accesses that the present one has yet to make
  asked,       \* history: the high time a program wrote last
  tone         \* history: the frequency of a tone nothing has replaced, or 0

words == <<period, low, half, on>>
hwVars == <<library, direction, function, period, low, half, on, drive, rest, writes, asked, tone>>

\* Unsigned subtraction.
Minus(a, b) == IF a >= b THEN a - b ELSE a + Size - b

\* asus_get_pwm_value of a channel in PWM mode.
HighTime(p) == Minus(period[p], low[p])

HwInit ==
  /\ library \in {"python", "wiringPi"}
  /\ direction = [p \in Pin |-> "none"]
  /\ function = {}
  /\ period = [p \in PwmPin |-> 0] /\ low = [p \in PwmPin |-> 0]
  /\ half = [p \in PwmPin |-> 0]
  /\ on = [p \in PwmPin |-> FALSE]
  /\ drive = [p \in Pin |-> 0]
  /\ rest = <<>> /\ writes = <<>>
  /\ asked = [p \in PwmPin |-> 0]
  /\ tone = [p \in PwmPin |-> 0]

-----------------------------------------------------------------------------
(* wiringTB.c: the accesses a function makes to a pin whose function is PWM. *)

Access(p, word, v) == [pin |-> p, word |-> word, val |-> v]

\* A word is written between a disable and an enable.
Guarded(p, word, v) ==
  <<Access(p, "on", 0), Access(p, word, v), Access(p, "on", 1)>>

\* asus_pwm_write: the low time is the rest of the period r.
PwmWrite(p, r, v) == Guarded(p, "low", Minus(r, v))

\* asus_set_pwmPeriod: the high time v is written again, unless it is -1.
\* (Mutant: it is not.)
SetPeriodOnly(p, r, v) == Guarded(p, "period", r)
SetPeriod(p, r, v) ==
  Guarded(p, "period", r) \o IF v # Size - 1 THEN PwmWrite(p, r, v) ELSE <<>>

\* asus_set_pwmFrequency.
Clamp(d) == IF d > 255 THEN 256 ELSE IF d < 2 THEN 2 ELSE d
SetFrequency(p, d) == Guarded(p, "half", Clamp(d) \div 2)

\* asus_pwmToneWrite: the divisor in force, and the period of frequency f.
Divisor(p) == IF half[p] = 0 THEN 512 ELSE 2 * half[p]
TonePeriod(p, f) == (Clock \div Divisor(p)) \div f

\* The high time of a tone.
\* (Mutant: half of the frequency, as in wiringPi's code for the Raspberry Pi.)
ToneHighFreq(p, f) == IF f = 0 THEN 0 ELSE f \div 2
ToneHigh(p, f) == IF f = 0 THEN 0 ELSE TonePeriod(p, f) \div 2

\* The period goes first, then the high time of half of it.
ToneWrite(p, f) ==
  IF f = 0 THEN PwmWrite(p, period[p], 0)
  ELSE SetPeriod(p, TonePeriod(p, f), HighTime(p)) \o PwmWrite(p, TonePeriod(p, f), ToneHigh(p, f))

-----------------------------------------------------------------------------
(* The functions of wiringTB.c that a call has yet to call, for a pin each.  *)

Each(fn, ps, vs) == [i \in DOMAIN ps |-> [fn |-> fn, pin |-> ps[i], val |-> vs[i]]]

\* asus_set_pwmRange and asus_set_pwmClock: every channel.
SetRange(r) == Each("range", Channels, [i \in DOMAIN Channels |-> r])
SetClock(d) == Each("clock", Channels, [i \in DOMAIN Channels |-> d])

Idle == rest = <<>> /\ writes = <<>>

\* The functions of py_gpio.c that take a list stop, with an exception, at the
\* first pin that setup did not make a PWM output.
Accepted(p) == library = "python" => direction[p] = "PWM_OUTPUT"

Raise ==
  /\ writes = <<>> /\ rest # <<>> /\ ~Accepted(Head(rest).pin)
  /\ rest' = <<>>
  /\ UNCHANGED <<library, direction, function, words, drive, writes, asked, tone>>

\* Each function looks the pin up and does nothing, but for a message, unless
\* its function is PWM.
Now(fns) ==
  /\ writes = <<>> /\ rest # <<>> /\ Head(rest).fn \in fns
  /\ Accepted(Head(rest).pin)
  /\ rest' = Tail(rest)
  /\ UNCHANGED <<library, direction, function, words, drive>>

Ignore ==
  /\ Now({"write", "tone", "period", "range", "frequency", "clock"})
  /\ Head(rest).pin \notin function
  /\ UNCHANGED <<writes, asked, tone>>

\* What happens to pin p is asked[p] = v and tone[p] = f from now on.
Make(p, accesses, v, f) ==
  /\ p \in function
  /\ writes' = accesses
  /\ asked' = [asked EXCEPT ![p] = v]
  /\ tone' = [tone EXCEPT ![p] = f]

MakeWrite ==
  LET p == Head(rest).pin
      v == Head(rest).val
  IN Now({"write"}) /\ Make(p, PwmWrite(p, period[p], v), v, 0)

MakeTone ==
  LET p == Head(rest).pin
      f == Head(rest).val
  IN Now({"tone"}) /\ Make(p, ToneWrite(p, f), ToneHigh(p, f), f)

\* The history of the tones leaves out range and clock here: PwmSetRange,
\* PwmSetClock and PinModePwm say which tones they replace.
MakePeriod ==
  LET p == Head(rest).pin
  IN /\ Now({"period", "range"})
     /\ Make(p, SetPeriod(p, Head(rest).val, HighTime(p)), asked[p],
             IF Head(rest).fn = "range" THEN tone[p] ELSE 0)

MakeFrequency ==
  LET p == Head(rest).pin
  IN /\ Now({"frequency", "clock"})
     /\ Make(p, SetFrequency(p, Head(rest).val), asked[p],
             IF Head(rest).fn = "clock" THEN tone[p] ELSE 0)

-----------------------------------------------------------------------------
(* The calls of the program, one at a time.                                 *)

With(lib) == library = lib /\ Idle /\ UNCHANGED <<library, words, writes, asked>>

\* The tones of the pins ps are replaced.
Silence(ps) == tone' = [p \in PwmPin |-> IF p \in ps THEN 0 ELSE tone[p]]

\* A pin's function becomes GPIO; the PWM words stay.
Leave(p) == /\ function' = function \ {p}
            /\ Silence({p})
            /\ UNCHANGED <<drive, rest>>

\* setup(p, IN) or setup(p, OUT), and cleanup(p).
Setup(p, d) ==
  /\ With("python")
  /\ direction' = [direction EXCEPT ![p] = d]
  /\ Leave(p)
Cleanup(p) ==
  /\ With("python") /\ direction[p] # "none"
  /\ direction' = [direction EXCEPT ![p] = "none"]
  /\ Leave(p)

\* asus_set_pin_mode(p, PWM_OUTPUT): other pins keep their function.
AsPwm(p) == function \cup ({p} \cap PwmPin)

\* setup(p, PWM): divider 124, period 1024.
SetupPwm(p) ==
  /\ With("python")
  /\ direction' = [direction EXCEPT ![p] = "PWM_OUTPUT"]
  /\ function' = AsPwm(p)
  /\ rest' = Each("frequency", <<p>>, <<124>>) \o Each("period", <<p>>, <<1024>>)
  /\ UNCHANGED <<drive, tone>>

\* A call with the functions cs to call.
Begin(lib, cs) ==
  /\ With(lib)
  /\ rest' = cs
  /\ UNCHANGED <<direction, function, drive>>

\* py_gpio.c: a list of pins and one value for each.
PyPwmWrite(ps, vs)        == Begin("python", Each("write", ps, vs)) /\ UNCHANGED tone
PyPwmToneWrite(ps, vs)    == Begin("python", Each("tone", ps, vs)) /\ UNCHANGED tone
PyPwmSetFrequency(ps, vs) == Begin("python", Each("frequency", ps, vs)) /\ UNCHANGED tone
PyPwmSetPeriod(ps, vs)    == Begin("python", Each("period", ps, vs)) /\ UNCHANGED tone

\* setGpioDrive of an output; the strength has two bits.
PySetGpioDrive(p, v) ==
  /\ With("python") /\ direction[p] = "OUTPUT"
  /\ drive' = [drive EXCEPT ![p] = v % 4]
  /\ UNCHANGED <<direction, function, rest, tone>>

(* wiringPi.  Its pwmWrite, pwmToneWrite and setPwmPeriod look at no        *)
(* direction; the divisors of setPwmFrequency and pwmSetClock are taken      *)
(* modulo 256.                                                             *)

\* pinMode(p, INPUT) and pinMode(p, OUTPUT).
PinMode(p) ==
  /\ With("wiringPi")
  /\ Leave(p)
  /\ UNCHANGED direction

\* pinMode(p, PWM_OUTPUT) sets range and clock of every channel.
PinModePwm(p) ==
  /\ With("wiringPi") /\ (Alone => function \subseteq {p})
  /\ function' = AsPwm(p)
  /\ rest' = SetRange(1024) \o SetClock(124)
  /\ Silence({p})
  /\ UNCHANGED <<direction, drive>>

WpiPwmWrite(p, v)     == Begin("wiringPi", Each("write", <<p>>, <<v>>)) /\ UNCHANGED tone
WpiPwmToneWrite(p, f) == Begin("wiringPi", Each("tone", <<p>>, <<f>>)) /\ UNCHANGED tone
SetPwmPeriod(p, r)    == Begin("wiringPi", Each("period", <<p>>, <<r>>)) /\ UNCHANGED tone
SetPwmFrequency(p, d) ==
  Begin("wiringPi", Each("frequency", <<p>>, <<d % 256>>)) /\ UNCHANGED tone
PwmSetRange(r) == Begin("wiringPi", SetRange(r)) /\ Silence(function)
PwmSetClock(d) == Begin("wiringPi", SetClock(d % 256)) /\ Silence(function)

-----------------------------------------------------------------------------
(* The accesses.                                                           *)

\* word, a function on the PWM pins, after access a if a writes the word name.
Written(word, name, a, v) == IF a.word = name THEN [word EXCEPT ![a.pin] = v] ELSE word

DoAccess ==
  /\ writes # <<>>
  /\ LET a == Head(writes)
     IN /\ period' = Written(period, "period", a, a.val)
        /\ low' = Written(low, "low", a, a.val)
        /\ half' = Written(half, "half", a, a.val)
        /\ on' = Written(on, "on", a, a.val = 1)
  /\ writes' = Tail(writes)
  /\ UNCHANGED <<library, direction, function, drive, rest, asked, tone>>

\* The values for the list ps: one each.
For(ps, S) == [DOMAIN ps -> S]

PyCall ==
  \/ \E p \in Pin : \/ \E d \in Directions : Setup(p, d)
                    \/ SetupPwm(p)
                    \/ Cleanup(p)
  \/ \E p \in DrivePins : \E v \in Strengths : PySetGpioDrive(p, v)
  \/ \E ps \in Lists : \/ \E vs \in For(ps, Values)   : PyPwmWrite(ps, vs)
                       \/ \E vs \in For(ps, Tones)    : PyPwmToneWrite(ps, vs)
                       \/ \E vs \in For(ps, Divisors) : PyPwmSetFrequency(ps, vs)
                       \/ \E vs \in For(ps, Periods)  : PyPwmSetPeriod(ps, vs)
WpiCall ==
  \/ \E p \in Pin : \/ PinMode(p)
                    \/ PinModePwm(p)
  \/ \E p \in PwmPin : \/ \E v \in Values   : WpiPwmWrite(p, v)
                       \/ \E f \in Tones    : WpiPwmToneWrite(p, f)
                       \/ \E r \in Periods  : SetPwmPeriod(p, r)
                       \/ \E d \in Divisors : SetPwmFrequency(p, d)
  \/ \E r \in Periods : PwmSetRange(r)
  \/ \E d \in Divisors : PwmSetClock(d)

FunctionStep == Raise \/ Ignore \/ MakeWrite \/ MakeTone \/ MakePeriod \/ MakeFrequency \/ DoAccess

HwNext == PyCall \/ WpiCall \/ FunctionStep

HwSpec == HwInit /\ [][HwNext]_hwVars

-----------------------------------------------------------------------------
(* Properties.                                                             *)

Word == 0..(Size - 1)
Functions == [fn : {"write", "tone", "period", "range", "frequency", "clock"}, pin : Pin, val : Nat]
Accesses == [pin : PwmPin, word : {"period", "low", "half", "on"}, val : Word]

\* Every variable keeps its type; the divider field fits the divisors 2 to 256.
HwTypeOK ==
  /\ library \in {"python", "wiringPi"}
  /\ direction \in [Pin -> {"none", "INPUT", "OUTPUT", "PWM_OUTPUT"}]
  /\ function \subseteq PwmPin
  /\ period \in [PwmPin -> Word] /\ low \in [PwmPin -> Word]
  /\ half \in [PwmPin -> 0..128]
  /\ on \in [PwmPin -> BOOLEAN]
  /\ drive \in [Pin -> 0..3]
  /\ rest \in Seq(Functions) /\ writes \in Seq(Accesses)
  /\ asked \in [PwmPin -> Word] /\ tone \in [PwmPin -> Tones \cup {0}]

\* Between calls the high time of a channel is the one written last, whatever
\* periods, clocks and functions were set since, also where it exceeds the
\* period; only -1 is lost by a change of the period.
HighTimeKept ==
  writes = <<>> => \A p \in PwmPin : asked[p] # Size - 1 => HighTime(p) = asked[p]

\* A tone sounds, at its frequency up to the rounding of the period and with
\* equal halves, until the program changes its channel, the range or the clock.
ToneHeard ==
  writes = <<>> => \A p \in PwmPin : tone[p] # 0 =>
    LET clock == Clock \div Divisor(p)
    IN /\ period[p] * tone[p] <= clock /\ clock < (period[p] + 1) * tone[p]
       /\ HighTime(p) = period[p] \div 2
=============================================================================
