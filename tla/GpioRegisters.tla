--------------------------- MODULE GpioRegisters ---------------------------
(***************************************************************************)
(* The register layer of the Python GPIO library: wiringTB.c, called       *)
(* through c_gpio.c.  A call changes the registers of one pin, but a word  *)
(* holds the fields of many: the data and direction words of a bank, the   *)
(* function and pull words of 8 pins, the clock gates of several banks.    *)
(* Every change is a read of the word and a write of the word, and nothing *)
(* excludes the threads that make them.  Words of the clock and pin        *)
(* controllers have write-enable bits, and a write takes only the fields   *)
(* whose bit is set; the data and direction words have none.               *)
(*                                                                         *)
(* A bank is reached only while its clock runs, so a call starts the clock *)
(* of its bank and leaves it as it was found.  Each access to a word is a  *)
(* step.  The fields a word is made of are a function; PyGpio and the PWM  *)
(* threads say which calls there are (todo).                               *)
(***************************************************************************)
EXTENDS Integers, Sequences

CONSTANTS
  Gpio,       \* the GPIO numbers in use
  Wired,      \* those gpio_is_valid knows
  PwmPin,     \* those of the hardware PWM
  Thread,
  Stopped     \* the banks whose clock is stopped when nobody uses them

Bank(g) == g \div 32
Banks == {Bank(g) : g \in Gpio}

ASSUME RegisterParameters ==
  /\ Gpio \subseteq 0..159
  /\ PwmPin \subseteq Wired /\ Wired \subseteq Gpio
  /\ Stopped \subseteq Banks

\* The pins that share the function and pull words of g; the banks that share
\* the clock gate word of b; the pins that share the data words of b.
Group(g) == {h \in Wired : h \div 8 = g \div 8}
GateWord(b) == {c \in Banks : (c < 2) = (b < 2)}
DataWord(b) == {g \in Wired : Bank(g) = b}

VARIABLES
  gate,       \* is the clock of a bank stopped?
  level, out, \* the data and direction bit of each pin
  mux, pull,  \* its function and its pull resistor
  todo,       \* the calls each thread has to make, the current one first
  pc, word, saved   \* the current call: the step, the word read, bank_clk_en

pinVars == <<level, out, mux, pull>>
localVars == <<word, saved>>
registerVars == <<gate, pinVars, todo, pc, localVars>>

Call(fn, g, val) == [fn |-> fn, gpio |-> g, val |-> val]
Current(t) == Head(todo[t])
BankOf(t) == Bank(Current(t).gpio)
Calls(t, fns) == todo[t] # <<>> /\ Current(t).fn \in fns

At(t, step) == todo[t] # <<>> /\ pc[t] = step
Go(t, step) == pc' = [pc EXCEPT ![t] = step] /\ UNCHANGED todo
Return(t) == /\ pc' = [pc EXCEPT ![t] = "start"]
             /\ todo' = [todo EXCEPT ![t] = Tail(@)]
Keep(t, w) == word' = [word EXCEPT ![t] = w]
Forget(t) == Keep(t, <<>>)
Fields(reg, fields) == [f \in fields |-> reg[f]]

\* A write of the whole word, and one with the write-enable bit of field f alone.
\* (The former is the mutant of the latter.)
StoreAll(reg, w, f) == [x \in DOMAIN reg |-> IF x \in DOMAIN w THEN w[x] ELSE reg[x]]
StoreMasked(reg, w, f) == [reg EXCEPT ![f] = w[f]]

\* The word a thread has read with field f changed, in which f always is.
Changed(t, f, val) == [word[t] EXCEPT ![f] = val]

----------------------------------------------------------------------------
(* The clock of the bank.                                                  *)

Gated(c) == c.gpio \in Wired \/ c.fn = "read"

\* gpio_clk_disable: remember the gate bit, then read and write the word.
SaveGate(t) ==
  /\ At(t, "start") /\ Calls(t, {"read", "write", "mode"}) /\ Gated(Current(t))
  /\ saved' = [saved EXCEPT ![t] = gate[BankOf(t)]]
  /\ Go(t, "peek")
  /\ UNCHANGED <<gate, pinVars, word>>

PeekGate(t) ==
  /\ At(t, "peek")
  /\ Keep(t, Fields(gate, GateWord(BankOf(t))))
  /\ Go(t, "open")
  /\ UNCHANGED <<gate, pinVars, saved>>

FirstAccess(c) ==
  CASE c.fn = "read" -> "look"
    [] c.fn = "write" -> "load"
    [] c.fn = "mode" /\ (c.val # "PWM" \/ c.gpio \in PwmPin) -> "load mux"
    [] OTHER -> "peek again"

OpenGate(t) ==
  /\ At(t, "open")
  /\ gate' = StoreMasked(gate, Changed(t, BankOf(t), FALSE), BankOf(t))
  /\ Forget(t)
  /\ Go(t, FirstAccess(Current(t)))
  /\ UNCHANGED <<pinVars, saved>>

\* gpio_clk_recovery.
PeekAgain(t) ==
  /\ At(t, "peek again")
  /\ Keep(t, Fields(gate, GateWord(BankOf(t))))
  /\ Go(t, "close")
  /\ UNCHANGED <<gate, pinVars, saved>>

\* (Mutant: the flag is not put back.)
NotRecovered(t) == word[t][BankOf(t)]
Recovered(t) == word[t][BankOf(t)] \/ saved[t]

CloseGate(t) ==
  /\ At(t, "close")
  /\ gate' = StoreMasked(gate, Changed(t, BankOf(t), Recovered(t)), BankOf(t))
  /\ Forget(t)
  /\ saved' = [saved EXCEPT ![t] = FALSE]
  /\ Return(t)
  /\ UNCHANGED pinVars

----------------------------------------------------------------------------
(* The pin.                                                                *)

\* asus_digitalRead and asus_get_pin_mode.
Look(t) ==
  /\ At(t, "look")
  /\ Go(t, "peek again")
  /\ UNCHANGED <<gate, pinVars, localVars>>

\* asus_set_pin_mode: the function of the pin, then for a GPIO its direction.
LoadMux(t) ==
  /\ At(t, "load mux")
  /\ Keep(t, Fields(mux, Group(Current(t).gpio)))
  /\ Go(t, "store mux")
  /\ UNCHANGED <<gate, pinVars, saved>>

StoreMux(t) ==
  LET c == Current(t)
      function == IF c.val = "PWM" THEN "pwm" ELSE "gpio"
  IN /\ At(t, "store mux")
     /\ mux' = StoreMasked(mux, Changed(t, c.gpio, function), c.gpio)
     /\ Forget(t)
     /\ Go(t, IF c.val = "PWM" THEN "peek again" ELSE "load")
     /\ UNCHANGED <<gate, level, out, pull, saved>>

\* The read-modify-write of asus_digitalWrite, and of the direction.
Load(t) ==
  /\ At(t, "load")
  /\ Keep(t, Fields(IF Calls(t, {"write"}) THEN level ELSE out, DataWord(BankOf(t))))
  /\ Go(t, "store")
  /\ UNCHANGED <<gate, pinVars, saved>>

Level(val) == IF val > 0 THEN 1 ELSE 0

StoreLevel(t) ==
  LET c == Current(t)
  IN /\ At(t, "store") /\ Calls(t, {"write"})
     /\ level' = StoreAll(level, Changed(t, c.gpio, Level(c.val)), c.gpio)
     /\ Forget(t)
     /\ Go(t, "peek again")
     /\ UNCHANGED <<gate, out, mux, pull, saved>>

StoreOut(t) ==
  LET c == Current(t)
  IN /\ At(t, "store") /\ Calls(t, {"mode"})
     /\ out' = StoreAll(out, Changed(t, c.gpio, IF c.val = "OUT" THEN 1 ELSE 0), c.gpio)
     /\ Forget(t)
     /\ Go(t, "peek again")
     /\ UNCHANGED <<gate, level, mux, pull, saved>>

\* asus_pullUpDnControl: the fields of the other pins are written as zeros,
\* which their write-enable bits keep out.  The word needs no clock.
SetPull(t) ==
  LET c == Current(t)
  IN /\ At(t, "start") /\ Calls(t, {"pull"}) /\ c.gpio \in Wired
     /\ pull' = StoreMasked(pull, [[h \in Group(c.gpio) |-> "off"] EXCEPT ![c.gpio] = c.val], c.gpio)
     /\ Return(t)
     /\ UNCHANGED <<gate, level, out, mux, localVars>>

\* A GPIO number gpio_is_valid does not know is left alone, without an error.
Ignore(t) ==
  /\ At(t, "start") /\ Calls(t, {"pull", "mode", "write"})
  /\ Current(t).gpio \notin Wired
  /\ Return(t)
  /\ UNCHANGED <<gate, pinVars, localVars>>

RegisterStep(t) ==
  \/ SaveGate(t) \/ PeekGate(t) \/ OpenGate(t) \/ PeekAgain(t) \/ CloseGate(t)
  \/ Look(t) \/ LoadMux(t) \/ StoreMux(t)
  \/ Load(t) \/ StoreLevel(t) \/ StoreOut(t) \/ SetPull(t) \/ Ignore(t)
=============================================================================
