---------------------------- MODULE PyGpioProofs ----------------------------
(***************************************************************************)
(* Proofs about PyGpio over GpioRegisters, for any pins, banks, PWM        *)
(* threads and lists of channels: types, and that a call changes no pin    *)
(* but its own until two threads race on a word (PyRaces).                 *)
(*                                                                         *)
(* For programs that keep their functions out of the bank of a running     *)
(* software PWM: the clock of a bank runs when it is used and is put back, *)
(* the pins are as they were asked to be after every function, and a pin   *)
(* is not driven at a level nobody asked for.  The inductive invariant is  *)
(* TypeInv /\ PinsInv.                                                     *)
(***************************************************************************)
EXTENDS PyRaces, SequenceTheorems, TLAPS

-----------------------------------------------------------------------------
(* The invariants.                                                         *)

CallSet ==
  [fn : {"read"}, gpio : Gpio, val : {"none"}] \cup [fn : {"write"}, gpio : Gpio, val : Int]
  \cup [fn : {"pull"}, gpio : Gpio, val : {"off", "down", "up"}]
  \cup [fn : {"mode"}, gpio : Gpio, val : {"IN", "OUT", "PWM"}]
  \cup [fn : {"remember"}, gpio : Gpio, val : Directions]

Item == [fn : {"setup"}, chan : Chan, arg : Setups] \cup [fn : {"output"}, chan : Chan, arg : Int]
        \cup [fn : {"cleanup"}, chan : Chan, arg : Chan]
        \cup [fn : {"cleanup all"}, chan : {"all"}, arg : {"all"}]

GateSteps == {"peek", "open"}
PinSteps == {"look", "load mux", "store mux", "load", "store"}
LastSteps == {"peek again", "close"}

PinTypes ==
  /\ gate \in [Banks -> BOOLEAN]
  /\ level \in [Gpio -> {0, 1}] /\ out \in [Gpio -> {0, 1}]
  /\ mux \in [Gpio -> {"gpio", "pwm", "other"}] /\ pull \in [Gpio -> {"off", "down", "up"}]

\* What a step says of the call it is a step of.
StepOf(t) ==
  /\ pc[t] # "start" => /\ todo[t] # <<>> /\ Current(t).fn \in {"read", "write", "mode"}
                        /\ Gated(Current(t))
  /\ pc[t] = "look" => Current(t).fn = "read"
  /\ pc[t] \in {"load mux", "store mux"} =>
       /\ Current(t).fn = "mode"
       /\ Current(t).val # "PWM" \/ Current(t).gpio \in PwmPin
  /\ pc[t] \in {"load", "store"} => /\ Current(t).fn \in {"write", "mode"}
                                    /\ Current(t).fn = "mode" => Current(t).val # "PWM"

\* The word a thread holds.
WordOf(t) ==
  /\ pc[t] \in {"open", "close"} => word[t] \in [GateWord(BankOf(t)) -> BOOLEAN]
  /\ pc[t] = "store mux" => word[t] \in [Group(Current(t).gpio) -> {"gpio", "pwm", "other"}]
  /\ pc[t] = "store" => word[t] \in [DataWord(BankOf(t)) -> {0, 1}]
  /\ pc[t] \notin {"open", "close", "store mux", "store"} => word[t] = <<>>

ThreadTypes ==
  /\ todo \in [Thread -> Seq(CallSet)]
  /\ pc \in [Thread -> {"start"} \cup GateSteps \cup PinSteps \cup LastSteps]
  /\ DOMAIN word = Thread /\ word = [t \in Thread |-> word[t]]
  /\ saved \in [Thread -> BOOLEAN]
  /\ \A t \in Thread : StepOf(t) /\ WordOf(t)

TableTypes ==
  /\ mapped \in BOOLEAN /\ mode \in NumberingModes \cup ModeArgs \cup {"UNKNOWN"}
  /\ direction \in [Gpio -> Directions]
  /\ rest \in Seq(Item)
  /\ playing \in [PwmThread -> {"on", "ending", "off"}]
  /\ asked \in [Gpio -> [level : {Unasked, 0, 1}, pull : {"off", "down", "up"}]]

TypeInv == PinTypes /\ ThreadTypes /\ TableTypes

\* A PWM thread makes one call at a time, which is a write of its pin.
PwmCall(t) == todo[t] # <<>> => /\ Len(todo[t]) = 1 /\ Current(t).fn = "write"
                                /\ Current(t).gpio = SoftPin[t]

\* Nobody else is in the bank of a PWM thread at work, or is about to be.
Alone(t) ==
  Busy(t) =>
    /\ \A i \in 1..Len(todo[Main]) : Bank(todo[Main][i].gpio) # Bank(SoftPin[t])
    /\ \A i \in 1..Len(rest) :
         IF rest[i].fn = "cleanup all" THEN \A g \in Remembered : Bank(g) # Bank(SoftPin[t])
         ELSE rest[i].chan \in Gpio => Bank(rest[i].chan) # Bank(SoftPin[t])
    /\ \A u \in PwmThread : u # t /\ Busy(u) => Bank(SoftPin[u]) # Bank(SoftPin[t])
    /\ asked[SoftPin[t]].level = Unasked
AloneInv == \A t \in PwmThread : PwmCall(t) /\ Alone(t)

\* The configuration that direction d stands for.
Conforms(g, d) ==
  /\ d = "IN" => mux[g] = "gpio" /\ out[g] = 0
  /\ d = "OUT" => mux[g] = "gpio" /\ out[g] = 1
  /\ d = "PWM" /\ g \in PwmPin => mux[g] = "pwm"

\* The clock of the bank a call is on, and what the call has done to its pin.
ClockOf(t) ==
  /\ pc[t] = "start" => saved[t] = FALSE
  /\ pc[t] # "start" => saved[t] = (BankOf(t) \in Stopped)
  /\ pc[t] \in GateSteps => gate[BankOf(t)] = (BankOf(t) \in Stopped)
  /\ pc[t] \in PinSteps \cup LastSteps => gate[BankOf(t)] = FALSE
  /\ pc[t] = "close" => word[t][BankOf(t)] = FALSE
DoneOf(t) ==
  LET c == Current(t)
  IN /\ pc[t] = "store" =>
          word[t] = Fields(IF c.fn = "write" THEN level ELSE out, DataWord(BankOf(t)))
     /\ pc[t] \in {"load", "store"} /\ c.fn = "mode" => mux[c.gpio] = "gpio"
     /\ pc[t] \in LastSteps =>
          /\ c.fn = "write" => level[c.gpio] = Level(c.val)
          /\ c.fn = "mode" => Conforms(c.gpio, c.val)
CallsInv == ClocksRestored /\ \A t \in Thread : ClockOf(t) /\ DoneOf(t)

\* The calls left to make for a channel: at most one write, none after the mode,
\* and last the direction that the mode is of.
Shape(s) ==
  /\ \A i, j \in 1..Len(s) :
       /\ s[i].gpio = s[j].gpio
       /\ i < j => /\ s[i].fn = "write" => s[j].fn # "write"
                   /\ s[i].fn = "mode" => s[j].fn \in {"read", "remember"}
                   /\ s[i].fn # "remember"
  /\ \A i \in 1..Len(s) : s[i].fn = "mode" =>
       \E j \in 1..Len(s) : i < j /\ s[j].fn = "remember" /\ s[j].val \in {s[i].val, "none"}

\* Has function fn still to be called for pin g?  With a value that ok holds of.
Ahead(fn, g) == \E i \in 1..Len(todo[Main]) : todo[Main][i].fn = fn /\ todo[Main][i].gpio = g
PullKept(g) ==
  IF Ahead("pull", g)
  THEN \A i \in 1..Len(todo[Main]) : todo[Main][i].fn = "pull" => todo[Main][i].val = asked[g].pull
  ELSE pull[g] = asked[g].pull
LevelKept(g) ==
  asked[g].level # Unasked =>
    IF Ahead("write", g)
    THEN \A i \in 1..Len(todo[Main]) :
           todo[Main][i].fn = "write" => Level(todo[Main][i].val) = asked[g].level
    ELSE level[g] = asked[g].level
ModeKept(g) ==
  ~Ahead("mode", g) =>
    IF Ahead("remember", g)
    THEN \A i \in 1..Len(todo[Main]) :
           todo[Main][i].fn = "remember" => Conforms(g, todo[Main][i].val)
    ELSE Conforms(g, direction[g])
AskedInv == Shape(todo[Main]) /\ \A g \in Wired : PullKept(g) /\ LevelKept(g) /\ ModeKept(g)

PinsInv == AloneInv /\ CallsInv /\ AskedInv

-----------------------------------------------------------------------------
(* Lists of calls.                                                         *)

LEMMA TailKnows ==
  ASSUME NEW S, NEW s \in Seq(S), s # <<>>
  PROVE  /\ Len(s) \in Nat \ {0} /\ Head(s) = s[1] /\ s[1] \in S
         /\ Tail(s) \in Seq(S) /\ Len(Tail(s)) = Len(s) - 1
         /\ \A i \in 1..Len(Tail(s)) : i + 1 \in 1..Len(s) /\ Tail(s)[i] = s[i + 1]
<1>1. Len(s) \in Nat \ {0}
  OBVIOUS
<1> QED BY <1>1

LEMMA CallIs ==
  ASSUME NEW c \in CallSet
  PROVE  /\ c.gpio \in Gpio /\ Bank(c.gpio) \in Banks
         /\ c.fn \in {"read", "write", "pull", "mode", "remember"}
         /\ c.fn = "read" => c.val = "none"
         /\ c.fn = "write" => c.val \in Int
         /\ c.fn = "pull" => c.val \in {"off", "down", "up"}
         /\ c.fn = "mode" => c.val \in {"IN", "OUT", "PWM"}
         /\ c.fn = "remember" => c.val \in Directions
<1>1. CASE c \in [fn : {"read"}, gpio : Gpio, val : {"none"}]
  BY <1>1 DEF Banks
<1>2. CASE c \in [fn : {"write"}, gpio : Gpio, val : Int]
  BY <1>2 DEF Banks
<1>3. CASE c \in [fn : {"pull"}, gpio : Gpio, val : {"off", "down", "up"}]
  BY <1>3 DEF Banks
<1>4. CASE c \in [fn : {"mode"}, gpio : Gpio, val : {"IN", "OUT", "PWM"}]
  BY <1>4 DEF Banks
<1>5. CASE c \in [fn : {"remember"}, gpio : Gpio, val : Directions]
  BY <1>5 DEF Banks
<1> QED BY <1>1, <1>2, <1>3, <1>4, <1>5 DEF CallSet

LEMMA CurrentIs ==
  ASSUME ThreadTypes, NEW t \in Thread, todo[t] # <<>>
  PROVE  /\ Current(t) \in CallSet /\ Current(t) = todo[t][1] /\ 1 \in 1..Len(todo[t])
         /\ todo[t] \in Seq(CallSet)
         /\ BankOf(t) = Bank(Current(t).gpio)
         /\ BankOf(t) \in Banks /\ BankOf(t) \in GateWord(BankOf(t))
         /\ GateWord(BankOf(t)) \subseteq Banks
         /\ Group(Current(t).gpio) \subseteq Gpio /\ DataWord(BankOf(t)) \subseteq Gpio
         /\ Current(t).gpio \in Wired =>
              Current(t).gpio \in Group(Current(t).gpio) \cap DataWord(BankOf(t))
<1>1. todo[t] \in Seq(CallSet) /\ Len(todo[t]) \in Nat \ {0}
      /\ Current(t) = todo[t][1] /\ todo[t][1] \in CallSet
  BY TailKnows DEF ThreadTypes, Current
<1>2. Bank(Current(t).gpio) \in Banks
  BY <1>1, CallIs
<1>3. BankOf(t) \in GateWord(BankOf(t)) /\ GateWord(BankOf(t)) \subseteq Banks
  BY <1>2 DEF BankOf, GateWord
<1>4. BankOf(t) = Bank(Current(t).gpio)
  BY DEF BankOf
<1>5. Group(Current(t).gpio) \subseteq Gpio /\ DataWord(BankOf(t)) \subseteq Gpio
  BY RegisterParameters DEF Group, DataWord
<1>6. Current(t).gpio \in Wired => Current(t).gpio \in Group(Current(t).gpio) \cap DataWord(BankOf(t))
  BY <1>4 DEF Group, DataWord
<1> QED BY <1>1, <1>2, <1>3, <1>4, <1>5, <1>6

-----------------------------------------------------------------------------
(* Types.                                                                  *)

\* A step of another thread.
LEMMA SameThread ==
  ASSUME NEW u, todo'[u] = todo[u], pc'[u] = pc[u], word'[u] = word[u]
  PROVE  /\ Current(u)' = Current(u) /\ BankOf(u)' = BankOf(u)
         /\ StepOf(u)' <=> StepOf(u)
         /\ WordOf(u)' <=> WordOf(u)
BY DEF Current, BankOf, StepOf, WordOf

\* What a step of thread t leaves alone.
Frame(t) ==
  /\ \A u \in Thread \ {t} : /\ todo'[u] = todo[u] /\ pc'[u] = pc[u]
                             /\ word'[u] = word[u] /\ saved'[u] = saved[u]
  /\ \/ todo'[t] = todo[t]
     \/ pc'[t] = "start" /\ todo[t] # <<>> /\ todo'[t] = Tail(todo[t])
  /\ DOMAIN word' = Thread /\ word' = [u \in Thread |-> word'[u]]
  /\ todo' \in [Thread -> Seq(CallSet)]
  /\ pc' \in [Thread -> {"start"} \cup GateSteps \cup PinSteps \cup LastSteps]
  /\ saved' \in [Thread -> BOOLEAN]

LEMMA FrameOf ==
  ASSUME ThreadTypes, NEW t \in Thread,
         NEW p \in {"start"} \cup GateSteps \cup PinSteps \cup LastSteps,
         pc' = [pc EXCEPT ![t] = p],
         \/ UNCHANGED todo
         \/ p = "start" /\ todo[t] # <<>> /\ todo' = [todo EXCEPT ![t] = Tail(@)],
         UNCHANGED word \/ \E w : word' = [word EXCEPT ![t] = w],
         UNCHANGED saved \/ \E x \in BOOLEAN : saved' = [saved EXCEPT ![t] = x]
  PROVE  Frame(t) /\ pc'[t] = p
<1>1. /\ todo \in [Thread -> Seq(CallSet)]
      /\ pc \in [Thread -> {"start"} \cup GateSteps \cup PinSteps \cup LastSteps]
      /\ DOMAIN word = Thread /\ word = [u \in Thread |-> word[u]]
      /\ saved \in [Thread -> BOOLEAN]
  BY DEF ThreadTypes
<1>2. /\ pc'[t] = p /\ \A u \in Thread \ {t} : pc'[u] = pc[u]
      /\ pc' \in [Thread -> {"start"} \cup GateSteps \cup PinSteps \cup LastSteps]
  BY <1>1
<1>3. /\ \A u \in Thread \ {t} : todo'[u] = todo[u]
      /\ \/ todo'[t] = todo[t]
         \/ p = "start" /\ todo[t] # <<>> /\ todo'[t] = Tail(todo[t])
      /\ todo' \in [Thread -> Seq(CallSet)]
  <2>1. CASE UNCHANGED todo
    BY <1>1, <2>1
  <2>2. CASE p = "start" /\ todo[t] # <<>> /\ todo' = [todo EXCEPT ![t] = Tail(@)]
    <3>1. Tail(todo[t]) \in Seq(CallSet)
      BY <1>1, <2>2, TailKnows
    <3> QED BY <1>1, <2>2, <3>1
  <2> QED BY <2>1, <2>2
<1>4. /\ \A u \in Thread \ {t} : word'[u] = word[u]
      /\ DOMAIN word' = Thread /\ word' = [u \in Thread |-> word'[u]]
  <2>1. CASE UNCHANGED word
    BY <1>1, <2>1
  <2>2. ASSUME NEW w, word' = [word EXCEPT ![t] = w]
        PROVE  /\ \A u \in Thread \ {t} : word'[u] = word[u]
               /\ DOMAIN word' = Thread /\ word' = [u \in Thread |-> word'[u]]
    BY <1>1, <2>2
  <2> QED BY <2>1, <2>2
<1>5. saved' \in [Thread -> BOOLEAN] /\ \A u \in Thread \ {t} : saved'[u] = saved[u]
  BY <1>1
<1> QED BY <1>2, <1>3, <1>4, <1>5 DEF Frame

LEMMA FrameTypes ==
  ASSUME ThreadTypes, NEW t \in Thread, Frame(t), StepOf(t)', WordOf(t)'
  PROVE  ThreadTypes'
<1>1. \A u \in Thread \ {t} : StepOf(u)' /\ WordOf(u)'
  BY SameThread DEF Frame, ThreadTypes
<1> QED BY <1>1 DEF Frame, ThreadTypes

\* A step of a call: it is in order and takes the thread to a step in order.
LEMMA GateTypes ==
  ASSUME TypeInv, NEW t \in Thread, SaveGate(t) \/ PeekGate(t) \/ OpenGate(t) \/ PeekAgain(t) \/ CloseGate(t)
  PROVE  PinTypes' /\ ThreadTypes' /\ Frame(t)
<1>1. PinTypes /\ ThreadTypes /\ StepOf(t) /\ WordOf(t) /\ todo[t] # <<>>
  BY DEF TypeInv, ThreadTypes, SaveGate, PeekGate, OpenGate, PeekAgain, CloseGate, At
<1>2. /\ Current(t) \in CallSet /\ BankOf(t) \in Banks /\ BankOf(t) \in GateWord(BankOf(t))
      /\ GateWord(BankOf(t)) \subseteq Banks
  BY <1>1, CurrentIs
<1>3. gate \in [Banks -> BOOLEAN]
  BY <1>1 DEF PinTypes
<1>4. Fields(gate, GateWord(BankOf(t))) \in [GateWord(BankOf(t)) -> BOOLEAN]
  BY <1>2, <1>3 DEF Fields
<1>5. DOMAIN word = Thread /\ word = [u \in Thread |-> word[u]]
  BY <1>1 DEF ThreadTypes
<1>6. CASE SaveGate(t)
  <2>1. /\ pc[t] = "start" /\ pc' = [pc EXCEPT ![t] = "peek"] /\ UNCHANGED <<gate, pinVars, todo, word>>
        /\ saved' = [saved EXCEPT ![t] = gate[BankOf(t)]]
        /\ Current(t).fn \in {"read", "write", "mode"} /\ Gated(Current(t))
    BY <1>6 DEF SaveGate, At, Calls, Go
  <2>2. Frame(t) /\ pc'[t] = "peek"
    BY <1>1, <1>2, <1>3, <2>1, FrameOf DEF GateSteps
  <2>3. Current(t)' = Current(t) /\ word'[t] = <<>>
    BY <1>1, <2>1 DEF Current, WordOf
  <2>4. StepOf(t)' /\ WordOf(t)'
    BY <1>1, <2>1, <2>2, <2>3 DEF StepOf, WordOf
  <2>5. PinTypes'
    BY <1>1, <2>1 DEF PinTypes, pinVars
  <2> QED BY <1>1, <2>2, <2>4, <2>5, FrameTypes
<1>7. ASSUME NEW p \in {"open", "close"}, pc[t] \in {"peek", "peek again"},
             pc' = [pc EXCEPT ![t] = p], UNCHANGED <<gate, pinVars, todo, saved>>,
             word' = [word EXCEPT ![t] = Fields(gate, GateWord(BankOf(t)))]
      PROVE  PinTypes' /\ ThreadTypes' /\ Frame(t)
  <2>1. Frame(t) /\ pc'[t] = p
    BY <1>1, <1>7, FrameOf DEF GateSteps, LastSteps
  <2>2. Current(t)' = Current(t) /\ BankOf(t)' = BankOf(t)
        /\ word'[t] = Fields(gate, GateWord(BankOf(t)))
    BY <1>5, <1>7 DEF Current, BankOf
  <2>3. StepOf(t)' /\ WordOf(t)'
    BY <1>1, <1>4, <1>7, <2>1, <2>2 DEF StepOf, WordOf
  <2>4. PinTypes'
    BY <1>1, <1>7 DEF PinTypes, pinVars
  <2> QED BY <1>1, <2>1, <2>3, <2>4, FrameTypes
<1>8. CASE PeekGate(t)
  BY <1>7, <1>8 DEF PeekGate, At, Go, Keep, pinVars
<1>9. CASE PeekAgain(t)
  BY <1>7, <1>9 DEF PeekAgain, At, Go, Keep, pinVars
<1>10. CASE OpenGate(t)
  <2> DEFINE p == FirstAccess(Current(t))
  <2>1. /\ pc[t] = "open" /\ pc' = [pc EXCEPT ![t] = p] /\ UNCHANGED <<pinVars, todo, saved>>
        /\ gate' = [gate EXCEPT ![BankOf(t)] = Changed(t, BankOf(t), FALSE)[BankOf(t)]]
        /\ word' = [word EXCEPT ![t] = <<>>]
    BY <1>10 DEF OpenGate, At, Go, Forget, Keep, StoreMasked
  <2>2. Current(t).fn \in {"read", "write", "mode"} /\ Gated(Current(t))
    BY <1>1, <2>1 DEF StepOf
  <2>3. /\ p \in {"look", "load", "load mux", "peek again"}
        /\ p = "look" => Current(t).fn = "read"
        /\ p = "load" => Current(t).fn = "write"
        /\ p = "load mux" => /\ Current(t).fn = "mode"
                             /\ Current(t).val # "PWM" \/ Current(t).gpio \in PwmPin
    <3>1. CASE Current(t).fn = "read"
      BY <3>1 DEF FirstAccess
    <3>2. CASE Current(t).fn = "write"
      BY <3>2 DEF FirstAccess
    <3>3. CASE Current(t).fn = "mode"
      BY <3>3 DEF FirstAccess
    <3> QED BY <2>2, <3>1, <3>2, <3>3
  <2> HIDE DEF p
  <2>4. Changed(t, BankOf(t), FALSE)[BankOf(t)] = FALSE
    BY <1>1, <1>2, <2>1 DEF Changed, WordOf
  <2>5. Frame(t) /\ pc'[t] = p
    BY <1>1, <2>1, <2>3, FrameOf DEF PinSteps, LastSteps
  <2>6. Current(t)' = Current(t) /\ word'[t] = <<>>
    BY <1>5, <2>1 DEF Current
  <2>7. StepOf(t)' /\ WordOf(t)'
    BY <1>1, <2>1, <2>2, <2>3, <2>5, <2>6 DEF StepOf, WordOf, Gated
  <2>8. PinTypes'
    BY <1>1, <1>2, <1>3, <2>1, <2>4 DEF PinTypes, pinVars
  <2> QED BY <1>1, <2>5, <2>7, <2>8, FrameTypes
<1>11. CASE CloseGate(t)
  <2>1. /\ pc[t] = "close" /\ pc' = [pc EXCEPT ![t] = "start"] /\ UNCHANGED pinVars
        /\ todo' = [todo EXCEPT ![t] = Tail(@)]
        /\ gate' = [gate EXCEPT ![BankOf(t)] = Changed(t, BankOf(t), Recovered(t))[BankOf(t)]]
        /\ word' = [word EXCEPT ![t] = <<>>] /\ saved' = [saved EXCEPT ![t] = FALSE]
    BY <1>11 DEF CloseGate, At, Return, Forget, Keep, StoreMasked
  <2>2. Changed(t, BankOf(t), Recovered(t))[BankOf(t)] = Recovered(t) /\ Recovered(t) \in BOOLEAN
    BY <1>1, <1>2, <2>1 DEF Changed, WordOf, Recovered, ThreadTypes
  <2>3. Frame(t) /\ pc'[t] = "start"
    BY <1>1, <2>1, FrameOf
  <2>4. word'[t] = <<>>
    BY <1>5, <2>1
  <2>5. StepOf(t)' /\ WordOf(t)'
    BY <2>3, <2>4 DEF StepOf, WordOf
  <2>6. PinTypes'
    BY <1>1, <1>2, <1>3, <2>1, <2>2 DEF PinTypes, pinVars
  <2> QED BY <1>1, <2>3, <2>5, <2>6, FrameTypes
<1> QED BY <1>6, <1>8, <1>9, <1>10, <1>11

LEMMA PinStepTypes ==
  ASSUME TypeInv, NEW t \in Thread,
         \/ Look(t) \/ LoadMux(t) \/ StoreMux(t) \/ Load(t) \/ StoreLevel(t) \/ StoreOut(t)
         \/ SetPull(t) \/ Ignore(t)
  PROVE  PinTypes' /\ ThreadTypes' /\ Frame(t)
<1> DEFINE c == Current(t)
<1>1. PinTypes /\ ThreadTypes /\ StepOf(t) /\ WordOf(t) /\ todo[t] # <<>>
  BY DEF TypeInv, ThreadTypes, Look, LoadMux, StoreMux, Load, StoreLevel, StoreOut, SetPull, Ignore, At
<1>2. /\ c \in CallSet /\ c.gpio \in Gpio /\ Group(c.gpio) \subseteq Gpio /\ DataWord(BankOf(t)) \subseteq Gpio
      /\ c.gpio \in Wired => c.gpio \in Group(c.gpio) \cap DataWord(BankOf(t))
  BY <1>1, CurrentIs, CallIs
<1>3. /\ level \in [Gpio -> {0, 1}] /\ out \in [Gpio -> {0, 1}]
      /\ mux \in [Gpio -> {"gpio", "pwm", "other"}] /\ pull \in [Gpio -> {"off", "down", "up"}]
      /\ DOMAIN word = Thread /\ word = [u \in Thread |-> word[u]]
  BY <1>1 DEF PinTypes, ThreadTypes
<1>4. ASSUME pc[t] \in PinSteps, NEW p \in PinSteps \cup {"peek again"}, pc' = [pc EXCEPT ![t] = p],
             UNCHANGED <<todo, saved>>, NEW w, word' = [word EXCEPT ![t] = w],
             IF p = "store mux" THEN w \in [Group(c.gpio) -> {"gpio", "pwm", "other"}]
             ELSE IF p = "store" THEN w \in [DataWord(BankOf(t)) -> {0, 1}] ELSE w = <<>>,
             p = "look" => c.fn = "read",
             p \in {"load mux", "store mux"} => c.fn = "mode" /\ (c.val # "PWM" \/ c.gpio \in PwmPin),
             p \in {"load", "store"} => c.fn \in {"write", "mode"} /\ (c.fn = "mode" => c.val # "PWM")
      PROVE  ThreadTypes' /\ Frame(t)
  <2>1. Frame(t) /\ pc'[t] = p
    BY <1>1, <1>4, FrameOf DEF LastSteps
  <2>2. Current(t)' = Current(t) /\ BankOf(t)' = BankOf(t) /\ word'[t] = w
    BY <1>3, <1>4 DEF Current, BankOf
  <2>3. todo'[t] # <<>> /\ c.fn \in {"read", "write", "mode"} /\ Gated(c)
    BY <1>1, <1>4 DEF StepOf, PinSteps
  <2>4. StepOf(t)'
    BY <1>4, <2>1, <2>2, <2>3 DEF StepOf
  <2>5. WordOf(t)'
    BY <1>4, <2>1, <2>2 DEF WordOf, PinSteps
  <2> QED BY <1>1, <2>1, <2>4, <2>5, FrameTypes
<1>5. ASSUME pc[t] = "start", pc' = [pc EXCEPT ![t] = "start"], todo' = [todo EXCEPT ![t] = Tail(@)],
             UNCHANGED <<word, saved>>
      PROVE  ThreadTypes' /\ Frame(t)
  <2>1. Frame(t) /\ pc'[t] = "start"
    BY <1>1, <1>5, FrameOf
  <2>2. StepOf(t)' /\ WordOf(t)'
    BY <1>1, <1>5, <2>1 DEF StepOf, WordOf
  <2> QED BY <1>1, <2>1, <2>2, FrameTypes
<1>6. CASE Look(t)
  <2>1. /\ pc[t] = "look" /\ pc' = [pc EXCEPT ![t] = "peek again"]
        /\ UNCHANGED <<gate, pinVars, todo, saved, word>> /\ word[t] = <<>>
    BY <1>1, <1>6 DEF Look, At, Go, localVars, WordOf
  <2>2. word' = [word EXCEPT ![t] = <<>>]
    BY <1>3, <2>1
  <2>3. PICK p : p = "peek again"
    OBVIOUS
  <2>4. p \in PinSteps \cup {"peek again"} /\ pc[t] \in PinSteps
    BY <2>1, <2>3 DEF PinSteps
  <2>5. ThreadTypes' /\ Frame(t)
    BY <1>4, <2>1, <2>2, <2>3, <2>4
  <2> QED BY <1>1, <2>1, <2>5 DEF PinTypes, pinVars
<1>7. CASE LoadMux(t)
  <2>1. /\ pc[t] = "load mux" /\ pc' = [pc EXCEPT ![t] = "store mux"] /\ UNCHANGED <<gate, pinVars, todo, saved>>
        /\ word' = [word EXCEPT ![t] = Fields(mux, Group(c.gpio))]
    BY <1>7 DEF LoadMux, At, Go, Keep
  <2>2. Fields(mux, Group(c.gpio)) \in [Group(c.gpio) -> {"gpio", "pwm", "other"}]
    BY <1>2, <1>3 DEF Fields
  <2>3. c.fn = "mode" /\ (c.val # "PWM" \/ c.gpio \in PwmPin)
    BY <1>1, <2>1 DEF StepOf
  <2>4. PICK p : p = "store mux"
    OBVIOUS
  <2>5. p \in PinSteps \cup {"peek again"} /\ pc[t] \in PinSteps
    BY <2>1, <2>4 DEF PinSteps
  <2>6. ThreadTypes' /\ Frame(t)
    BY <1>4, <2>1, <2>2, <2>3, <2>4, <2>5
  <2> QED BY <1>1, <2>1, <2>6 DEF PinTypes, pinVars
<1>8. CASE StoreMux(t)
  <2> DEFINE function == IF c.val = "PWM" THEN "pwm" ELSE "gpio"
             p == IF c.val = "PWM" THEN "peek again" ELSE "load"
  <2>1. /\ pc[t] = "store mux" /\ pc' = [pc EXCEPT ![t] = p]
        /\ UNCHANGED <<gate, level, out, pull, todo, saved>>
        /\ mux' = [mux EXCEPT ![c.gpio] = Changed(t, c.gpio, function)[c.gpio]]
        /\ word' = [word EXCEPT ![t] = <<>>]
    BY <1>8 DEF StoreMux, At, Go, Forget, Keep, StoreMasked
  <2>2. c.fn = "mode" /\ c.gpio \in Wired /\ (c.val # "PWM" \/ c.gpio \in PwmPin)
    BY <1>1, <2>1 DEF StepOf, Gated
  <2>3. Changed(t, c.gpio, function)[c.gpio] = function
    BY <1>1, <1>2, <2>1, <2>2 DEF Changed, WordOf
  <2>4. PinTypes'
    BY <1>1, <1>2, <1>3, <2>1, <2>3 DEF PinTypes
  <2>5. p \in {"peek again", "load"} /\ (p = "load" => c.val # "PWM")
    OBVIOUS
  <2> HIDE DEF p
  <2> QED BY <1>4, <2>1, <2>2, <2>4, <2>5 DEF PinSteps
<1>9. CASE Load(t)
  <2> DEFINE reg == IF Calls(t, {"write"}) THEN level ELSE out
  <2>1. /\ pc[t] = "load" /\ pc' = [pc EXCEPT ![t] = "store"] /\ UNCHANGED <<gate, pinVars, todo, saved>>
        /\ word' = [word EXCEPT ![t] = Fields(reg, DataWord(BankOf(t)))]
    BY <1>9 DEF Load, At, Go, Keep
  <2>2. Fields(reg, DataWord(BankOf(t))) \in [DataWord(BankOf(t)) -> {0, 1}]
    BY <1>2, <1>3 DEF Fields
  <2>3. c.fn \in {"write", "mode"} /\ (c.fn = "mode" => c.val # "PWM")
    BY <1>1, <2>1 DEF StepOf
  <2> HIDE DEF reg
  <2>4. PICK p : p = "store"
    OBVIOUS
  <2>5. p \in PinSteps \cup {"peek again"} /\ pc[t] \in PinSteps
    BY <2>1, <2>4 DEF PinSteps
  <2>6. ThreadTypes' /\ Frame(t)
    BY <1>4, <2>1, <2>2, <2>3, <2>4, <2>5
  <2> QED BY <1>1, <2>1, <2>6 DEF PinTypes, pinVars
<1>10. ASSUME NEW v \in {0, 1}, NEW reg \in [Gpio -> {0, 1}], pc[t] = "store", c.gpio \in Wired
       PROVE  StoreAll(reg, Changed(t, c.gpio, v), c.gpio) \in [Gpio -> {0, 1}]
  <2>1. word[t] \in [DataWord(BankOf(t)) -> {0, 1}]
    BY <1>1, <1>10 DEF WordOf
  <2>2. Changed(t, c.gpio, v) \in [DataWord(BankOf(t)) -> {0, 1}]
    BY <1>2, <1>10, <2>1 DEF Changed
  <2> QED BY <1>2, <2>2 DEF StoreAll
<1>11. CASE StoreLevel(t)
  <2>1. /\ pc[t] = "store" /\ pc' = [pc EXCEPT ![t] = "peek again"]
        /\ UNCHANGED <<gate, out, mux, pull, todo, saved>> /\ word' = [word EXCEPT ![t] = <<>>]
        /\ level' = StoreAll(level, Changed(t, c.gpio, Level(c.val)), c.gpio) /\ c.fn = "write"
    BY <1>11 DEF StoreLevel, At, Go, Forget, Keep, Calls
  <2>2. Level(c.val) \in {0, 1} /\ c.gpio \in Wired
    BY <1>1, <2>1 DEF StepOf, Gated, Level
  <2>3. PinTypes'
    BY <1>1, <1>3, <1>10, <2>1, <2>2 DEF PinTypes
  <2>4. PICK p : p = "peek again"
    OBVIOUS
  <2>5. p \in PinSteps \cup {"peek again"} /\ pc[t] \in PinSteps
    BY <2>1, <2>4 DEF PinSteps
  <2>6. ThreadTypes' /\ Frame(t)
    BY <1>4, <2>1, <2>2, <2>3, <2>4, <2>5
  <2> QED BY <2>3, <2>6
<1>12. CASE StoreOut(t)
  <2> DEFINE v == IF c.val = "OUT" THEN 1 ELSE 0
  <2>1. /\ pc[t] = "store" /\ pc' = [pc EXCEPT ![t] = "peek again"]
        /\ UNCHANGED <<gate, level, mux, pull, todo, saved>> /\ word' = [word EXCEPT ![t] = <<>>]
        /\ out' = StoreAll(out, Changed(t, c.gpio, v), c.gpio) /\ c.fn = "mode"
    BY <1>12 DEF StoreOut, At, Go, Forget, Keep, Calls
  <2>2. v \in {0, 1} /\ c.gpio \in Wired
    BY <1>1, <2>1 DEF StepOf, Gated
  <2>3. PinTypes'
    BY <1>1, <1>3, <1>10, <2>1, <2>2 DEF PinTypes
  <2>4. PICK p : p = "peek again"
    OBVIOUS
  <2>5. p \in PinSteps \cup {"peek again"} /\ pc[t] \in PinSteps
    BY <2>1, <2>4 DEF PinSteps
  <2>6. ThreadTypes' /\ Frame(t)
    BY <1>4, <2>1, <2>2, <2>3, <2>4, <2>5
  <2> QED BY <2>3, <2>6
<1>13. CASE SetPull(t)
  <2>1. /\ pc[t] = "start" /\ pc' = [pc EXCEPT ![t] = "start"] /\ todo' = [todo EXCEPT ![t] = Tail(@)]
        /\ UNCHANGED <<gate, level, out, mux, word, saved>> /\ c.fn = "pull" /\ c.gpio \in Wired
        /\ pull' = [pull EXCEPT ![c.gpio] =
                      [[h \in Group(c.gpio) |-> "off"] EXCEPT ![c.gpio] = c.val][c.gpio]]
    BY <1>13 DEF SetPull, At, Return, Calls, StoreMasked, localVars
  <2>2. c.val \in {"off", "down", "up"}
    BY <1>2, <2>1, CallIs
  <2>3. [[h \in Group(c.gpio) |-> "off"] EXCEPT ![c.gpio] = c.val][c.gpio] = c.val
    BY <1>2, <2>1
  <2>4. PinTypes'
    BY <1>1, <1>2, <1>3, <2>1, <2>2, <2>3 DEF PinTypes
  <2> QED BY <1>5, <2>1, <2>4
<1>14. CASE Ignore(t)
  <2>1. /\ pc[t] = "start" /\ pc' = [pc EXCEPT ![t] = "start"] /\ todo' = [todo EXCEPT ![t] = Tail(@)]
        /\ UNCHANGED <<gate, pinVars, word, saved>>
    BY <1>14 DEF Ignore, At, Return, localVars
  <2> QED BY <1>1, <1>5, <2>1 DEF PinTypes, pinVars
<1> QED BY <1>6, <1>7, <1>8, <1>9, <1>11, <1>12, <1>13, <1>14

LEMMA RegisterTypes ==
  ASSUME TypeInv, NEW t \in Thread, RegisterStep(t)
  PROVE  PinTypes' /\ ThreadTypes' /\ Frame(t)
BY GateTypes, PinStepTypes DEF RegisterStep

-----------------------------------------------------------------------------
(* The calls that set a channel up.                                        *)

Request == [chans : Seq(Chan), dir : {"IN", "OUT", "PWM"}, pull : {"off", "down", "up"}, initial : Int]

\* The calls up to the mode.
FirstCalls(g, r) == <<Call("read", g, "none")>> \o LevelCall(g, r) \o PinCalls(g, r)

LEMMA CallsAre ==
  ASSUME NEW g \in Gpio
  PROVE  /\ Call("read", g, "none") \in CallSet
         /\ \A v \in Int : Call("write", g, v) \in CallSet
         /\ \A v \in {"off", "down", "up"} : Call("pull", g, v) \in CallSet
         /\ \A v \in {"IN", "OUT", "PWM"} : Call("mode", g, v) \in CallSet
         /\ \A v \in Directions : Call("remember", g, v) \in CallSet
BY DEF Call, CallSet

LEMMA Joined ==
  ASSUME NEW S, NEW a \in Seq(S), NEW b \in Seq(S)
  PROVE  /\ a \o b \in Seq(S) /\ Len(a \o b) = Len(a) + Len(b) /\ Len(a) \in Nat /\ Len(b) \in Nat
         /\ \A i \in 1..Len(a) : (a \o b)[i] = a[i]
         /\ \A i \in 1..Len(b) : (a \o b)[Len(a) + i] = b[i]
<1>1. Len(a) \in Nat /\ Len(b) \in Nat
  OBVIOUS
<1>2. /\ a \o b \in Seq(S) /\ Len(a \o b) = Len(a) + Len(b)
      /\ \A i \in 1 .. Len(a) + Len(b) :
           (a \o b)[i] = IF i <= Len(a) THEN a[i] ELSE b[i - Len(a)]
  BY ConcatProperties
<1>3. ASSUME NEW i \in 1..Len(a) PROVE (a \o b)[i] = a[i]
  BY <1>1, <1>2
<1>4. ASSUME NEW i \in 1..Len(b) PROVE (a \o b)[Len(a) + i] = b[i]
  <2>1. Len(a) + i \in 1 .. Len(a) + Len(b) /\ ~(Len(a) + i <= Len(a)) /\ (Len(a) + i) - Len(a) = i
    BY <1>1
  <2> QED BY <1>2, <2>1
<1> QED BY <1>1, <1>2, <1>3, <1>4

LEMMA Singles ==
  ASSUME NEW S, NEW c \in S, NEW d \in S
  PROVE  /\ <<c>> \in Seq(S) /\ Len(<<c>>) = 1 /\ <<c>>[1] = c
         /\ <<c, d>> \in Seq(S) /\ Len(<<c, d>>) = 2 /\ <<c, d>>[1] = c /\ <<c, d>>[2] = d
         /\ <<>> \in Seq(S) /\ Len(<<>>) = 0
OBVIOUS

LEMMA FirstCallsKnow ==
  ASSUME NEW g \in Gpio, NEW r \in Request, NEW f, f = FirstCalls(g, r)
  PROVE  \E k \in {3, 4} :
           /\ f \in Seq(CallSet) /\ Len(f) = k
           /\ f[1] = Call("read", g, "none")
           /\ k = 4 <=> HasLevel(r)
           /\ k = 4 => f[2] = Call("write", g, r.initial)
           /\ f[k - 1] = Call("pull", g, PullOf(r))
           /\ f[k] = Call("mode", g, r.dir)
<1>1. PICK a, b, c, d : /\ a = Call("read", g, "none") /\ b = Call("write", g, r.initial)
                        /\ c = Call("pull", g, PullOf(r)) /\ d = Call("mode", g, r.dir)
  OBVIOUS
<1>2. a \in CallSet /\ b \in CallSet /\ c \in CallSet /\ d \in CallSet
  BY <1>1, CallsAre DEF Request, PullOf
<1>3. PICK w \in Seq(CallSet) : /\ w = LevelCall(g, r)
                                /\ HasLevel(r) => Len(w) = 1 /\ w[1] = b
                                /\ ~HasLevel(r) => Len(w) = 0
  BY <1>1, <1>2, Singles DEF LevelCall
<1>4. PICK u \in Seq(CallSet) : u = <<a>> /\ Len(u) = 1 /\ u[1] = a
  BY <1>2, Singles
<1>5. PICK v \in Seq(CallSet) : v = <<c, d>> /\ Len(v) = 2 /\ v[1] = c /\ v[2] = d
  <2>1. <<c, d>> \in Seq(CallSet) /\ Len(<<c, d>>) = 2 /\ <<c, d>>[1] = c /\ <<c, d>>[2] = d
    BY <1>2
  <2> QED BY <2>1
<1>6. PICK x \in Seq(CallSet) : /\ x = u \o w /\ Len(x) = 1 + Len(w) /\ x[1] = a
                                /\ \A i \in 1..Len(w) : x[1 + i] = w[i]
  <2>1. 1 \in 1..Len(u)
    BY <1>4
  <2>2. /\ u \o w \in Seq(CallSet) /\ Len(u \o w) = Len(u) + Len(w)
        /\ \A i \in 1..Len(u) : (u \o w)[i] = u[i]
        /\ \A i \in 1..Len(w) : (u \o w)[Len(u) + i] = w[i]
    BY Joined
  <2> QED BY <1>4, <2>1, <2>2
<1>7. f = x \o v
  BY <1>1, <1>3, <1>4, <1>5, <1>6 DEF FirstCalls, PinCalls
<1>8. /\ f \in Seq(CallSet) /\ Len(f) = Len(x) + 2
      /\ \A i \in 1..Len(x) : f[i] = x[i]
      /\ \A i \in 1..2 : f[Len(x) + i] = v[i]
  BY <1>5, <1>7, Joined
<1>9. f[Len(x) + 1] = c /\ f[Len(x) + 2] = d
  <2>1. 1 \in 1..2 /\ 2 \in 1..2
    OBVIOUS
  <2> QED BY <1>5, <1>8, <2>1
<1>10. CASE HasLevel(r)
  <2>1. Len(x) = 2 /\ Len(f) = 4 /\ x[2] = b
    <3>1. Len(w) = 1 /\ w[1] = b
      BY <1>3, <1>10
    <3>2. 1 \in 1..Len(w) /\ 1 + 1 = 2
      BY <3>1
    <3>3. x[1 + 1] = w[1]
      BY <1>6, <3>2
    <3> QED BY <1>6, <1>8, <3>1, <3>2, <3>3
  <2>2. f[1] = a /\ f[2] = b /\ f[3] = c /\ f[4] = d
    <3>1. 1 \in 1..2 /\ 2 \in 1..2
      OBVIOUS
    <3> QED BY <1>6, <1>8, <1>9, <2>1, <3>1
  <2>3. /\ f \in Seq(CallSet) /\ Len(f) = 4 /\ f[1] = a /\ f[2] = b /\ f[4 - 1] = c /\ f[4] = d
    BY <1>8, <2>1, <2>2
  <2> QED BY <1>1, <1>10, <2>3
<1>11. CASE ~HasLevel(r)
  <2>1. Len(x) = 1 /\ Len(f) = 3
    BY <1>3, <1>6, <1>8, <1>11
  <2>2. f[1] = a /\ f[2] = c /\ f[3] = d
    <3>1. 1 \in 1..1
      OBVIOUS
    <3> QED BY <1>6, <1>8, <1>9, <2>1, <3>1
  <2>3. /\ f \in Seq(CallSet) /\ Len(f) = 3 /\ f[1] = a /\ f[3 - 1] = c /\ f[3] = d /\ 3 # 4
    BY <1>8, <2>1, <2>2
  <2> QED BY <1>1, <1>11, <2>3
<1> QED BY <1>10, <1>11

LEMMA LastCallsKnow ==
  ASSUME NEW g \in Gpio, NEW r \in Request
  PROVE  \E n \in Nat \ {0} :
           /\ LastCalls(g, r) \in Seq(CallSet) /\ Len(LastCalls(g, r)) = n
           /\ \A i \in 1..(n - 1) : LastCalls(g, r)[i] = Call("read", g, "none")
           /\ LastCalls(g, r)[n] = Call("remember", g, r.dir)
<1>1. PICK a, b : a = Call("read", g, "none") /\ b = Call("remember", g, r.dir)
  OBVIOUS
<1>2. a \in CallSet /\ b \in CallSet
  BY <1>1, CallsAre DEF Request, Directions
<1>3. \E m \in Nat : \E q \in Seq(CallSet) :
        /\ q = IF r.dir = "PWM" THEN PwmCalls(g) ELSE <<>>
        /\ Len(q) = m /\ \A i \in 1..m : q[i] = a
  <2>1. CASE r.dir = "PWM"
    <3>1. PICK m \in Nat : m = IF g \in PwmPin THEN 4 ELSE 2
      OBVIOUS
    <3>2. PwmCalls(g) = [i \in 1..m |-> a]
      BY <1>1, <3>1 DEF PwmCalls
    <3> QED BY <1>2, <2>1, <3>2
  <2>2. CASE r.dir # "PWM"
    <3>1. <<>> \in Seq(CallSet) /\ Len(<<>>) = 0
      OBVIOUS
    <3>2. PICK m \in Nat, q \in Seq(CallSet) : m = 0 /\ q = <<>> /\ Len(q) = m
      BY <3>1
    <3>3. q = IF r.dir = "PWM" THEN PwmCalls(g) ELSE <<>>
      BY <2>2, <3>2
    <3>4. \A i \in 1..m : q[i] = a
      BY <3>2
    <3> QED BY <3>2, <3>3, <3>4
  <2> QED BY <2>1, <2>2
<1>4. PICK m \in Nat, q \in Seq(CallSet) :
        /\ q = IF r.dir = "PWM" THEN PwmCalls(g) ELSE <<>>
        /\ Len(q) = m /\ \A i \in 1..m : q[i] = a
  BY <1>3
<1>5. LastCalls(g, r) = q \o <<b>>
  BY <1>1, <1>4 DEF LastCalls
<1>6. /\ q \o <<b>> \in Seq(CallSet) /\ Len(q \o <<b>>) = m + 1
      /\ \A i \in 1..m : (q \o <<b>>)[i] = q[i]
      /\ (q \o <<b>>)[m + 1] = b
  <2>1. PICK v \in Seq(CallSet) : v = <<b>> /\ Len(v) = 1 /\ v[1] = b
    BY <1>2, Singles
  <2>2. /\ q \o v \in Seq(CallSet) /\ Len(q \o v) = Len(q) + Len(v)
        /\ \A i \in 1..Len(q) : (q \o v)[i] = q[i]
        /\ \A i \in 1..Len(v) : (q \o v)[Len(q) + i] = v[i]
    BY Joined
  <2>3. 1 \in 1..Len(v)
    BY <2>1
  <2>4. (q \o v)[Len(q) + 1] = v[1]
    BY <2>2, <2>3
  <2> QED BY <1>4, <2>1, <2>2, <2>4
<1>7. m + 1 \in Nat \ {0} /\ (m + 1) - 1 = m
  OBVIOUS
<1> QED BY <1>1, <1>4, <1>5, <1>6, <1>7

LEMMA SetupOneKnows ==
  ASSUME NEW g \in Gpio, NEW r \in Request
  PROVE  \E k \in {3, 4}, n \in Nat \ {0} :
           /\ SetupOne(g, r) \in Seq(CallSet) /\ Len(SetupOne(g, r)) = k + n
           /\ SetupOne(g, r)[1] = Call("read", g, "none")
           /\ k = 4 <=> HasLevel(r)
           /\ k = 4 => SetupOne(g, r)[2] = Call("write", g, r.initial)
           /\ SetupOne(g, r)[k - 1] = Call("pull", g, PullOf(r))
           /\ SetupOne(g, r)[k] = Call("mode", g, r.dir)
           /\ \A i \in (k + 1)..(k + n - 1) : SetupOne(g, r)[i] = Call("read", g, "none")
           /\ SetupOne(g, r)[k + n] = Call("remember", g, r.dir)
<1>1. PICK a, b : a = FirstCalls(g, r) /\ b = LastCalls(g, r)
  OBVIOUS
<1>2. PICK k \in {3, 4} :
        /\ a \in Seq(CallSet) /\ Len(a) = k /\ a[1] = Call("read", g, "none")
        /\ k = 4 <=> HasLevel(r)
        /\ k = 4 => a[2] = Call("write", g, r.initial)
        /\ a[k - 1] = Call("pull", g, PullOf(r)) /\ a[k] = Call("mode", g, r.dir)
  BY <1>1, FirstCallsKnow
<1>3. PICK n \in Nat \ {0} :
        /\ b \in Seq(CallSet) /\ Len(b) = n
        /\ \A i \in 1..(n - 1) : b[i] = Call("read", g, "none")
        /\ b[n] = Call("remember", g, r.dir)
  BY <1>1, LastCallsKnow
<1>4. PICK s : s = a \o b
  OBVIOUS
<1>5. SetupOne(g, r) = s
  BY <1>1, <1>4 DEF SetupOne, FirstCalls
<1>6. /\ s \in Seq(CallSet) /\ Len(s) = k + n
      /\ \A i \in 1..k : s[i] = a[i]
      /\ \A i \in (k + 1)..(k + n) : s[i] = b[i - k]
  <2>1. /\ a \o b \in Seq(CallSet) /\ Len(a \o b) = Len(a) + Len(b)
        /\ \A i \in 1..Len(a) : (a \o b)[i] = a[i]
        /\ \A i \in 1..Len(b) : (a \o b)[Len(a) + i] = b[i]
    <3>1. a \in Seq(CallSet) /\ b \in Seq(CallSet)
      BY <1>2, <1>3
    <3> QED BY <3>1, Joined
  <2>2. ASSUME NEW i \in (k + 1)..(k + n) PROVE s[i] = b[i - k]
    <3>1. i - k \in 1..n /\ k + (i - k) = i
      OBVIOUS
    <3> QED BY <1>2, <1>3, <1>4, <2>1, <3>1
  <2> QED BY <1>2, <1>3, <1>4, <2>1, <2>2
<1>7. s[1] = a[1] /\ s[k - 1] = a[k - 1] /\ s[k] = a[k] /\ (k = 4 => s[2] = a[2])
  BY <1>6
<1>8. ASSUME NEW i \in (k + 1)..(k + n - 1) PROVE s[i] = Call("read", g, "none")
  <2>1. i - k \in 1..(n - 1) /\ i \in (k + 1)..(k + n)
    OBVIOUS
  <2> QED BY <1>3, <1>6, <2>1
<1>9. s[k + n] = b[n]
  <2>1. k + n \in (k + 1)..(k + n) /\ (k + n) - k = n
    OBVIOUS
  <2> QED BY <1>6, <2>1
<1> QED BY <1>2, <1>3, <1>5, <1>6, <1>7, <1>8, <1>9

\* What the invariants need of a list of calls for a channel.
LEMMA SetupOneHas ==
  ASSUME NEW g \in Gpio, NEW r \in Request, NEW s, s = SetupOne(g, r)
  PROVE  /\ s \in Seq(CallSet) /\ s # <<>> /\ Shape(s)
         /\ \A i \in 1..Len(s) :
              /\ s[i].gpio = g
              /\ s[i].fn = "pull" => s[i].val = PullOf(r)
              /\ s[i].fn = "write" => HasLevel(r) /\ s[i].val = r.initial
         /\ \E i \in 1..Len(s) : s[i].fn = "pull"
         /\ \E i \in 1..Len(s) : s[i].fn = "mode"
         /\ HasLevel(r) => \E i \in 1..Len(s) : s[i].fn = "write"
<1>1. PICK k \in {3, 4}, n \in Nat \ {0} :
        /\ s \in Seq(CallSet) /\ Len(s) = k + n
        /\ s[1] = Call("read", g, "none")
        /\ k = 4 <=> HasLevel(r)
        /\ k = 4 => s[2] = Call("write", g, r.initial)
        /\ s[k - 1] = Call("pull", g, PullOf(r))
        /\ s[k] = Call("mode", g, r.dir)
        /\ \A i \in (k + 1)..(k + n - 1) : s[i] = Call("read", g, "none")
        /\ s[k + n] = Call("remember", g, r.dir)
  BY SetupOneKnows
<1>2. /\ k \in Nat /\ 3 <= k /\ k <= 4 /\ n \in Nat /\ 0 < n
      /\ Len(s) = k + n /\ Len(s) \in Nat
  BY <1>1
<1>3. 1 \in 1..Len(s) /\ k - 1 \in 1..Len(s) /\ k \in 1..Len(s) /\ (k = 4 => 2 \in 1..Len(s))
      /\ k + n \in 1..Len(s) /\ k < k + n
  BY <1>2
<1>4. s # <<>>
  BY <1>1, <1>2
<1>5. ASSUME NEW i \in 1..Len(s)
      PROVE  \/ i = 1 /\ s[i] = [fn |-> "read", gpio |-> g, val |-> "none"]
             \/ i = 2 /\ k = 4 /\ s[i] = [fn |-> "write", gpio |-> g, val |-> r.initial]
             \/ i = k - 1 /\ s[i] = [fn |-> "pull", gpio |-> g, val |-> PullOf(r)]
             \/ i = k /\ s[i] = [fn |-> "mode", gpio |-> g, val |-> r.dir]
             \/ i \in (k + 1)..(k + n - 1) /\ s[i] = [fn |-> "read", gpio |-> g, val |-> "none"]
             \/ i = k + n /\ s[i] = [fn |-> "remember", gpio |-> g, val |-> r.dir]
  <2>1. i = 1 \/ (i = 2 /\ k = 4) \/ i = k - 1 \/ i = k \/ i \in (k + 1)..(k + n - 1) \/ i = k + n
    BY <1>2
  <2> QED BY <1>1, <2>1 DEF Call
<1>6. \A i \in 1..Len(s) :
        /\ s[i].gpio = g
        /\ s[i].fn = "pull" => s[i].val = PullOf(r)
        /\ s[i].fn = "write" => i = 2 /\ k = 4 /\ s[i].val = r.initial
        /\ s[i].fn = "mode" => i = k /\ s[i].val = r.dir
        /\ s[i].fn = "remember" => i = k + n
        /\ i > k => s[i].fn \in {"read", "remember"}
  <2> SUFFICES ASSUME NEW i \in 1..Len(s)
               PROVE  /\ s[i].gpio = g
                      /\ s[i].fn = "pull" => s[i].val = PullOf(r)
                      /\ s[i].fn = "write" => i = 2 /\ k = 4 /\ s[i].val = r.initial
                      /\ s[i].fn = "mode" => i = k /\ s[i].val = r.dir
                      /\ s[i].fn = "remember" => i = k + n
                      /\ i > k => s[i].fn \in {"read", "remember"}
    OBVIOUS
  <2>1. CASE i = 1 /\ s[i] = [fn |-> "read", gpio |-> g, val |-> "none"]
    BY <2>1
  <2>2. CASE i = 2 /\ k = 4 /\ s[i] = [fn |-> "write", gpio |-> g, val |-> r.initial]
    BY <2>2
  <2>3. CASE i = k - 1 /\ s[i] = [fn |-> "pull", gpio |-> g, val |-> PullOf(r)]
    BY <2>3
  <2>4. CASE i = k /\ s[i] = [fn |-> "mode", gpio |-> g, val |-> r.dir]
    BY <2>4
  <2>5. CASE i \in (k + 1)..(k + n - 1) /\ s[i] = [fn |-> "read", gpio |-> g, val |-> "none"]
    BY <2>5
  <2>6. CASE i = k + n /\ s[i] = [fn |-> "remember", gpio |-> g, val |-> r.dir]
    BY <2>6
  <2> QED BY <1>5, <2>1, <2>2, <2>3, <2>4, <2>5, <2>6
<1>7. s[k + n].fn = "remember" /\ s[k + n].val = r.dir /\ s[k - 1].fn = "pull" /\ s[k].fn = "mode"
      /\ (k = 4 => s[2].fn = "write")
  BY <1>1 DEF Call
<1>8. Shape(s)
  <2>1. ASSUME NEW i \in 1..Len(s), NEW j \in 1..Len(s)
        PROVE  /\ s[i].gpio = s[j].gpio
               /\ i < j => /\ s[i].fn = "write" => s[j].fn # "write"
                           /\ s[i].fn = "mode" => s[j].fn \in {"read", "remember"}
                           /\ s[i].fn # "remember"
    <3>1. i \in 1..(k + n) /\ j \in 1..(k + n)
      BY <1>1
    <3> QED BY <1>6, <3>1
  <2>2. ASSUME NEW i \in 1..Len(s), s[i].fn = "mode"
        PROVE  \E j \in 1..Len(s) : i < j /\ s[j].fn = "remember" /\ s[j].val \in {s[i].val, "none"}
    BY <1>2, <1>6, <1>7, <2>2
  <2> QED BY <2>1, <2>2 DEF Shape
<1> QED BY <1>1, <1>2, <1>3, <1>4, <1>6, <1>7, <1>8

-----------------------------------------------------------------------------
(* Types of the functions and of the PWM threads.                          *)

\* An idle thread is given calls to make.
LEMMA GiveTypes ==
  ASSUME ThreadTypes, NEW t \in Thread, Idle(t), NEW s \in Seq(CallSet),
         todo' = [todo EXCEPT ![t] = s], UNCHANGED <<pc, word, saved>>
  PROVE  ThreadTypes' /\ pc[t] = "start" /\ todo'[t] = s
         /\ \A u \in Thread \ {t} : todo'[u] = todo[u]
<1>1. pc[t] = "start" /\ word[t] = <<>>
  BY DEF ThreadTypes, StepOf, WordOf, Idle
<1>2. todo'[t] = s /\ \A u \in Thread \ {t} : todo'[u] = todo[u]
  BY DEF ThreadTypes
<1>3. todo' \in [Thread -> Seq(CallSet)]
  BY DEF ThreadTypes
<1>4. ASSUME NEW u \in Thread \ {t} PROVE StepOf(u)' /\ WordOf(u)'
  <2>1. todo'[u] = todo[u] /\ pc'[u] = pc[u] /\ word'[u] = word[u]
    BY <1>2
  <2> QED BY <2>1, SameThread DEF ThreadTypes
<1>5. StepOf(t)' /\ WordOf(t)'
  BY <1>1 DEF StepOf, WordOf
<1> QED BY <1>1, <1>2, <1>3, <1>4, <1>5 DEF ThreadTypes

LEMMA SameThreads ==
  ASSUME ThreadTypes, UNCHANGED <<todo, pc, word, saved>>
  PROVE  ThreadTypes'
<1>1. ASSUME NEW u \in Thread PROVE StepOf(u)' /\ WordOf(u)'
  BY SameThread DEF ThreadTypes
<1> QED BY <1>1 DEF ThreadTypes

LEMMA ItemIs ==
  ASSUME NEW c \in Item
  PROVE  /\ c.fn \in {"setup", "output", "cleanup", "cleanup all"}
         /\ c.fn = "setup" => c.chan \in Chan /\ c.arg \in Setups /\ c.arg \in Request
         /\ c.fn = "output" => c.chan \in Chan /\ c.arg \in Int
         /\ c.fn = "cleanup" => c.chan \in Chan
<1>1. CASE c \in [fn : {"setup"}, chan : Chan, arg : Setups]
  BY <1>1, PyParameters DEF Request
<1>2. CASE c \in [fn : {"output"}, chan : Chan, arg : Int]
  BY <1>2
<1>3. CASE c \in [fn : {"cleanup"}, chan : Chan, arg : Chan]
  BY <1>3
<1>4. CASE c \in [fn : {"cleanup all"}, chan : {"all"}, arg : {"all"}]
  BY <1>4
<1> QED BY <1>1, <1>2, <1>3, <1>4 DEF Item

\* The lists functions go through.
LEMMA SetupEach ==
  ASSUME NEW r \in Setups
  PROVE  LET s == Each("setup", r.chans, [i \in DOMAIN r.chans |-> r])
         IN /\ s \in Seq(Item) /\ Len(s) = Len(r.chans) /\ Len(s) \in Nat
            /\ \A i \in 1..Len(s) : s[i].fn = "setup" /\ s[i].chan = r.chans[i]
<1>1. PICK fn, args : fn = "setup" /\ args = [i \in DOMAIN r.chans |-> r]
  OBVIOUS
<1>2. r.chans \in Seq(Chan)
  BY PyParameters
<1>3. ASSUME NEW i \in 1..Len(r.chans)
      PROVE  [fn |-> fn, chan |-> r.chans[i], arg |-> args[i]] \in Item
  BY <1>1, <1>2 DEF Item
<1>4. /\ Each(fn, r.chans, args) \in Seq(Item) /\ Len(Each(fn, r.chans, args)) = Len(r.chans)
      /\ \A i \in 1..Len(r.chans) :
           Each(fn, r.chans, args)[i] = [fn |-> fn, chan |-> r.chans[i], arg |-> args[i]]
  BY <1>2, <1>3 DEF Each
<1>5. PICK s : s = Each(fn, r.chans, args)
  OBVIOUS
<1>6. ASSUME NEW i \in 1..Len(s) PROVE s[i].fn = fn /\ s[i].chan = r.chans[i]
  <2>1. i \in 1..Len(r.chans)
    BY <1>4, <1>5
  <2>2. s[i] = [fn |-> fn, chan |-> r.chans[i], arg |-> args[i]]
    BY <1>4, <1>5, <2>1
  <2> QED BY <2>2
<1>7. s \in Seq(Item) /\ Len(s) = Len(r.chans) /\ Len(s) \in Nat
  BY <1>2, <1>4, <1>5
<1> QED BY <1>1, <1>5, <1>6, <1>7

LEMMA OutputEach ==
  ASSUME NEW r \in Outputs
  PROVE  LET s == Each("output", r.chans, r.values)
         IN /\ s \in Seq(Item) /\ Len(s) = Len(r.chans) /\ Len(s) \in Nat
            /\ \A i \in 1..Len(s) : s[i].fn = "output" /\ s[i].chan = r.chans[i]
<1>1. PICK fn, args : fn = "output" /\ args = r.values
  OBVIOUS
<1>2. r.chans \in Seq(Chan) /\ args \in Seq(Int) /\ Len(r.chans) = Len(args)
  BY <1>1, PyParameters
<1>3. ASSUME NEW i \in 1..Len(r.chans)
      PROVE  [fn |-> fn, chan |-> r.chans[i], arg |-> args[i]] \in Item
  BY <1>1, <1>2 DEF Item
<1>4. /\ Each(fn, r.chans, args) \in Seq(Item) /\ Len(Each(fn, r.chans, args)) = Len(r.chans)
      /\ \A i \in 1..Len(r.chans) :
           Each(fn, r.chans, args)[i] = [fn |-> fn, chan |-> r.chans[i], arg |-> args[i]]
  BY <1>2, <1>3 DEF Each
<1>5. PICK s : s = Each(fn, r.chans, args)
  OBVIOUS
<1>6. ASSUME NEW i \in 1..Len(s) PROVE s[i].fn = fn /\ s[i].chan = r.chans[i]
  <2>1. i \in 1..Len(r.chans)
    BY <1>4, <1>5
  <2>2. s[i] = [fn |-> fn, chan |-> r.chans[i], arg |-> args[i]]
    BY <1>4, <1>5, <2>1
  <2> QED BY <2>2
<1>7. s \in Seq(Item) /\ Len(s) = Len(r.chans) /\ Len(s) \in Nat
  BY <1>2, <1>4, <1>5
<1> QED BY <1>1, <1>5, <1>6, <1>7

LEMMA CleanupEach ==
  ASSUME NEW list \in Cleanups
  PROVE  LET s == Each("cleanup", list, list)
         IN /\ s \in Seq(Item) /\ Len(s) = Len(list) /\ Len(s) \in Nat
            /\ \A i \in 1..Len(s) : s[i].fn = "cleanup" /\ s[i].chan = list[i]
<1>1. PICK fn : fn = "cleanup"
  OBVIOUS
<1>2. list \in Seq(Chan)
  BY PyParameters
<1>3. ASSUME NEW i \in 1..Len(list)
      PROVE  [fn |-> fn, chan |-> list[i], arg |-> list[i]] \in Item
  BY <1>1, <1>2 DEF Item
<1>4. /\ Each(fn, list, list) \in Seq(Item) /\ Len(Each(fn, list, list)) = Len(list)
      /\ \A i \in 1..Len(list) :
           Each(fn, list, list)[i] = [fn |-> fn, chan |-> list[i], arg |-> list[i]]
  BY <1>2, <1>3 DEF Each
<1>5. PICK s : s = Each(fn, list, list)
  OBVIOUS
<1>6. ASSUME NEW i \in 1..Len(s) PROVE s[i].fn = fn /\ s[i].chan = list[i]
  <2>1. i \in 1..Len(list)
    BY <1>4, <1>5
  <2>2. s[i] = [fn |-> fn, chan |-> list[i], arg |-> list[i]]
    BY <1>4, <1>5, <2>1
  <2> QED BY <2>2
<1>7. s \in Seq(Item) /\ Len(s) = Len(list) /\ Len(s) \in Nat
  BY <1>2, <1>4, <1>5
<1> QED BY <1>1, <1>5, <1>6, <1>7

LEMMA AllEach ==
  /\ Each("cleanup all", <<"all">>, <<"all">>) \in Seq(Item)
  /\ Len(Each("cleanup all", <<"all">>, <<"all">>)) = 1
  /\ Each("cleanup all", <<"all">>, <<"all">>)[1].fn = "cleanup all"
<1>1. PICK fn, a : fn = "cleanup all" /\ a = "all"
  OBVIOUS
<1>2. <<a>> \in Seq({a}) /\ Len(<<a>>) = 1 /\ <<a>>[1] = a
  OBVIOUS
<1>3. [fn |-> fn, chan |-> a, arg |-> a] \in Item
  BY <1>1 DEF Item
<1>4. PICK s : s = Each(fn, <<a>>, <<a>>)
  OBVIOUS
<1>5. s = [i \in 1..1 |-> [fn |-> fn, chan |-> a, arg |-> a]]
  BY <1>2, <1>4 DEF Each
<1>6. s \in Seq(Item) /\ Len(s) = 1 /\ s[1].fn = fn
  BY <1>3, <1>5
<1> QED BY <1>1, <1>4, <1>6

-----------------------------------------------------------------------------
(* What the steps of the functions do.                                     *)

\* The thread of the functions is given calls s on pin g, for which asked is kept.
Takes(g, s) ==
  /\ Idle(Main) /\ g \in Gpio
  /\ s \in Seq(CallSet) /\ s # <<>> /\ Shape(s)
  /\ \A i \in 1..Len(s) : s[i].gpio = g
  /\ todo' = [todo EXCEPT ![Main] = s]
  /\ UNCHANGED <<gate, pinVars, pc, word, saved, direction, playing>>
  /\ \A h \in Gpio \ {g} : asked'[h] = asked[h]

\* What was asked of g agrees with the calls; a direction comes with a mode.
Agrees(g, s) ==
  /\ \A i \in 1..Len(s) : s[i].fn = "pull" => s[i].val = asked'[g].pull
  /\ (\E i \in 1..Len(s) : s[i].fn = "pull") \/ asked'[g].pull = asked[g].pull
  /\ \A i \in 1..Len(s) : s[i].fn = "write" => Level(s[i].val) = asked'[g].level
  /\ (\E i \in 1..Len(s) : s[i].fn = "write") \/ asked'[g].level = asked[g].level
  /\ (\E i \in 1..Len(s) : s[i].fn = "mode") \/ \A i \in 1..Len(s) : s[i].fn # "remember"

\* Where g comes from.
From(g) ==
  \/ Free /\ MayUse({g}) /\ UNCHANGED rest
  \/ /\ rest # <<>> /\ Head(rest).fn # "cleanup all" /\ Head(rest).chan = g
     /\ rest' = Tail(rest)
  \/ Now("cleanup all") /\ g \in Remembered /\ UNCHANGED rest

\* A list is begun, goes on or ends.
Lists(gs) ==
  /\ MayUse(gs) /\ rest' \in Seq(Item)
  /\ \A i \in 1..Len(rest') :
       IF rest'[i].fn = "cleanup all" THEN Remembered \subseteq gs
       ELSE rest'[i].chan \in Gpio => rest'[i].chan \in gs
ListStep ==
  /\ UNCHANGED <<registerVars, direction, playing, asked>>
  /\ \/ Free /\ \E gs : Lists(gs)
     \/ rest # <<>> /\ rest' = Tail(rest)
     \/ rest' = rest
     \/ rest' = <<>>

TableKinds == /\ mapped' \in BOOLEAN
              /\ mode' \in NumberingModes \cup ModeArgs \cup {"UNKNOWN"}

LEMMA BeginsList ==
  ASSUME TypeInv,
         \/ \E r \in Setups : Setup(r)
         \/ \E r \in Outputs : Output(r)
         \/ \E list \in Cleanups : CleanupChannels(list)
         \/ CleanupAll
  PROVE  ListStep /\ TableKinds
<1>1. mapped \in BOOLEAN /\ mode \in NumberingModes \cup ModeArgs \cup {"UNKNOWN"}
  BY DEF TypeInv, TableTypes
<1>2. ASSUME NEW S, NEW chans \in Seq(S), NEW items, items \in Seq(Item),
             Begin(ValidOf(chans), items), Len(items) = Len(chans),
             \A i \in 1..Len(items) : items[i].fn # "cleanup all" /\ items[i].chan = chans[i]
      PROVE  \E gs : Lists(gs)
  <2>1. PICK gs : gs = ValidOf(chans)
    OBVIOUS
  <2>2. MayUse(gs) /\ rest' = items
    BY <1>2, <2>1 DEF Begin
  <2>3. ASSUME NEW i \in 1..Len(rest'), rest'[i].chan \in Gpio PROVE rest'[i].chan \in gs
    <3>1. i \in 1..Len(items)
      BY <2>2
    <3>2. rest'[i].chan = chans[i]
      BY <1>2, <2>2, <3>1
    <3>3. Len(items) = Len(chans)
      BY <1>2
    <3>4. DOMAIN chans = 1..Len(chans)
      OBVIOUS
    <3>5. i \in DOMAIN chans
      BY <3>1, <3>3, <3>4
    <3> QED BY <2>1, <2>3, <3>2, <3>5 DEF ValidOf
  <2>4. \A i \in 1..Len(rest') : rest'[i].fn # "cleanup all"
    BY <1>2, <2>2
  <2>5. Lists(gs)
    BY <1>2, <2>2, <2>3, <2>4 DEF Lists
  <2> QED BY <2>5
<1>3. ASSUME NEW gs, NEW items, Begin(gs, items)
      PROVE  Free /\ UNCHANGED <<registerVars, direction, playing, asked, mode>>
  BY <1>3 DEF Begin
<1>4. ASSUME NEW r \in Setups, Setup(r) PROVE ListStep /\ TableKinds
  <2>1. PICK items : items = Each("setup", r.chans, [i \in DOMAIN r.chans |-> r])
    OBVIOUS
  <2>2. /\ items \in Seq(Item) /\ Len(items) = Len(r.chans)
        /\ \A i \in 1..Len(items) : items[i].fn = "setup" /\ items[i].chan = r.chans[i]
    BY <2>1, SetupEach
  <2>3. r.chans \in Seq(Chan)
    BY PyParameters
  <2>4. Begin(ValidOf(r.chans), items) /\ mapped' = TRUE
    BY <1>4, <2>1 DEF Setup
  <2>5. \A i \in 1..Len(items) : items[i].fn # "cleanup all" /\ items[i].chan = r.chans[i]
    BY <2>2
  <2> QED BY <1>1, <1>2, <1>3, <2>2, <2>3, <2>4, <2>5 DEF ListStep, TableKinds
<1>5. ASSUME NEW r \in Outputs, Output(r) PROVE ListStep /\ TableKinds
  <2>1. PICK items : items = Each("output", r.chans, r.values)
    OBVIOUS
  <2>2. /\ items \in Seq(Item) /\ Len(items) = Len(r.chans)
        /\ \A i \in 1..Len(items) : items[i].fn = "output" /\ items[i].chan = r.chans[i]
    BY <2>1, OutputEach
  <2>3. r.chans \in Seq(Chan)
    BY PyParameters
  <2>4. Begin(ValidOf(r.chans), items) /\ mapped' = mapped
    BY <1>5, <2>1 DEF Output
  <2>5. \A i \in 1..Len(items) : items[i].fn # "cleanup all" /\ items[i].chan = r.chans[i]
    BY <2>2
  <2> QED BY <1>1, <1>2, <1>3, <2>2, <2>3, <2>4, <2>5 DEF ListStep, TableKinds
<1>6. ASSUME NEW list \in Cleanups, CleanupChannels(list) PROVE ListStep /\ TableKinds
  <2>1. PICK items : items = Each("cleanup", list, list)
    OBVIOUS
  <2>2. /\ items \in Seq(Item) /\ Len(items) = Len(list)
        /\ \A i \in 1..Len(items) : items[i].fn = "cleanup" /\ items[i].chan = list[i]
    BY <2>1, CleanupEach
  <2>3. list \in Seq(Chan)
    BY PyParameters
  <2>4. Begin(ValidOf(list), items) /\ mapped' = mapped
    BY <1>6, <2>1 DEF CleanupChannels
  <2>5. \A i \in 1..Len(items) : items[i].fn # "cleanup all" /\ items[i].chan = list[i]
    BY <2>2
  <2> QED BY <1>1, <1>2, <1>3, <2>2, <2>3, <2>4, <2>5 DEF ListStep, TableKinds
<1>7. ASSUME CleanupAll PROVE ListStep /\ TableKinds
  <2>1. PICK items : items = Each("cleanup all", <<"all">>, <<"all">>)
    OBVIOUS
  <2>2. items \in Seq(Item) /\ Len(items) = 1 /\ items[1].fn = "cleanup all"
    BY <2>1, AllEach
  <2>3. Begin(Remembered, items) /\ mapped' = mapped
    BY <1>7, <2>1 DEF CleanupAll
  <2>4. ASSUME NEW i \in 1..Len(items) PROVE items[i].fn = "cleanup all"
    <3>1. Len(items) = 1
      BY <2>2
    <3>2. i = 1
      BY <3>1
    <3> QED BY <2>2, <3>2
  <2>5. Lists(Remembered)
    BY <2>2, <2>3, <2>4 DEF Lists, Begin
  <2> QED BY <1>1, <1>3, <2>3, <2>5 DEF ListStep, TableKinds
<1> QED BY <1>4, <1>5, <1>6, <1>7

LEMMA GoesOnWithList ==
  ASSUME TypeInv, \/ \E m \in ModeArgs : SetMode(m)
                  \/ Raise \/ CleanupEnd
                  \/ CleanupChannel /\ direction[Head(rest).chan] = "none"
  PROVE  ListStep /\ TableKinds
<1>1. mapped \in BOOLEAN /\ mode \in NumberingModes \cup ModeArgs \cup {"UNKNOWN"}
  BY DEF TypeInv, TableTypes
<1>2. ASSUME NEW m \in ModeArgs, SetMode(m) PROVE ListStep /\ TableKinds
  BY <1>1, <1>2 DEF SetMode, ListStep, TableKinds
<1>3. CASE Raise
  BY <1>1, <1>3 DEF Raise, ListStep, TableKinds, tableVars
<1>4. CASE CleanupEnd
  BY <1>1, <1>4 DEF CleanupEnd, ListStep, TableKinds, Now
<1>5. CASE CleanupChannel /\ direction[Head(rest).chan] = "none"
  BY <1>1, <1>5 DEF CleanupChannel, ListStep, TableKinds, tableVars, Now
<1> QED BY <1>2, <1>3, <1>4, <1>5

LEMMA TakesRead ==
  ASSUME TypeInv, NEW g \in Gpio, Input(g) \/ GpioFunction(g)
  PROVE  TableKinds /\ From(g) /\ \E s : Takes(g, s) /\ Agrees(g, s)
<1>1. /\ Free /\ MayUse({g}) /\ UNCHANGED <<gate, pinVars, pc, localVars, direction, playing, rest, asked>>
      /\ todo' = [todo EXCEPT ![Main] = <<Call("read", g, "none")>>]
      /\ mode' = mode /\ mapped' \in {mapped, TRUE}
  BY DEF Input, GpioFunction, Do, tableVars
<1>2. PICK c : c = Call("read", g, "none")
  OBVIOUS
<1>3. c \in CallSet /\ c.fn = "read" /\ c.gpio = g
  BY <1>2, CallsAre DEF Call
<1>4. PICK s \in Seq(CallSet) : s = <<c>> /\ Len(s) = 1 /\ s[1] = c
  BY <1>3, Singles
<1>5. ASSUME NEW i \in 1..Len(s) PROVE i = 1 /\ s[i] = c /\ s[i].fn = "read" /\ s[i].gpio = g
  BY <1>3, <1>4
<1>6. Shape(s)
  BY <1>5 DEF Shape
<1>7. Takes(g, s)
  BY <1>1, <1>2, <1>4, <1>5, <1>6 DEF Takes, Free, localVars
<1>8. Agrees(g, s)
  BY <1>1, <1>5 DEF Agrees
<1>9. TableKinds
  BY <1>1 DEF TypeInv, TableTypes, TableKinds
<1> QED BY <1>1, <1>7, <1>8, <1>9 DEF From

LEMMA RestIs ==
  ASSUME TypeInv, rest # <<>>
  PROVE  Head(rest) \in Item /\ Tail(rest) \in Seq(Item) /\ Head(rest) = rest[1] /\ 1 \in 1..Len(rest)
<1>1. rest \in Seq(Item)
  BY DEF TypeInv, TableTypes
<1>2. Len(rest) \in Nat \ {0} /\ Head(rest) = rest[1] /\ rest[1] \in Item /\ Tail(rest) \in Seq(Item)
  BY <1>1, TailKnows
<1> QED BY <1>2

LEMMA TakesSetup ==
  ASSUME TypeInv, SetupChannel
  PROVE  /\ TableKinds
         /\ \E g : From(g) /\ \E s : Takes(g, s) /\ Agrees(g, s)
         /\ rest' \in Seq(Item) /\ asked' \in [Gpio -> [level : {Unasked, 0, 1}, pull : {"off", "down", "up"}]]
<1>1. PICK g, r : g = Head(rest).chan /\ r = Head(rest).arg
  OBVIOUS
<1>2. /\ Idle(Main) /\ rest # <<>> /\ Head(rest).fn = "setup" /\ g \in Gpio
      /\ todo' = [todo EXCEPT ![Main] = SetupOne(g, r)] /\ rest' = Tail(rest)
      /\ asked' = [asked EXCEPT ![g] = [level |-> IF HasLevel(r) THEN r.initial ELSE asked[g].level,
                                        pull |-> PullOf(r)]]
      /\ UNCHANGED <<gate, pinVars, pc, localVars, tableVars, playing>>
  BY <1>1 DEF SetupChannel, Now, Valid, Do
<1>3. r \in Request /\ rest' \in Seq(Item)
  BY <1>1, <1>2, RestIs, ItemIs
<1>4. PICK s : s = SetupOne(g, r)
  OBVIOUS
<1>5. /\ s \in Seq(CallSet) /\ s # <<>> /\ Shape(s)
      /\ \A i \in 1..Len(s) :
           /\ s[i].gpio = g
           /\ s[i].fn = "pull" => s[i].val = PullOf(r)
           /\ s[i].fn = "write" => HasLevel(r) /\ s[i].val = r.initial
      /\ \E i \in 1..Len(s) : s[i].fn = "pull"
      /\ \E i \in 1..Len(s) : s[i].fn = "mode"
      /\ HasLevel(r) => \E i \in 1..Len(s) : s[i].fn = "write"
  <2>1. g \in Gpio /\ r \in Request
    BY <1>2, <1>3
  <2> QED BY <1>4, <2>1, SetupOneHas
<1>6. asked \in [Gpio -> [level : {Unasked, 0, 1}, pull : {"off", "down", "up"}]]
  BY DEF TypeInv, TableTypes
<1>7. /\ asked'[g].pull = PullOf(r) /\ asked'[g].level = IF HasLevel(r) THEN r.initial ELSE asked[g].level
      /\ \A h \in Gpio \ {g} : asked'[h] = asked[h]
  BY <1>2, <1>6
<1>8. PullOf(r) \in {"off", "down", "up"} /\ (HasLevel(r) => r.initial \in {0, 1} /\ Level(r.initial) = r.initial)
  BY <1>3 DEF PullOf, HasLevel, Request, Level
<1>9. asked' \in [Gpio -> [level : {Unasked, 0, 1}, pull : {"off", "down", "up"}]]
  BY <1>2, <1>6, <1>8
<1>10. Takes(g, s)
  BY <1>2, <1>4, <1>5, <1>7 DEF Takes, localVars, tableVars
<1>11. Agrees(g, s)
  BY <1>5, <1>7, <1>8 DEF Agrees
<1>12. From(g)
  BY <1>1, <1>2 DEF From
<1>13. TableKinds
  BY <1>2 DEF TypeInv, TableTypes, TableKinds, tableVars
<1> QED BY <1>3, <1>9, <1>10, <1>11, <1>12, <1>13

LEMMA TakesOutput ==
  ASSUME TypeInv, OutputChannel
  PROVE  /\ TableKinds
         /\ \E g : From(g) /\ \E s : Takes(g, s) /\ Agrees(g, s)
         /\ rest' \in Seq(Item) /\ asked' \in [Gpio -> [level : {Unasked, 0, 1}, pull : {"off", "down", "up"}]]
<1>1. PICK g, v : g = Head(rest).chan /\ v = Head(rest).arg
  OBVIOUS
<1>2. /\ Idle(Main) /\ rest # <<>> /\ Head(rest).fn = "output" /\ g \in Gpio
      /\ todo' = [todo EXCEPT ![Main] = <<Call("write", g, v)>>] /\ rest' = Tail(rest)
      /\ asked' = [asked EXCEPT ![g].level = Level(v)]
      /\ UNCHANGED <<gate, pinVars, pc, localVars, tableVars, playing>>
  BY <1>1 DEF OutputChannel, Now, Valid, Do
<1>3. v \in Int /\ rest' \in Seq(Item)
  BY <1>1, <1>2, RestIs, ItemIs
<1>4. PICK c : c = Call("write", g, v)
  OBVIOUS
<1>5. c \in CallSet /\ c.fn = "write" /\ c.gpio = g /\ c.val = v
  BY <1>2, <1>3, <1>4, CallsAre DEF Call
<1>6. PICK s \in Seq(CallSet) : s = <<c>> /\ Len(s) = 1 /\ s[1] = c
  BY <1>5, Singles
<1>7. ASSUME NEW i \in 1..Len(s) PROVE i = 1 /\ s[i] = c /\ s[i].fn = "write" /\ s[i].gpio = g /\ s[i].val = v
  BY <1>5, <1>6
<1>8. Shape(s)
  BY <1>7 DEF Shape
<1>9. asked \in [Gpio -> [level : {Unasked, 0, 1}, pull : {"off", "down", "up"}]] /\ Level(v) \in {0, 1}
  BY DEF TypeInv, TableTypes, Level
<1>10. /\ asked'[g].pull = asked[g].pull /\ asked'[g].level = Level(v)
       /\ \A h \in Gpio \ {g} : asked'[h] = asked[h]
       /\ asked' \in [Gpio -> [level : {Unasked, 0, 1}, pull : {"off", "down", "up"}]]
  BY <1>2, <1>9
<1>11. Takes(g, s)
  BY <1>2, <1>4, <1>6, <1>7, <1>8, <1>10 DEF Takes, localVars, tableVars
<1>12. \E i \in 1..Len(s) : s[i].fn = "write"
  BY <1>5, <1>6
<1>13. Agrees(g, s)
  BY <1>7, <1>10, <1>12 DEF Agrees
<1>14. From(g)
  BY <1>1, <1>2 DEF From
<1>15. TableKinds
  BY <1>2 DEF TypeInv, TableTypes, TableKinds, tableVars
<1> QED BY <1>3, <1>10, <1>11, <1>13, <1>14, <1>15

LEMMA TakesCleanup ==
  ASSUME TypeInv, CleanupNext \/ (CleanupChannel /\ direction[Head(rest).chan] # "none")
  PROVE  /\ TableKinds
         /\ \E g : From(g) /\ \E s : Takes(g, s) /\ Agrees(g, s)
         /\ rest' \in Seq(Item) /\ asked' \in [Gpio -> [level : {Unasked, 0, 1}, pull : {"off", "down", "up"}]]
<1>1. \E g \in Gpio : CleanupOne(g) /\ From(g) /\ Idle(Main) /\ rest' \in Seq(Item)
  <2>1. CASE CleanupNext
    <3>1. PICK g \in Remembered : CleanupOne(g)
      BY <2>1 DEF CleanupNext
    <3>2. g \in Gpio /\ rest' \in Seq(Item)
      BY <2>1, <3>1 DEF CleanupNext, Remembered, TypeInv, TableTypes
    <3> QED BY <2>1, <3>1, <3>2 DEF CleanupNext, From, Now
  <2>2. CASE CleanupChannel /\ direction[Head(rest).chan] # "none"
    <3>1. rest' \in Seq(Item)
      BY <2>2, RestIs DEF CleanupChannel, Now
    <3> QED BY <2>2, <3>1 DEF CleanupChannel, From, Now, Valid
  <2> QED BY <2>1, <2>2
<1>2. PICK g \in Gpio : CleanupOne(g) /\ From(g) /\ Idle(Main) /\ rest' \in Seq(Item)
  BY <1>1
<1>3. PICK a, b, c : /\ a = Call("pull", g, "off") /\ b = Call("mode", g, "IN")
                     /\ c = Call("remember", g, "none")
  OBVIOUS
<1>4. /\ todo' = [todo EXCEPT ![Main] = <<a, b, c>>] /\ asked' = [asked EXCEPT ![g].pull = "off"]
      /\ UNCHANGED <<gate, pinVars, pc, localVars, tableVars, playing>>
  BY <1>2, <1>3 DEF CleanupOne, Do
<1>5. /\ a \in CallSet /\ a.fn = "pull" /\ a.gpio = g /\ a.val = "off"
      /\ b \in CallSet /\ b.fn = "mode" /\ b.gpio = g /\ b.val = "IN"
      /\ c \in CallSet /\ c.fn = "remember" /\ c.gpio = g /\ c.val = "none"
  BY <1>3, CallsAre DEF Call, Directions
<1>6. PICK s \in Seq(CallSet) : s = <<a, b, c>> /\ Len(s) = 3 /\ s[1] = a /\ s[2] = b /\ s[3] = c
  <2>1. <<a, b, c>> \in Seq(CallSet) /\ Len(<<a, b, c>>) = 3 /\ <<a, b, c>>[1] = a
        /\ <<a, b, c>>[2] = b /\ <<a, b, c>>[3] = c
    BY <1>5
  <2> QED BY <2>1
<1>7. /\ \A i \in 1..Len(s) : i = 1 \/ i = 2 \/ i = 3
      /\ 1 \in 1..Len(s) /\ 2 \in 1..Len(s) /\ 3 \in 1..Len(s) /\ s # <<>>
  BY <1>6
<1>8. /\ \A i \in 1..Len(s) : s[i].gpio = g
      /\ \A i \in 1..Len(s) : s[i].fn = "pull" => s[i].val = "off"
      /\ \A i \in 1..Len(s) : s[i].fn # "write"
  BY <1>5, <1>6, <1>7
<1>9. Shape(s)
  <2>1. ASSUME NEW i \in 1..Len(s), NEW j \in 1..Len(s)
        PROVE  /\ s[i].gpio = s[j].gpio
               /\ i < j => /\ s[i].fn = "write" => s[j].fn # "write"
                           /\ s[i].fn = "mode" => s[j].fn \in {"read", "remember"}
                           /\ s[i].fn # "remember"
    BY <1>5, <1>6, <1>7
  <2>2. ASSUME NEW i \in 1..Len(s), s[i].fn = "mode"
        PROVE  3 \in 1..Len(s) /\ i < 3 /\ s[3].fn = "remember" /\ s[3].val = "none"
    BY <1>5, <1>6, <1>7, <2>2
  <2> QED BY <2>1, <2>2 DEF Shape
<1>10. asked \in [Gpio -> [level : {Unasked, 0, 1}, pull : {"off", "down", "up"}]]
  BY DEF TypeInv, TableTypes
<1>11. /\ asked'[g].pull = "off" /\ asked'[g].level = asked[g].level
       /\ \A h \in Gpio \ {g} : asked'[h] = asked[h]
       /\ asked' \in [Gpio -> [level : {Unasked, 0, 1}, pull : {"off", "down", "up"}]]
  BY <1>4, <1>10
<1>12. Takes(g, s)
  BY <1>2, <1>4, <1>6, <1>7, <1>8, <1>9, <1>11 DEF Takes, localVars, tableVars
<1>13. (\E i \in 1..Len(s) : s[i].fn = "pull") /\ (\E i \in 1..Len(s) : s[i].fn = "mode")
  BY <1>5, <1>6, <1>7
<1>14. Agrees(g, s)
  BY <1>8, <1>11, <1>13 DEF Agrees
<1>15. TableKinds
  BY <1>4 DEF TypeInv, TableTypes, TableKinds, tableVars
<1> QED BY <1>2, <1>11, <1>12, <1>14, <1>15

AskedTypes == [Gpio -> [level : {Unasked, 0, 1}, pull : {"off", "down", "up"}]]
TakeStep ==
  /\ \E g : From(g) /\ \E s : Takes(g, s) /\ Agrees(g, s)
  /\ rest' \in Seq(Item) /\ asked' \in AskedTypes

\* Every step is of one of five kinds.
LEMMA StepKinds ==
  ASSUME TypeInv, Next
  PROVE  \/ ListStep /\ TableKinds
         \/ TakeStep /\ TableKinds
         \/ Remember
         \/ \E t \in PwmThread : StartPwm(t) \/ StopPwm(t) \/ PwmWrite(t)
         \/ \E t \in Thread : Step(t)
<1>1. CASE Function
  <2>1. ASSUME NEW g \in Gpio, Input(g) \/ GpioFunction(g) PROVE TakeStep /\ TableKinds
    <3>1. TableKinds /\ From(g) /\ \E s : Takes(g, s) /\ Agrees(g, s)
      BY <2>1, TakesRead
    <3>2. rest' = rest /\ asked' = asked
      BY <2>1 DEF Input, GpioFunction
    <3> QED BY <3>1, <3>2 DEF TakeStep, AskedTypes, TypeInv, TableTypes
  <2> QED BY <1>1, <2>1, BeginsList, GoesOnWithList DEF Function
<1>2. CASE FunctionStep
  <2>1. CASE SetupChannel
    BY <2>1, TakesSetup DEF TakeStep, AskedTypes
  <2>2. CASE OutputChannel
    BY <2>2, TakesOutput DEF TakeStep, AskedTypes
  <2>3. CASE CleanupNext \/ (CleanupChannel /\ direction[Head(rest).chan] # "none")
    BY <2>3, TakesCleanup DEF TakeStep, AskedTypes
  <2>4. CASE Raise \/ CleanupEnd \/ (CleanupChannel /\ direction[Head(rest).chan] = "none")
    BY <2>4, GoesOnWithList
  <2> QED BY <1>2, <2>1, <2>2, <2>3, <2>4 DEF FunctionStep
<1> QED BY <1>1, <1>2 DEF Next

LEMMA RememberIs ==
  ASSUME TypeInv, Remember
  PROVE  /\ todo[Main] # <<>> /\ Current(Main) \in CallSet /\ Current(Main).fn = "remember"
         /\ Current(Main) = todo[Main][1] /\ 1 \in 1..Len(todo[Main])
         /\ Current(Main).val \in Directions /\ Current(Main).gpio \in Gpio
         /\ pc[Main] = "start" /\ pc' = pc
         /\ direction' = [direction EXCEPT ![Current(Main).gpio] = Current(Main).val]
         /\ todo' = [todo EXCEPT ![Main] = Tail(@)]
         /\ UNCHANGED <<gate, pinVars, word, saved, mapped, mode, rest, playing, asked>>
<1>1. todo[Main] # <<>> /\ Current(Main).fn = "remember" /\ Main \in Thread
  BY PyParameters DEF Remember, Calls
<1>2. Current(Main) \in CallSet /\ Current(Main) = todo[Main][1] /\ 1 \in 1..Len(todo[Main])
  BY <1>1, CurrentIs DEF TypeInv
<1>3. Current(Main).val \in Directions /\ Current(Main).gpio \in Gpio
  BY <1>1, <1>2, CallIs
<1>4. pc[Main] = "start"
  BY <1>1 DEF TypeInv, ThreadTypes, StepOf
<1>5. pc' = [pc EXCEPT ![Main] = "start"] /\ todo' = [todo EXCEPT ![Main] = Tail(@)]
  BY DEF Remember, Return
<1>6. pc' = pc
  BY <1>1, <1>4, <1>5 DEF TypeInv, ThreadTypes
<1> QED BY <1>1, <1>2, <1>3, <1>4, <1>5, <1>6 DEF Remember, localVars

LEMMA PwmWriteIs ==
  ASSUME TypeInv, NEW t \in PwmThread, PwmWrite(t)
  PROVE  /\ t \in Thread /\ t # Main /\ SoftPin[t] \in Wired /\ SoftPin[t] \in Gpio
         /\ \E v \in {0, 1}, s \in Seq(CallSet) :
              /\ s # <<>> /\ Len(s) = 1 /\ s[1] = Call("write", SoftPin[t], v)
              /\ todo' = [todo EXCEPT ![t] = s]
         /\ Idle(t) /\ playing[t] # "off"
         /\ \E p \in {"on", "ending", "off"} : playing' = [playing EXCEPT ![t] = p]
         /\ UNCHANGED <<gate, pinVars, pc, word, saved, tableVars, rest, asked>>
<1>1. t \in Thread /\ t # Main /\ SoftPin[t] \in Wired /\ SoftPin[t] \in Gpio
  BY PyParameters, RegisterParameters DEF PwmThread
<1>2. /\ Idle(t) /\ playing[t] \in {"on", "ending"}
      /\ UNCHANGED <<gate, pinVars, pc, word, saved, tableVars, rest, asked>>
  BY DEF PwmWrite, localVars
<1>3. \E v \in {0, 1} : todo' = [todo EXCEPT ![t] = <<Call("write", SoftPin[t], v)>>]
  BY DEF PwmWrite
<1>4. PICK v \in {0, 1} : todo' = [todo EXCEPT ![t] = <<Call("write", SoftPin[t], v)>>]
  BY <1>3
<1>5. Call("write", SoftPin[t], v) \in CallSet
  BY <1>1, CallsAre
<1>6. PICK s \in Seq(CallSet) : /\ s = <<Call("write", SoftPin[t], v)>>
                                /\ s # <<>> /\ Len(s) = 1 /\ s[1] = Call("write", SoftPin[t], v)
  BY <1>5, Singles
<1>7. \E p \in {"on", "ending", "off"} : playing' = [playing EXCEPT ![t] = p]
  <2>1. playing \in [PwmThread -> {"on", "ending", "off"}]
    BY DEF TypeInv, TableTypes
  <2>2. CASE playing[t] = "on" /\ UNCHANGED playing
    <3>1. playing' = [playing EXCEPT ![t] = playing[t]] /\ playing[t] \in {"on", "ending", "off"}
      BY <2>1, <2>2
    <3> QED BY <3>1
  <2>3. CASE playing' = [playing EXCEPT ![t] = "off"]
    BY <2>3
  <2> QED BY <2>2, <2>3 DEF PwmWrite
<1> QED BY <1>1, <1>2, <1>4, <1>6, <1>7

LEMMA TypesKept ==
  ASSUME TypeInv, [Next]_vars
  PROVE  TypeInv'
<1>1. PinTypes /\ ThreadTypes /\ TableTypes /\ Main \in Thread
  BY PyParameters DEF TypeInv
<1>2. ASSUME UNCHANGED pinVars, UNCHANGED gate PROVE PinTypes'
  BY <1>1, <1>2 DEF PinTypes, pinVars
<1>3. CASE ListStep /\ TableKinds
  <2>1. /\ UNCHANGED <<registerVars, direction, playing, asked>>
        /\ mapped' \in BOOLEAN /\ mode' \in NumberingModes \cup ModeArgs \cup {"UNKNOWN"}
    BY <1>3 DEF ListStep, TableKinds
  <2>2. rest' \in Seq(Item)
    <3>1. CASE rest' = <<>>
      BY <3>1
    <3>2. CASE rest # <<>> /\ rest' = Tail(rest)
      BY <3>2, RestIs
    <3> QED BY <1>1, <1>3, <3>1, <3>2 DEF ListStep, Lists, TableTypes
  <2> QED BY <1>1, <1>2, <2>1, <2>2, SameThreads DEF TypeInv, TableTypes, registerVars, localVars
<1>4. CASE TakeStep /\ TableKinds
  <2>1. PICK g, s : Takes(g, s) /\ rest' \in Seq(Item) /\ asked' \in AskedTypes
    BY <1>4 DEF TakeStep
  <2>2. /\ Idle(Main) /\ s \in Seq(CallSet) /\ todo' = [todo EXCEPT ![Main] = s]
        /\ UNCHANGED <<gate, pinVars, pc, word, saved, direction, playing>>
    BY <2>1 DEF Takes
  <2>3. ThreadTypes'
    BY <1>1, <2>2, GiveTypes
  <2> QED BY <1>1, <1>2, <1>4, <2>1, <2>2, <2>3 DEF TypeInv, TableTypes, TableKinds, AskedTypes
<1>5. CASE Remember
  <2>1. /\ todo[Main] # <<>> /\ Current(Main).val \in Directions /\ Current(Main).gpio \in Gpio
        /\ pc[Main] = "start" /\ pc' = pc
        /\ direction' = [direction EXCEPT ![Current(Main).gpio] = Current(Main).val]
        /\ todo' = [todo EXCEPT ![Main] = Tail(@)]
        /\ UNCHANGED <<gate, pinVars, word, saved, mapped, mode, rest, playing, asked>>
    BY <1>5, RememberIs
  <2>2. pc' = [pc EXCEPT ![Main] = "start"]
    BY <1>1, <2>1 DEF ThreadTypes
  <2>3. Frame(Main) /\ pc'[Main] = "start"
    BY <1>1, <2>1, <2>2, FrameOf
  <2>4. StepOf(Main)' /\ WordOf(Main)'
    BY <1>1, <2>1, <2>3 DEF StepOf, WordOf, ThreadTypes
  <2>5. ThreadTypes'
    BY <1>1, <2>3, <2>4, FrameTypes
  <2> QED BY <1>1, <1>2, <2>1, <2>5 DEF TypeInv, TableTypes
<1>6. ASSUME NEW t \in PwmThread, StartPwm(t) PROVE TypeInv'
  <2>1. t \in Thread /\ SoftPin[t] \in Gpio
    BY PyParameters, RegisterParameters DEF PwmThread
  <2>2. /\ playing' = [playing EXCEPT ![t] = "on"] /\ asked' = [asked EXCEPT ![SoftPin[t]].level = Unasked]
        /\ UNCHANGED <<registerVars, tableVars, rest>>
    BY <1>6 DEF StartPwm
  <2> QED BY <1>1, <1>2, <2>1, <2>2, SameThreads
          DEF TypeInv, TableTypes, registerVars, localVars, tableVars
<1>7. ASSUME NEW t \in PwmThread, StopPwm(t) PROVE TypeInv'
  BY <1>1, <1>2, <1>7, SameThreads
     DEF StopPwm, TypeInv, TableTypes, registerVars, localVars, tableVars
<1>8. ASSUME NEW t \in PwmThread, PwmWrite(t) PROVE TypeInv'
  <2>1. /\ t \in Thread /\ Idle(t)
        /\ \E s \in Seq(CallSet) : todo' = [todo EXCEPT ![t] = s]
        /\ \E p \in {"on", "ending", "off"} : playing' = [playing EXCEPT ![t] = p]
        /\ UNCHANGED <<gate, pinVars, pc, word, saved, tableVars, rest, asked>>
    BY <1>8, PwmWriteIs
  <2>2. ThreadTypes'
    BY <1>1, <2>1, GiveTypes
  <2> QED BY <1>1, <1>2, <2>1, <2>2 DEF TypeInv, TableTypes, tableVars
<1>9. ASSUME NEW t \in Thread, Step(t) PROVE TypeInv'
  BY <1>1, <1>9, RegisterTypes DEF Step, TypeInv, TableTypes, tableVars
<1>10. CASE UNCHANGED vars
  BY <1>1, <1>2, <1>10, SameThreads DEF vars, registerVars, localVars, tableVars, TypeInv, TableTypes
<1> QED BY <1>3, <1>4, <1>5, <1>6, <1>7, <1>8, <1>9, <1>10, StepKinds

LEMMA TypesAtStart ==
  ASSUME Init
  PROVE  TypeInv
<1>1. PICK p \in PowerOn :
        /\ level = [g \in Gpio |-> p.level] /\ out = [g \in Gpio |-> p.out]
        /\ mux = [g \in Gpio |-> p.mux] /\ pull = [g \in Gpio |-> p.pull]
  BY DEF Init
<1>2. /\ p.level \in {0, 1} /\ p.out \in {0, 1} /\ p.mux \in {"gpio", "pwm", "other"}
      /\ p.pull \in {"off", "down", "up"}
  BY <1>1, PyParameters
<1>3. PinTypes
  BY <1>1, <1>2 DEF Init, PinTypes
<1>4. /\ todo = [t \in Thread |-> <<>>] /\ pc = [t \in Thread |-> "start"]
      /\ word = [t \in Thread |-> <<>>] /\ saved = [t \in Thread |-> FALSE]
  BY DEF Init
<1>5. ASSUME NEW t \in Thread PROVE StepOf(t) /\ WordOf(t)
  <2>1. pc[t] = "start" /\ word[t] = <<>>
    BY <1>4
  <2> QED BY <2>1 DEF StepOf, WordOf
<1>6. <<>> \in Seq(CallSet)
  OBVIOUS
<1>7. ThreadTypes
  BY <1>4, <1>5, <1>6 DEF ThreadTypes
<1>8. TableTypes
  <2>1. asked \in AskedTypes
    BY <1>1, <1>2 DEF Init, AskedTypes
  <2>2. rest \in Seq(Item)
    BY DEF Init
  <2> QED BY <2>1, <2>2 DEF Init, TableTypes, AskedTypes, Directions
<1> QED BY <1>3, <1>7, <1>8 DEF TypeInv

LEMMA TypesAlways == Spec => []TypeInv
<1>1. Init => TypeInv
  BY TypesAtStart
<1>2. TypeInv /\ [Next]_vars => TypeInv'
  BY TypesKept
<1> QED BY <1>1, <1>2, PTL DEF Spec

LEMMA TypeInvIsTypeOK ==
  ASSUME TypeInv
  PROVE  TypeOK
<1>1. ASSUME NEW t \in Thread, NEW i \in DOMAIN todo[t] PROVE IsCall(todo[t][i])
  <2>1. todo[t][i] \in CallSet
    BY <1>1 DEF TypeInv, ThreadTypes
  <2> QED BY <2>1, CallIs DEF IsCall, Directions
<1>2. ASSUME NEW t \in Thread
      PROVE  word[t] # <<>> <=> pc[t] \in {"open", "store mux", "store", "close"}
  <2>1. StepOf(t) /\ WordOf(t) /\ ThreadTypes
    BY <1>2 DEF TypeInv, ThreadTypes
  <2>2. ASSUME NEW S, NEW x \in S, NEW R, word[t] \in [S -> R] PROVE word[t] # <<>>
    <3>1. DOMAIN word[t] # {}
      BY <2>2
    <3>2. DOMAIN <<>> = {}
      OBVIOUS
    <3> QED BY <3>1, <3>2
  <2>3. CASE pc[t] \in {"open", "close"}
    <3>1. word[t] \in [GateWord(BankOf(t)) -> BOOLEAN] /\ todo[t] # <<>>
      BY <2>1, <2>3 DEF WordOf, StepOf
    <3>2. BankOf(t) \in GateWord(BankOf(t))
      BY <2>1, <3>1, CurrentIs
    <3> QED BY <2>2, <2>3, <3>1, <3>2
  <2>4. CASE pc[t] \in {"store mux", "store"}
    <3>1. todo[t] # <<>> /\ Current(t).gpio \in Wired
      BY <2>1, <2>4 DEF StepOf, Gated
    <3>2. Current(t).gpio \in Group(Current(t).gpio) \cap DataWord(BankOf(t))
      BY <2>1, <3>1, CurrentIs
    <3>3. \/ word[t] \in [Group(Current(t).gpio) -> {"gpio", "pwm", "other"}]
          \/ word[t] \in [DataWord(BankOf(t)) -> {0, 1}]
      BY <2>1, <2>4 DEF WordOf
    <3> QED BY <2>2, <2>4, <3>2, <3>3
  <2>5. CASE pc[t] \notin {"open", "store mux", "store", "close"}
    <3>1. word[t] = <<>>
      BY <2>1, <2>5 DEF WordOf
    <3> QED BY <2>5, <3>1
  <2> QED BY <2>3, <2>4, <2>5
<1>3. \A t \in Thread : pc[t] # "start" => todo[t] # <<>>
  BY DEF TypeInv, ThreadTypes, StepOf
<1>4. ASSUME NEW i \in DOMAIN rest
      PROVE  rest[i].fn \in {"setup", "output", "cleanup", "cleanup all"}
  <2>1. rest[i] \in Item
    BY <1>4 DEF TypeInv, TableTypes
  <2> QED BY <2>1, ItemIs
<1> QED BY <1>1, <1>2, <1>3, <1>4 DEF TypeOK, TypeInv, PinTypes, ThreadTypes, TableTypes

\* The bits of every pin, the words the threads hold, the calls to come, the
\* list and the table are of their types, and a thread holds a word exactly
\* between a read and the write that belongs to it (wiringTB.c, py_gpio.c).
THEOREM TypeCorrect == Spec => []TypeOK
<1>1. TypeInv => TypeOK
  BY TypeInvIsTypeOK
<1> QED BY <1>1, TypesAlways, PTL

-----------------------------------------------------------------------------
(* Nobody is in the bank of a PWM thread at work.                          *)

\* An item of a list, with the banks of the channels it is for.
Elsewhere(item, b) ==
  IF item.fn = "cleanup all" THEN \A g \in Remembered : Bank(g) # b
  ELSE item.chan \in Gpio => Bank(item.chan) # b

LEMMA AloneKnows ==
  ASSUME AloneInv, NEW t \in PwmThread, Busy(t)
  PROVE  /\ \A i \in 1..Len(todo[Main]) : Bank(todo[Main][i].gpio) # Bank(SoftPin[t])
         /\ \A i \in 1..Len(rest) : Elsewhere(rest[i], Bank(SoftPin[t]))
         /\ \A u \in PwmThread : u # t /\ Busy(u) => Bank(SoftPin[u]) # Bank(SoftPin[t])
         /\ asked[SoftPin[t]].level = Unasked
BY DEF AloneInv, Alone, Elsewhere

LEMMA AloneSuffices ==
  ASSUME NEW t \in PwmThread,
         Busy(t)' => \A i \in 1..Len(todo'[Main]) : Bank(todo'[Main][i].gpio) # Bank(SoftPin[t]),
         Busy(t)' => \A i \in 1..Len(rest') : Elsewhere(rest[i], Bank(SoftPin[t]))',
         Busy(t)' => \A u \in PwmThread : u # t /\ Busy(u)' => Bank(SoftPin[u]) # Bank(SoftPin[t]),
         Busy(t)' => asked'[SoftPin[t]].level = Unasked
  PROVE  Alone(t)'
BY DEF Alone, Elsewhere

LEMMA SoftPinIs ==
  ASSUME NEW t \in PwmThread
  PROVE  /\ t \in Thread /\ t # Main /\ Main \in Thread
         /\ SoftPin[t] \in Wired /\ SoftPin[t] \in Gpio
BY PyParameters, RegisterParameters DEF PwmThread

\* What MayUse assumes of the PWM threads.
LEMMA MayUseKnows ==
  ASSUME Apart, NEW gs, MayUse(gs), NEW t \in PwmThread, Busy(t), NEW g \in gs
  PROVE  Bank(g) # Bank(SoftPin[t])
BY DEF MayUse

LEMMA AloneListStep ==
  ASSUME Apart, TypeInv, AloneInv, ListStep
  PROVE  AloneInv'
<1>1. UNCHANGED <<todo, direction, playing, asked>> /\ rest \in Seq(Item)
  BY DEF ListStep, registerVars, TypeInv, TableTypes
<1>2. ASSUME NEW t \in PwmThread PROVE PwmCall(t)' /\ Alone(t)'
  <2>1. PwmCall(t)'
    BY <1>1 DEF AloneInv, PwmCall, Current
  <2>2. \A u \in PwmThread : Busy(u)' <=> Busy(u)
    BY <1>1 DEF Busy, Idle
  <2>3. ASSUME Busy(t), NEW i \in 1..Len(rest') PROVE Elsewhere(rest[i], Bank(SoftPin[t]))'
    <3>1. \A j \in 1..Len(rest) : Elsewhere(rest[j], Bank(SoftPin[t]))
      BY <2>3, AloneKnows
    <3>2. ASSUME Free, NEW gs, Lists(gs) PROVE Elsewhere(rest[i], Bank(SoftPin[t]))'
      BY <1>1, <2>3, <3>2, MayUseKnows DEF Lists, Elsewhere, Remembered
    <3>3. CASE rest # <<>> /\ rest' = Tail(rest)
      <4>1. i + 1 \in 1..Len(rest) /\ rest'[i] = rest[i + 1]
        BY <1>1, <2>3, <3>3, TailKnows
      <4> QED BY <1>1, <3>1, <4>1 DEF Elsewhere, Remembered
    <3>4. CASE rest' = rest
      BY <1>1, <2>3, <3>1, <3>4 DEF Elsewhere, Remembered
    <3>5. CASE rest' = <<>>
      BY <2>3, <3>5
    <3> QED BY <3>2, <3>3, <3>4, <3>5 DEF ListStep
  <2>4. Busy(t)' => \A i \in 1..Len(todo'[Main]) : Bank(todo'[Main][i].gpio) # Bank(SoftPin[t])
    BY <1>1, <2>2, AloneKnows
  <2>5. Busy(t)' => \A u \in PwmThread : u # t /\ Busy(u)' => Bank(SoftPin[u]) # Bank(SoftPin[t])
    BY <2>2, AloneKnows
  <2>6. Busy(t)' => asked'[SoftPin[t]].level = Unasked
    BY <1>1, <2>2, AloneKnows
  <2>7. Alone(t)'
    BY <2>2, <2>3, <2>4, <2>5, <2>6, AloneSuffices
  <2> QED BY <2>1, <2>7
<1> QED BY <1>2 DEF AloneInv

LEMMA FromElsewhere ==
  ASSUME Apart, TypeInv, AloneInv, NEW g \in Gpio, From(g), NEW t \in PwmThread, Busy(t)
  PROVE  Bank(g) # Bank(SoftPin[t])
<1>1. CASE Free /\ MayUse({g})
  BY <1>1, MayUseKnows
<1>2. ASSUME rest # <<>> PROVE Elsewhere(Head(rest), Bank(SoftPin[t]))
  BY <1>2, RestIs, AloneKnows
<1>3. CASE rest # <<>> /\ Head(rest).fn # "cleanup all" /\ Head(rest).chan = g
  BY <1>2, <1>3 DEF Elsewhere
<1>4. CASE Now("cleanup all") /\ g \in Remembered
  BY <1>2, <1>4 DEF Elsewhere, Now
<1> QED BY <1>1, <1>3, <1>4 DEF From

LEMMA AloneTakeStep ==
  ASSUME Apart, TypeInv, AloneInv, TakeStep
  PROVE  AloneInv'
<1>1. PICK g, s : From(g) /\ Takes(g, s)
  BY DEF TakeStep
<1>2. /\ g \in Gpio /\ s \in Seq(CallSet) /\ \A i \in 1..Len(s) : s[i].gpio = g
      /\ todo' = [todo EXCEPT ![Main] = s] /\ UNCHANGED <<direction, playing>>
      /\ \A h \in Gpio \ {g} : asked'[h] = asked[h]
  BY <1>1 DEF Takes
<1>3. todo'[Main] = s /\ \A u \in PwmThread : todo'[u] = todo[u]
  BY <1>2, SoftPinIs, PyParameters DEF TypeInv, ThreadTypes
<1>4. rest \in Seq(Item) /\ (rest' = rest \/ (rest # <<>> /\ rest' = Tail(rest)))
  BY <1>1 DEF From, TypeInv, TableTypes
<1>5. ASSUME NEW t \in PwmThread PROVE PwmCall(t)' /\ Alone(t)'
  <2>1. PwmCall(t)'
    BY <1>3 DEF AloneInv, PwmCall, Current
  <2>2. \A u \in PwmThread : Busy(u)' <=> Busy(u)
    BY <1>2, <1>3 DEF Busy, Idle
  <2>3. Busy(t) => Bank(g) # Bank(SoftPin[t]) /\ g # SoftPin[t]
    BY <1>1, <1>2, FromElsewhere
  <2>4. ASSUME Busy(t), NEW i \in 1..Len(rest') PROVE Elsewhere(rest[i], Bank(SoftPin[t]))'
    <3>1. \A j \in 1..Len(rest) : Elsewhere(rest[j], Bank(SoftPin[t]))
      BY <2>4, AloneKnows
    <3>2. CASE rest # <<>> /\ rest' = Tail(rest)
      <4>1. i + 1 \in 1..Len(rest) /\ rest'[i] = rest[i + 1]
        BY <1>4, <2>4, <3>2, TailKnows
      <4> QED BY <1>2, <3>1, <4>1 DEF Elsewhere, Remembered
    <3>3. CASE rest' = rest
      BY <1>2, <2>4, <3>1, <3>3 DEF Elsewhere, Remembered
    <3> QED BY <1>4, <3>2, <3>3
  <2>5. Busy(t)' => \A i \in 1..Len(todo'[Main]) : Bank(todo'[Main][i].gpio) # Bank(SoftPin[t])
    BY <1>2, <1>3, <2>2, <2>3
  <2>6. Busy(t)' => \A u \in PwmThread : u # t /\ Busy(u)' => Bank(SoftPin[u]) # Bank(SoftPin[t])
    BY <2>2, AloneKnows
  <2>7. Busy(t)' => asked'[SoftPin[t]].level = Unasked
    BY <1>2, <2>2, <2>3, AloneKnows, SoftPinIs
  <2>8. Alone(t)'
    BY <2>2, <2>4, <2>5, <2>6, <2>7, AloneSuffices
  <2> QED BY <2>1, <2>8
<1> QED BY <1>5 DEF AloneInv

LEMMA AloneRemember ==
  ASSUME TypeInv, AloneInv, Remember
  PROVE  AloneInv'
<1> DEFINE c == Current(Main)
<1>1. /\ todo[Main] # <<>> /\ c = todo[Main][1] /\ 1 \in 1..Len(todo[Main]) /\ c.gpio \in Gpio
      /\ direction' = [direction EXCEPT ![c.gpio] = c.val]
      /\ todo' = [todo EXCEPT ![Main] = Tail(@)]
      /\ UNCHANGED <<rest, playing, asked>>
  BY RememberIs
<1>2. /\ todo[Main] \in Seq(CallSet) /\ todo'[Main] = Tail(todo[Main])
      /\ \A u \in PwmThread : todo'[u] = todo[u]
  BY <1>1, SoftPinIs, PyParameters DEF TypeInv, ThreadTypes
<1>3. Remembered' \subseteq Remembered \cup {c.gpio}
  BY <1>1 DEF Remembered, TypeInv, TableTypes
<1> HIDE DEF c
<1>4. ASSUME NEW t \in PwmThread PROVE PwmCall(t)' /\ Alone(t)'
  <2>1. PwmCall(t)'
    BY <1>2 DEF AloneInv, PwmCall, Current
  <2>2. \A u \in PwmThread : Busy(u)' <=> Busy(u)
    BY <1>1, <1>2 DEF Busy, Idle
  <2>3. Busy(t) => Bank(c.gpio) # Bank(SoftPin[t])
    BY <1>1, AloneKnows
  <2>4. ASSUME Busy(t), NEW i \in 1..Len(rest') PROVE Elsewhere(rest[i], Bank(SoftPin[t]))'
    <3>1. Elsewhere(rest[i], Bank(SoftPin[t])) /\ rest'[i] = rest[i]
      BY <1>1, <2>4, AloneKnows
    <3> QED BY <1>3, <2>3, <2>4, <3>1 DEF Elsewhere
  <2>5. ASSUME Busy(t), NEW i \in 1..Len(todo'[Main]) PROVE Bank(todo'[Main][i].gpio) # Bank(SoftPin[t])
    <3>1. i + 1 \in 1..Len(todo[Main]) /\ todo'[Main][i] = todo[Main][i + 1]
      <4>1. todo[Main] # <<>>
        BY <1>1
      <4> QED BY <1>2, <4>1, TailKnows
    <3> QED BY <2>5, <3>1, AloneKnows
  <2>6. Busy(t)' => \A u \in PwmThread : u # t /\ Busy(u)' => Bank(SoftPin[u]) # Bank(SoftPin[t])
    BY <2>2, AloneKnows
  <2>7. Busy(t)' => asked'[SoftPin[t]].level = Unasked
    BY <1>1, <2>2, AloneKnows
  <2>8. Alone(t)'
    BY <2>2, <2>4, <2>5, <2>6, <2>7, AloneSuffices
  <2> QED BY <2>1, <2>8
<1> QED BY <1>4 DEF AloneInv

LEMMA AloneSame ==
  ASSUME AloneInv, NEW u \in PwmThread, todo'[Main] = todo[Main],
         UNCHANGED <<direction, rest, asked>>, \A v \in PwmThread : Busy(v)' <=> Busy(v)
  PROVE  Alone(u)'
<1>1. Busy(u)' => \A i \in 1..Len(todo'[Main]) : Bank(todo'[Main][i].gpio) # Bank(SoftPin[u])
  BY AloneKnows
<1>2. ASSUME Busy(u), NEW i \in 1..Len(rest') PROVE Elsewhere(rest[i], Bank(SoftPin[u]))'
  <2>1. Elsewhere(rest[i], Bank(SoftPin[u]))
    BY <1>2, AloneKnows
  <2> QED BY <2>1 DEF Elsewhere, Remembered
<1>3. Busy(u)' => \A v \in PwmThread : v # u /\ Busy(v)' => Bank(SoftPin[v]) # Bank(SoftPin[u])
  BY AloneKnows
<1>4. Busy(u)' => asked'[SoftPin[u]].level = Unasked
  BY AloneKnows
<1> QED BY <1>1, <1>2, <1>3, <1>4, AloneSuffices

LEMMA AlonePwm ==
  ASSUME Apart, TypeInv, AloneInv, NEW t \in PwmThread, StartPwm(t) \/ StopPwm(t) \/ PwmWrite(t)
  PROVE  AloneInv'
<1>1. /\ playing \in [PwmThread -> {"on", "ending", "off"}] /\ todo \in [Thread -> Seq(CallSet)]
      /\ asked \in [Gpio -> [level : {Unasked, 0, 1}, pull : {"off", "down", "up"}]]
  BY DEF TypeInv, TableTypes, ThreadTypes
<1>2. t \in Thread /\ t # Main /\ Main \in Thread /\ SoftPin[t] \in Gpio
  BY SoftPinIs
<1>3. CASE StartPwm(t)
  <2>1. /\ Free /\ ~Busy(t) /\ MayUse({SoftPin[t]})
        /\ playing' = [playing EXCEPT ![t] = "on"]
        /\ asked' = [asked EXCEPT ![SoftPin[t]].level = Unasked]
        /\ UNCHANGED <<todo, direction, rest>> /\ todo[Main] = <<>> /\ rest = <<>>
    BY <1>3 DEF StartPwm, registerVars, tableVars, Free, Idle
  <2>2. \A u \in PwmThread \ {t} : Busy(u)' <=> Busy(u)
    BY <1>1, <2>1 DEF Busy, Idle
  <2>3. \A u \in PwmThread \ {t} : Busy(u) => Bank(SoftPin[t]) # Bank(SoftPin[u])
    BY <2>1, MayUseKnows
  <2>4. asked'[SoftPin[t]].level = Unasked /\ \A h \in Gpio \ {SoftPin[t]} : asked'[h] = asked[h]
    BY <1>1, <1>2, <2>1
  <2>5. ASSUME NEW u \in PwmThread PROVE PwmCall(u)' /\ Alone(u)'
    <3>1. PwmCall(u)'
      BY <2>1 DEF AloneInv, PwmCall, Current
    <3>2. \A i \in 1..Len(todo'[Main]) : Bank(todo'[Main][i].gpio) # Bank(SoftPin[u])
      BY <2>1
    <3>3. \A i \in 1..Len(rest') : Elsewhere(rest[i], Bank(SoftPin[u]))'
      BY <2>1
    <3>4. Busy(u)' => \A v \in PwmThread : v # u /\ Busy(v)' => Bank(SoftPin[v]) # Bank(SoftPin[u])
      BY <2>2, <2>3, AloneKnows
    <3>5. Busy(u)' => asked'[SoftPin[u]].level = Unasked
      <4>1. CASE SoftPin[u] = SoftPin[t]
        BY <2>4, <4>1
      <4>2. CASE SoftPin[u] # SoftPin[t]
        BY <2>2, <2>4, <4>2, AloneKnows, SoftPinIs
      <4> QED BY <4>1, <4>2
    <3>6. Alone(u)'
      BY <3>2, <3>3, <3>4, <3>5, AloneSuffices
    <3> QED BY <3>1, <3>6
  <2> QED BY <2>5 DEF AloneInv
<1>4. CASE StopPwm(t)
  <2>1. /\ playing[t] = "on" /\ playing' = [playing EXCEPT ![t] = "ending"]
        /\ UNCHANGED <<todo, direction, rest, asked>>
    BY <1>4 DEF StopPwm, registerVars, tableVars
  <2>2. \A u \in PwmThread : Busy(u)' <=> Busy(u)
    BY <1>1, <2>1 DEF Busy, Idle
  <2>3. ASSUME NEW u \in PwmThread PROVE PwmCall(u)' /\ Alone(u)'
    <3>1. PwmCall(u)'
      BY <2>1 DEF AloneInv, PwmCall, Current
    <3>2. Alone(u)'
      BY <2>1, <2>2, AloneSame
    <3> QED BY <3>1, <3>2
  <2> QED BY <2>3 DEF AloneInv
<1>5. CASE PwmWrite(t)
  <2>1. /\ playing[t] # "off" /\ UNCHANGED <<direction, rest, asked>>
        /\ \E v \in {0, 1}, s \in Seq(CallSet) :
             /\ s # <<>> /\ Len(s) = 1 /\ s[1] = Call("write", SoftPin[t], v)
             /\ todo' = [todo EXCEPT ![t] = s]
        /\ \E p \in {"on", "ending", "off"} : playing' = [playing EXCEPT ![t] = p]
    BY <1>5, PwmWriteIs DEF tableVars
  <2>2. PICK v \in {0, 1}, s \in Seq(CallSet) :
          /\ s # <<>> /\ Len(s) = 1 /\ s[1] = Call("write", SoftPin[t], v)
          /\ todo' = [todo EXCEPT ![t] = s]
    BY <2>1
  <2>3. todo'[t] = s /\ \A u \in Thread \ {t} : todo'[u] = todo[u]
    BY <1>1, <1>2, <2>2
  <2>4. \A u \in PwmThread : Busy(u)' <=> Busy(u)
    <3>1. Busy(t) /\ Busy(t)'
      <4>1. todo'[t] # <<>>
        BY <2>2, <2>3
      <4> QED BY <2>1, <4>1 DEF Busy, Idle
    <3>2. ASSUME NEW u \in PwmThread \ {t} PROVE Busy(u)' <=> Busy(u)
      BY <1>1, <2>1, <2>3, SoftPinIs DEF Busy, Idle
    <3> QED BY <3>1, <3>2
  <2>5. ASSUME NEW u \in PwmThread PROVE PwmCall(u)' /\ Alone(u)'
    <3>1. PwmCall(u)'
      <4>1. CASE u = t
        <5>1. Current(t)' = s[1] /\ Len(todo'[t]) = 1
          BY <2>2, <2>3 DEF Current
        <5> QED BY <2>2, <4>1, <5>1 DEF PwmCall, Call
      <4>2. CASE u # t
        BY <2>3, <4>2, SoftPinIs DEF AloneInv, PwmCall, Current
      <4> QED BY <4>1, <4>2
    <3>2. todo'[Main] = todo[Main]
      BY <1>2, <2>3
    <3>3. Alone(u)'
      BY <2>1, <2>4, <3>2, AloneSame
    <3> QED BY <3>1, <3>3
  <2> QED BY <2>5 DEF AloneInv
<1> QED BY <1>3, <1>4, <1>5

LEMMA AloneStep ==
  ASSUME TypeInv, AloneInv, NEW t \in Thread, Step(t)
  PROVE  AloneInv'
<1>1. Frame(t) /\ UNCHANGED <<direction, rest, playing, asked>>
  BY RegisterTypes DEF Step, tableVars
<1>2. /\ \A u \in Thread \ {t} : todo'[u] = todo[u]
      /\ todo'[t] = todo[t] \/ (todo[t] # <<>> /\ todo'[t] = Tail(todo[t]))
  BY <1>1 DEF Frame
<1>3. \A u \in Thread : todo[u] \in Seq(CallSet)
  BY DEF TypeInv, ThreadTypes
<1>4. ASSUME NEW u \in PwmThread, Busy(u)' PROVE Busy(u)
  <2>1. u \in Thread
    BY SoftPinIs
  <2> QED BY <1>1, <1>2, <1>4, <2>1 DEF Busy, Idle
<1>5. ASSUME NEW i \in 1..Len(todo'[Main])
      PROVE  \E j \in 1..Len(todo[Main]) : todo'[Main][i] = todo[Main][j]
  <2>1. CASE todo'[Main] = todo[Main]
    BY <1>5, <2>1
  <2>2. CASE todo[Main] # <<>> /\ todo'[Main] = Tail(todo[Main])
    <3>1. todo[Main] \in Seq(CallSet)
      BY <1>3, PyParameters
    <3>2. i + 1 \in 1..Len(todo[Main]) /\ todo'[Main][i] = todo[Main][i + 1]
      BY <1>5, <2>2, <3>1, TailKnows
    <3> QED BY <3>2
  <2> QED BY <1>2, <2>1, <2>2, PyParameters
<1>6. ASSUME NEW u \in PwmThread PROVE PwmCall(u)' /\ Alone(u)'
  <2>1. PwmCall(u)'
    <3>1. CASE todo'[u] = todo[u]
      BY <3>1 DEF AloneInv, PwmCall, Current
    <3>2. CASE todo[u] # <<>> /\ todo'[u] = Tail(todo[u])
      <4>1. Len(todo[u]) = 1 /\ todo[u] \in Seq(CallSet)
        BY <1>3, <3>2, SoftPinIs DEF AloneInv, PwmCall
      <4>2. Tail(todo[u]) \in Seq(CallSet) /\ Len(Tail(todo[u])) = 0
        <5>1. todo[u] # <<>>
          BY <3>2
        <5> QED BY <4>1, <5>1, TailKnows
      <4>3. todo'[u] = <<>>
        BY <3>2, <4>2, EmptySeq
      <4> QED BY <4>3 DEF PwmCall
    <3> QED BY <1>2, <3>1, <3>2, SoftPinIs
  <2>2. Busy(u)' => \A i \in 1..Len(todo'[Main]) : Bank(todo'[Main][i].gpio) # Bank(SoftPin[u])
    <3>1. ASSUME Busy(u)', NEW i \in 1..Len(todo'[Main]) PROVE Bank(todo'[Main][i].gpio) # Bank(SoftPin[u])
      <4>1. PICK j \in 1..Len(todo[Main]) : todo'[Main][i] = todo[Main][j]
        BY <1>5, <3>1
      <4> QED BY <1>4, <3>1, <4>1, AloneKnows
    <3> QED BY <3>1
  <2>3. Busy(u)' => \A i \in 1..Len(rest') : Elsewhere(rest[i], Bank(SoftPin[u]))'
    <3>1. ASSUME Busy(u)', NEW i \in 1..Len(rest') PROVE Elsewhere(rest[i], Bank(SoftPin[u]))'
      <4>1. Elsewhere(rest[i], Bank(SoftPin[u]))
        BY <1>1, <1>4, <3>1, AloneKnows
      <4> QED BY <1>1, <4>1 DEF Elsewhere, Remembered
    <3> QED BY <3>1
  <2>4. Busy(u)' => \A v \in PwmThread : v # u /\ Busy(v)' => Bank(SoftPin[v]) # Bank(SoftPin[u])
    BY <1>4, AloneKnows
  <2>5. Busy(u)' => asked'[SoftPin[u]].level = Unasked
    BY <1>1, <1>4, AloneKnows
  <2>6. Alone(u)'
    BY <2>2, <2>3, <2>4, <2>5, AloneSuffices
  <2> QED BY <2>1, <2>6
<1> QED BY <1>6 DEF AloneInv

LEMMA AloneKept ==
  ASSUME Apart, TypeInv, AloneInv, [Next]_vars
  PROVE  AloneInv'
<1>1. ASSUME UNCHANGED vars PROVE AloneInv'
  <2>1. UNCHANGED <<todo, direction, rest, playing, asked>>
    BY <1>1 DEF vars, registerVars, tableVars
  <2>2. \A v \in PwmThread : Busy(v)' <=> Busy(v)
    BY <2>1 DEF Busy, Idle
  <2>3. ASSUME NEW u \in PwmThread PROVE PwmCall(u)' /\ Alone(u)'
    <3>1. Alone(u)'
      BY <2>1, <2>2, AloneSame
    <3> QED BY <2>1, <3>1 DEF AloneInv, PwmCall, Current
  <2> QED BY <2>3 DEF AloneInv
<1>2. ASSUME NEW t \in PwmThread, StartPwm(t) \/ StopPwm(t) \/ PwmWrite(t) PROVE AloneInv'
  BY <1>2, AlonePwm
<1>3. ASSUME NEW t \in Thread, Step(t) PROVE AloneInv'
  BY <1>3, AloneStep
<1> QED BY <1>1, <1>2, <1>3, StepKinds, AloneListStep, AloneTakeStep, AloneRemember

-----------------------------------------------------------------------------
(* What a call does to the clocks and to the pins.                         *)

LEMMA BanksApart ==
  ASSUME TypeInv, AloneInv, NEW t \in Thread, NEW u \in Thread \ {t}, todo[t] # <<>>, todo[u] # <<>>
  PROVE  BankOf(t) # BankOf(u)
<1>1. ASSUME NEW x \in PwmThread, todo[x] # <<>>
      PROVE  Busy(x) /\ BankOf(x) = Bank(SoftPin[x])
  BY <1>1 DEF AloneInv, PwmCall, Busy, Idle, BankOf
<1>2. ASSUME NEW x \in PwmThread, todo[x] # <<>>, todo[Main] # <<>>
      PROVE  BankOf(Main) # BankOf(x)
  <2>1. Current(Main) = todo[Main][1] /\ 1 \in 1..Len(todo[Main]) /\ BankOf(Main) = Bank(Current(Main).gpio)
    BY <1>2, CurrentIs, PyParameters DEF TypeInv
  <2>2. Busy(x) /\ BankOf(x) = Bank(SoftPin[x])
    BY <1>1, <1>2
  <2> QED BY <2>1, <2>2, AloneKnows
<1>3. CASE t = Main
  BY <1>2, <1>3 DEF PwmThread
<1>4. CASE u = Main
  BY <1>2, <1>4 DEF PwmThread
<1>5. CASE t # Main /\ u # Main
  <2>1. t \in PwmThread /\ u \in PwmThread
    BY <1>5 DEF PwmThread
  <2> QED BY <1>1, <2>1, AloneKnows
<1> QED BY <1>3, <1>4, <1>5

\* The whole word that is written is the one that was read, but for the pin.
LEMMA StoreIs ==
  ASSUME NEW reg \in [Gpio -> {0, 1}], NEW t \in Thread, NEW g \in Gpio, NEW v,
         NEW D \in SUBSET Gpio, g \in D, word[t] = Fields(reg, D)
  PROVE  StoreAll(reg, Changed(t, g, v), g) = [reg EXCEPT ![g] = v]
<1>1. Changed(t, g, v) = [[f \in D |-> reg[f]] EXCEPT ![g] = v]
  BY DEF Changed, Fields
<1> QED BY <1>1 DEF StoreAll

\* A step of a call changes the clock of its bank, and the function and the pull of
\* its pin; also its level and direction, if the word a thread is about to write is
\* the one in the register.
Fresh(t) ==
  pc[t] = "store" =>
    word[t] = Fields(IF Current(t).fn = "write" THEN level ELSE out, DataWord(BankOf(t)))
OwnFields(t) ==
  /\ \A b \in Banks \ {BankOf(t)} : gate'[b] = gate[b]
  /\ \A g \in Gpio \ {Current(t).gpio} : mux'[g] = mux[g] /\ pull'[g] = pull[g]
Effect(t) ==
  /\ \A b \in Banks \ {BankOf(t)} : gate'[b] = gate[b]
  /\ \A g \in Gpio \ {Current(t).gpio} :
       level'[g] = level[g] /\ out'[g] = out[g] /\ mux'[g] = mux[g] /\ pull'[g] = pull[g]

LEMMA FieldEffect ==
  ASSUME TypeInv, NEW t \in Thread, RegisterStep(t)
  PROVE  todo[t] # <<>> /\ OwnFields(t)
<1>1. todo[t] # <<>>
  BY DEF RegisterStep, At, SaveGate, PeekGate, OpenGate, PeekAgain, CloseGate, Look, LoadMux,
         StoreMux, Load, StoreLevel, StoreOut, SetPull, Ignore
<1>2. /\ gate \in [Banks -> BOOLEAN]
      /\ mux \in [Gpio -> {"gpio", "pwm", "other"}] /\ pull \in [Gpio -> {"off", "down", "up"}]
  BY DEF TypeInv, PinTypes
<1>3. CASE StoreMux(t)
  <2>1. UNCHANGED <<gate, pull>> /\ \E x : mux' = [mux EXCEPT ![Current(t).gpio] = x]
    BY <1>3 DEF StoreMux, StoreMasked
  <2> QED BY <1>1, <1>2, <2>1 DEF OwnFields
<1>4. CASE SetPull(t)
  <2>1. UNCHANGED <<gate, mux>> /\ \E x : pull' = [pull EXCEPT ![Current(t).gpio] = x]
    BY <1>4 DEF SetPull, StoreMasked
  <2> QED BY <1>1, <1>2, <2>1 DEF OwnFields
<1>5. CASE OpenGate(t) \/ CloseGate(t)
  <2>1. UNCHANGED <<mux, pull>> /\ \E x : gate' = [gate EXCEPT ![BankOf(t)] = x]
    BY <1>5 DEF OpenGate, CloseGate, StoreMasked, pinVars
  <2> QED BY <1>1, <1>2, <2>1 DEF OwnFields
<1>6. CASE \/ SaveGate(t) \/ PeekGate(t) \/ PeekAgain(t) \/ Look(t) \/ LoadMux(t) \/ Load(t)
           \/ Ignore(t) \/ StoreLevel(t) \/ StoreOut(t)
  <2>1. UNCHANGED <<gate, mux, pull>>
    BY <1>6 DEF SaveGate, PeekGate, PeekAgain, Look, LoadMux, Load, Ignore, StoreLevel, StoreOut,
                pinVars
  <2> QED BY <1>1, <2>1 DEF OwnFields
<1> QED BY <1>3, <1>4, <1>5, <1>6 DEF RegisterStep

LEMMA FreshEffect ==
  ASSUME TypeInv, NEW t \in Thread, Fresh(t), RegisterStep(t)
  PROVE  todo[t] # <<>> /\ Effect(t)
<1> DEFINE c == Current(t)
<1>1. todo[t] # <<>>
  BY DEF RegisterStep, At, SaveGate, PeekGate, OpenGate, PeekAgain, CloseGate, Look, LoadMux,
         StoreMux, Load, StoreLevel, StoreOut, SetPull, Ignore
<1>2. /\ BankOf(t) \in Banks /\ c.gpio \in Gpio /\ DataWord(BankOf(t)) \subseteq Gpio
      /\ c.gpio \in Wired => c.gpio \in DataWord(BankOf(t))
  <2>1. c \in CallSet /\ BankOf(t) \in Banks /\ DataWord(BankOf(t)) \subseteq Gpio
        /\ (c.gpio \in Wired => c.gpio \in DataWord(BankOf(t)))
    BY <1>1, CurrentIs DEF TypeInv
  <2> QED BY <2>1, CallIs
<1>3. /\ gate \in [Banks -> BOOLEAN] /\ level \in [Gpio -> {0, 1}] /\ out \in [Gpio -> {0, 1}]
      /\ mux \in [Gpio -> {"gpio", "pwm", "other"}] /\ pull \in [Gpio -> {"off", "down", "up"}]
  BY DEF TypeInv, PinTypes
<1>4. StepOf(t) /\ Fresh(t)
  BY DEF TypeInv, ThreadTypes
<1> HIDE DEF c
<1>5. CASE UNCHANGED <<gate, pinVars>>
  BY <1>1, <1>5 DEF Effect, pinVars
<1>6. ASSUME NEW x, gate' = [gate EXCEPT ![BankOf(t)] = x], UNCHANGED pinVars
      PROVE  Effect(t)
  BY <1>3, <1>6 DEF Effect, pinVars
<1>7. CASE StoreMux(t)
  <2>1. UNCHANGED <<gate, level, out, pull>> /\ \E x : mux' = [mux EXCEPT ![c.gpio] = x]
    BY <1>7 DEF StoreMux, StoreMasked, c
  <2> QED BY <1>1, <1>3, <2>1 DEF Effect, c
<1>8. CASE SetPull(t)
  <2>1. UNCHANGED <<gate, level, out, mux>> /\ \E x : pull' = [pull EXCEPT ![c.gpio] = x]
    BY <1>8 DEF SetPull, StoreMasked, c
  <2> QED BY <1>1, <1>3, <2>1 DEF Effect, c
<1>9. CASE StoreLevel(t)
  <2>1. /\ UNCHANGED <<gate, out, mux, pull>> /\ pc[t] = "store" /\ c.fn = "write"
        /\ level' = StoreAll(level, Changed(t, c.gpio, Level(c.val)), c.gpio)
    BY <1>9 DEF StoreLevel, At, Calls, c
  <2>2. c.gpio \in Wired /\ word[t] = Fields(level, DataWord(BankOf(t)))
    BY <1>4, <2>1 DEF StepOf, Gated, Fresh, c
  <2>3. level' = [level EXCEPT ![c.gpio] = Level(c.val)]
    <3>1. PICK g, v, D : g = c.gpio /\ v = Level(c.val) /\ D = DataWord(BankOf(t))
      OBVIOUS
    <3>2. g \in Gpio /\ D \in SUBSET Gpio /\ g \in D /\ word[t] = Fields(level, D)
      BY <1>2, <2>2, <3>1
    <3>3. StoreAll(level, Changed(t, g, v), g) = [level EXCEPT ![g] = v]
      BY <1>3, <3>2, StoreIs
    <3> QED BY <2>1, <3>1, <3>3
  <2> QED BY <1>1, <1>3, <2>1, <2>3 DEF Effect, c
<1>10. CASE StoreOut(t)
  <2>1. /\ UNCHANGED <<gate, level, mux, pull>> /\ pc[t] = "store" /\ c.fn = "mode"
        /\ out' = StoreAll(out, Changed(t, c.gpio, IF c.val = "OUT" THEN 1 ELSE 0), c.gpio)
    BY <1>10 DEF StoreOut, At, Calls, c
  <2>2. c.gpio \in Wired /\ word[t] = Fields(out, DataWord(BankOf(t)))
    BY <1>4, <2>1 DEF StepOf, Gated, Fresh, c
  <2>3. out' = [out EXCEPT ![c.gpio] = IF c.val = "OUT" THEN 1 ELSE 0]
    <3>1. PICK g, v, D : g = c.gpio /\ v = (IF c.val = "OUT" THEN 1 ELSE 0) /\ D = DataWord(BankOf(t))
      OBVIOUS
    <3>2. g \in Gpio /\ D \in SUBSET Gpio /\ g \in D /\ word[t] = Fields(out, D)
      BY <1>2, <2>2, <3>1
    <3>3. StoreAll(out, Changed(t, g, v), g) = [out EXCEPT ![g] = v]
      BY <1>3, <3>2, StoreIs
    <3> QED BY <2>1, <3>1, <3>3
  <2> QED BY <1>1, <1>3, <2>1, <2>3 DEF Effect, c
<1>11. CASE SaveGate(t) \/ PeekGate(t) \/ PeekAgain(t) \/ Look(t) \/ LoadMux(t) \/ Load(t) \/ Ignore(t)
  <2>1. UNCHANGED <<gate, pinVars>>
    BY <1>11 DEF SaveGate, PeekGate, PeekAgain, Look, LoadMux, Load, Ignore
  <2> QED BY <1>1, <1>5, <2>1
<1>12. CASE OpenGate(t) \/ CloseGate(t)
  <2>1. UNCHANGED pinVars /\ \E x : gate' = [gate EXCEPT ![BankOf(t)] = x]
    BY <1>12 DEF OpenGate, CloseGate, StoreMasked
  <2> QED BY <1>1, <1>6, <2>1
<1> QED BY <1>7, <1>8, <1>9, <1>10, <1>11, <1>12 DEF RegisterStep

LEMMA StepEffect ==
  ASSUME TypeInv, CallsInv, NEW t \in Thread, RegisterStep(t)
  PROVE  todo[t] # <<>> /\ Effect(t)
<1>1. Fresh(t)
  BY DEF CallsInv, DoneOf, Fresh
<1> QED BY <1>1, FreshEffect

\* Steps that are not of a call.
LEMMA CallsSame ==
  ASSUME CallsInv, UNCHANGED <<gate, pinVars, pc, word, saved>>,
         \A t \in Thread : pc[t] # "start" => todo'[t] = todo[t]
  PROVE  CallsInv'
<1>1. \A t \in Thread : pc[t] # "start" => BankOf(t)' = BankOf(t) /\ Current(t)' = Current(t)
  BY DEF BankOf, Current
<1>2. ClocksRestored'
  BY <1>1 DEF CallsInv, ClocksRestored
<1>3. ASSUME NEW t \in Thread PROVE ClockOf(t)' /\ DoneOf(t)'
  <2>1. ClockOf(t) /\ DoneOf(t)
    BY DEF CallsInv
  <2>2. CASE pc[t] = "start"
    BY <2>1, <2>2 DEF ClockOf, DoneOf, GateSteps, PinSteps, LastSteps
  <2>3. CASE pc[t] # "start"
    BY <1>1, <2>1, <2>3 DEF ClockOf, DoneOf, Conforms, pinVars
  <2> QED BY <2>2, <2>3
<1> QED BY <1>2, <1>3 DEF CallsInv

\* A step of another thread.
LEMMA CallsOfOthers ==
  ASSUME TypeInv, AloneInv, CallsInv, NEW t \in Thread, RegisterStep(t), NEW u \in Thread \ {t}
  PROVE  ClockOf(u)' /\ DoneOf(u)'
<1>1. Frame(t) /\ todo[t] # <<>> /\ Effect(t)
  BY RegisterTypes, StepEffect
<1>2. todo'[u] = todo[u] /\ pc'[u] = pc[u] /\ word'[u] = word[u] /\ saved'[u] = saved[u]
  BY <1>1 DEF Frame
<1>3. Current(u)' = Current(u) /\ BankOf(u)' = BankOf(u) /\ ClockOf(u) /\ DoneOf(u) /\ StepOf(u)
  BY <1>2 DEF Current, BankOf, CallsInv, TypeInv, ThreadTypes
<1>4. CASE pc[u] = "start"
  BY <1>2, <1>3, <1>4 DEF ClockOf, DoneOf, GateSteps, PinSteps, LastSteps
<1>5. CASE pc[u] # "start"
  <2>1. todo[u] # <<>> /\ Gated(Current(u))
    BY <1>3, <1>5 DEF StepOf
  <2>2. BankOf(u) # BankOf(t)
    BY <1>1, <2>1, BanksApart
  <2>3. /\ BankOf(u) \in Banks /\ DataWord(BankOf(u)) \subseteq Gpio
        /\ Current(u) \in CallSet /\ BankOf(u) = Bank(Current(u).gpio)
    BY <2>1, CurrentIs DEF TypeInv
  <2>4. Current(u).gpio \in Gpio /\ BankOf(t) = Bank(Current(t).gpio)
    BY <2>3, CallIs DEF BankOf
  <2>5. gate'[BankOf(u)] = gate[BankOf(u)]
    BY <1>1, <2>2, <2>3 DEF Effect
  <2>6. \A g \in DataWord(BankOf(u)) : level'[g] = level[g] /\ out'[g] = out[g]
    <3>1. ASSUME NEW g \in DataWord(BankOf(u)) PROVE g # Current(t).gpio
      BY <2>2, <2>4 DEF DataWord
    <3> QED BY <1>1, <2>3, <3>1 DEF Effect
  <2>7. Current(u).gpio # Current(t).gpio
    BY <2>2, <2>3, <2>4
  <2>8. /\ mux'[Current(u).gpio] = mux[Current(u).gpio] /\ out'[Current(u).gpio] = out[Current(u).gpio]
        /\ level'[Current(u).gpio] = level[Current(u).gpio]
    BY <1>1, <2>4, <2>7 DEF Effect
  <2>9. ClockOf(u)'
    BY <1>2, <1>3, <2>5 DEF ClockOf
  <2>10. Fields(level, DataWord(BankOf(u)))' = Fields(level, DataWord(BankOf(u)))
         /\ Fields(out, DataWord(BankOf(u)))' = Fields(out, DataWord(BankOf(u)))
    BY <1>3, <2>6 DEF Fields
  <2>11. DoneOf(u)'
    BY <1>2, <1>3, <2>8, <2>10 DEF DoneOf, Conforms
  <2> QED BY <2>9, <2>11
<1> QED BY <1>4, <1>5

\* The clocks a step of a call leaves restored: those of the other banks stay as
\* they are; its own counts when the call ends.
LEMMA ClocksKept ==
  ASSUME TypeInv, CallsInv, NEW t \in Thread, RegisterStep(t),
         \/ pc'[t] # "start"
         \/ gate'[BankOf(t)] <=> BankOf(t) \in Stopped
         \/ pc[t] = "start" /\ gate' = gate
  PROVE  ClocksRestored'
<1>1. Frame(t) /\ todo[t] # <<>> /\ Effect(t) /\ ClocksRestored
  BY RegisterTypes, StepEffect DEF CallsInv
<1>2. BankOf(t) \in Banks
  BY <1>1, CurrentIs DEF TypeInv
<1>3. ASSUME NEW u \in Thread \ {t} PROVE pc'[u] = pc[u] /\ BankOf(u)' = BankOf(u)
  BY <1>1 DEF Frame, BankOf, Current
<1>4. pc'[t] # "start" => BankOf(t)' = BankOf(t)
  BY <1>1 DEF Frame, BankOf, Current
<1>5. ASSUME NEW b \in Banks, \A u \in Thread : pc'[u] # "start" => BankOf(u)' # b
      PROVE  gate'[b] = (b \in Stopped)
  <2>1. \A u \in Thread \ {t} : pc[u] # "start" => BankOf(u) # b
    BY <1>3, <1>5
  <2>2. CASE b # BankOf(t)
    <3>1. gate'[b] = gate[b]
      BY <1>1, <2>2 DEF Effect
    <3>2. \A u \in Thread : pc[u] # "start" => BankOf(u) # b
      BY <2>1, <2>2
    <3>3. gate[b] = (b \in Stopped)
      BY <1>1, <3>2 DEF ClocksRestored
    <3> QED BY <3>1, <3>3
  <2>3. CASE b = BankOf(t)
    <3>1. pc'[t] = "start"
      BY <1>4, <1>5, <2>3
    <3>2. CASE gate'[BankOf(t)] <=> BankOf(t) \in Stopped
      <4>1. gate' \in [Banks -> BOOLEAN]
        BY RegisterTypes DEF PinTypes
      <4> QED BY <2>3, <3>2, <4>1
    <3>3. CASE pc[t] = "start" /\ gate' = gate
      <4>1. \A u \in Thread : pc[u] # "start" => BankOf(u) # b
        BY <2>1, <3>3
      <4> QED BY <1>1, <3>3, <4>1 DEF ClocksRestored
    <3> QED BY <3>1, <3>2, <3>3
  <2> QED BY <2>2, <2>3
<1> QED BY <1>5 DEF ClocksRestored

\* The clock of the bank of a call, at each of its steps.
LEMMA ClockOfCall ==
  ASSUME TypeInv, AloneInv, CallsInv, NEW t \in Thread, RegisterStep(t)
  PROVE  ClockOf(t)' /\ ClocksRestored'
<1>1. /\ todo[t] # <<>> /\ ClockOf(t) /\ gate \in [Banks -> BOOLEAN] /\ saved \in [Thread -> BOOLEAN]
      /\ DOMAIN word = Thread /\ word = [u \in Thread |-> word[u]] /\ WordOf(t)
  BY StepEffect DEF CallsInv, TypeInv, PinTypes, ThreadTypes
<1>2. /\ BankOf(t) \in Banks /\ BankOf(t) \in GateWord(BankOf(t)) /\ GateWord(BankOf(t)) \subseteq Banks
  BY <1>1, CurrentIs DEF TypeInv
<1>3. PICK b : b = BankOf(t)
  OBVIOUS
<1>4. pc \in [Thread -> {"start"} \cup GateSteps \cup PinSteps \cup LastSteps]
  BY DEF TypeInv, ThreadTypes
<1>5. CASE SaveGate(t)
  <2>1. /\ pc[t] = "start" /\ pc' = [pc EXCEPT ![t] = "peek"] /\ gate' = gate /\ todo' = todo
        /\ saved' = [saved EXCEPT ![t] = gate[b]]
    BY <1>3, <1>5 DEF SaveGate, At, Go
  <2>2. ASSUME NEW u \in Thread, pc[u] # "start" PROVE BankOf(u) # b
    <3>1. u # t /\ todo[u] # <<>>
      BY <2>1, <2>2 DEF TypeInv, ThreadTypes, StepOf
    <3> QED BY <1>1, <1>3, <3>1, BanksApart
  <2>3. gate[b] = (b \in Stopped)
    BY <1>2, <1>3, <2>2 DEF CallsInv, ClocksRestored
  <2>4. pc'[t] = "peek" /\ saved'[t] = gate[b] /\ BankOf(t)' = b
    BY <1>1, <1>3, <1>4, <2>1 DEF BankOf, Current
  <2>5. ClockOf(t)'
    BY <2>1, <2>3, <2>4 DEF ClockOf, GateSteps, PinSteps, LastSteps
  <2> QED BY <2>4, <2>5, ClocksKept
<1>6. CASE PeekGate(t)
  <2>1. /\ pc[t] = "peek" /\ pc' = [pc EXCEPT ![t] = "open"] /\ UNCHANGED <<gate, todo, saved>>
    BY <1>6 DEF PeekGate, At, Go
  <2>2. pc'[t] = "open" /\ BankOf(t)' = b
    BY <1>3, <1>4, <2>1 DEF BankOf, Current
  <2>3. ClockOf(t)'
    BY <1>1, <1>3, <2>1, <2>2 DEF ClockOf, GateSteps, PinSteps, LastSteps
  <2> QED BY <2>2, <2>3, ClocksKept
<1>7. CASE OpenGate(t)
  <2>1. /\ pc[t] = "open" /\ pc' = [pc EXCEPT ![t] = FirstAccess(Current(t))] /\ UNCHANGED <<todo, saved>>
        /\ gate' = [gate EXCEPT ![b] = Changed(t, b, FALSE)[b]]
    BY <1>3, <1>7 DEF OpenGate, At, Go, StoreMasked
  <2>2. Changed(t, b, FALSE)[b] = FALSE
    BY <1>1, <1>2, <1>3, <2>1 DEF Changed, WordOf
  <2>3. FirstAccess(Current(t)) \in {"look", "load", "load mux", "peek again"}
    BY DEF FirstAccess
  <2>4. pc'[t] \in {"look", "load", "load mux", "peek again"} /\ BankOf(t)' = b /\ gate'[b] = FALSE
    BY <1>1, <1>2, <1>3, <1>4, <2>1, <2>2, <2>3 DEF BankOf, Current
  <2>5. ClockOf(t)'
    BY <1>1, <1>3, <2>1, <2>4 DEF ClockOf, GateSteps, PinSteps, LastSteps
  <2> QED BY <2>4, <2>5, ClocksKept
<1>8. CASE PeekAgain(t)
  <2>1. /\ pc[t] = "peek again" /\ pc' = [pc EXCEPT ![t] = "close"] /\ UNCHANGED <<gate, todo, saved>>
        /\ word' = [word EXCEPT ![t] = Fields(gate, GateWord(b))]
    BY <1>3, <1>8 DEF PeekAgain, At, Go, Keep
  <2>2. pc'[t] = "close" /\ BankOf(t)' = b /\ word'[t][b] = gate[b]
    BY <1>1, <1>2, <1>3, <1>4, <2>1 DEF BankOf, Current, Fields
  <2>3. gate[b] = FALSE
    BY <1>1, <1>3, <2>1 DEF ClockOf, LastSteps
  <2>4. ClockOf(t)'
    BY <1>1, <1>3, <2>1, <2>2, <2>3 DEF ClockOf, GateSteps, PinSteps, LastSteps
  <2> QED BY <2>2, <2>4, ClocksKept
<1>9. CASE CloseGate(t)
  <2>1. /\ pc[t] = "close" /\ pc' = [pc EXCEPT ![t] = "start"] /\ saved' = [saved EXCEPT ![t] = FALSE]
        /\ gate' = [gate EXCEPT ![b] = Changed(t, b, Recovered(t))[b]]
    BY <1>3, <1>9 DEF CloseGate, At, Return, StoreMasked
  <2>2. Changed(t, b, Recovered(t))[b] = Recovered(t)
    BY <1>1, <1>2, <1>3, <2>1 DEF Changed, WordOf
  <2>3. word[t][b] = FALSE /\ saved[t] = (b \in Stopped)
    BY <1>1, <1>3, <2>1 DEF ClockOf
  <2>4. Recovered(t) <=> b \in Stopped
    BY <1>3, <2>3 DEF Recovered
  <2>5. gate'[b] <=> b \in Stopped
    BY <1>1, <1>2, <1>3, <2>1, <2>2, <2>4
  <2>6. pc'[t] = "start" /\ saved'[t] = FALSE
    BY <1>1, <1>4, <2>1
  <2>7. ClockOf(t)'
    BY <2>6 DEF ClockOf, GateSteps, PinSteps, LastSteps
  <2> QED BY <1>3, <2>5, <2>7, ClocksKept
<1>10. ASSUME NEW p \in PinSteps \cup {"peek again"}, pc[t] \in PinSteps,
              pc' = [pc EXCEPT ![t] = p], UNCHANGED <<gate, todo, saved>>
       PROVE  ClockOf(t)' /\ ClocksRestored'
  <2>1. pc'[t] = p /\ BankOf(t)' = b
    BY <1>3, <1>4, <1>10 DEF BankOf, Current
  <2>2. ClockOf(t)'
    BY <1>1, <1>3, <1>10, <2>1 DEF ClockOf, GateSteps, PinSteps, LastSteps
  <2>3. pc'[t] # "start"
    BY <1>10, <2>1 DEF PinSteps
  <2> QED BY <2>2, <2>3, ClocksKept
<1>11. CASE Look(t) \/ LoadMux(t) \/ StoreMux(t) \/ Load(t) \/ StoreLevel(t) \/ StoreOut(t)
  <2>1. /\ pc[t] \in PinSteps /\ UNCHANGED <<gate, todo, saved>>
        /\ \E p \in PinSteps \cup {"peek again"} : pc' = [pc EXCEPT ![t] = p]
    <3>1. pc[t] \in PinSteps /\ UNCHANGED <<gate, todo, saved>>
      BY <1>11 DEF Look, LoadMux, StoreMux, Load, StoreLevel, StoreOut, At, Go, PinSteps, localVars
    <3>2. PICK p, q, r, s : p = "peek again" /\ q = "store mux" /\ r = "load" /\ s = "store"
      OBVIOUS
    <3>3. \E x \in {p, q, r, s} : pc' = [pc EXCEPT ![t] = x]
      BY <1>11, <3>2 DEF Look, LoadMux, StoreMux, Load, StoreLevel, StoreOut, Go
    <3> QED BY <3>1, <3>2, <3>3 DEF PinSteps
  <2> QED BY <1>10, <2>1
<1>12. CASE SetPull(t) \/ Ignore(t)
  <2>1. pc[t] = "start" /\ gate' = gate /\ saved' = saved /\ pc' = [pc EXCEPT ![t] = "start"]
    BY <1>12 DEF SetPull, Ignore, At, Return, localVars
  <2>2. pc'[t] = "start"
    BY <1>4, <2>1
  <2>3. ClockOf(t)'
    BY <1>1, <2>1, <2>2 DEF ClockOf, GateSteps, PinSteps, LastSteps
  <2> QED BY <2>1, <2>3, ClocksKept
<1> QED BY <1>5, <1>6, <1>7, <1>8, <1>9, <1>11, <1>12 DEF RegisterStep

\* What a call has done to its pin, at each of its steps.
LEMMA DoneOfCall ==
  ASSUME TypeInv, CallsInv, NEW t \in Thread, RegisterStep(t)
  PROVE  DoneOf(t)'
<1>1. PICK c : c = Current(t)
  OBVIOUS
<1>2. /\ todo[t] # <<>> /\ StepOf(t) /\ DoneOf(t)
      /\ pc \in [Thread -> {"start"} \cup GateSteps \cup PinSteps \cup LastSteps]
      /\ DOMAIN word = Thread /\ word = [u \in Thread |-> word[u]]
  BY StepEffect DEF CallsInv, TypeInv, ThreadTypes
<1>3. c \in CallSet /\ c.gpio \in Gpio
  BY <1>1, <1>2, CurrentIs, CallIs DEF TypeInv
<1>4. /\ level \in [Gpio -> {0, 1}] /\ out \in [Gpio -> {0, 1}]
      /\ mux \in [Gpio -> {"gpio", "pwm", "other"}]
  BY DEF TypeInv, PinTypes
<1>5. ASSUME pc'[t] \notin {"load", "store", "peek again", "close"} PROVE DoneOf(t)'
  BY <1>5 DEF DoneOf, LastSteps
<1>6. ASSUME pc'[t] \in {"peek again", "close"}, UNCHANGED todo,
             c.fn = "write" => level'[c.gpio] = Level(c.val),
             c.fn = "mode" => Conforms(c.gpio, c.val)'
      PROVE  DoneOf(t)'
  <2>1. Current(t)' = c
    BY <1>1, <1>6 DEF Current
  <2> QED BY <1>6, <2>1 DEF DoneOf, LastSteps, Conforms
<1>7. ASSUME pc'[t] = "load", UNCHANGED todo, c.fn = "mode" => mux'[c.gpio] = "gpio"
      PROVE  DoneOf(t)'
  <2>1. Current(t)' = c
    BY <1>1, <1>7 DEF Current
  <2> QED BY <1>7, <2>1 DEF DoneOf, LastSteps
<1>8. CASE SaveGate(t) \/ PeekGate(t) \/ LoadMux(t)
  <2>1. pc'[t] \in {"peek", "open", "store mux"}
    BY <1>2, <1>8 DEF SaveGate, PeekGate, LoadMux, Go
  <2> QED BY <1>5, <2>1
<1>9. CASE CloseGate(t) \/ SetPull(t) \/ Ignore(t)
  <2>1. pc'[t] = "start"
    BY <1>2, <1>9 DEF CloseGate, SetPull, Ignore, Return
  <2> QED BY <1>5, <2>1
<1>10. CASE OpenGate(t)
  <2>1. pc[t] = "open" /\ pc' = [pc EXCEPT ![t] = FirstAccess(c)] /\ UNCHANGED todo
    BY <1>1, <1>10 DEF OpenGate, At, Go
  <2>2. pc'[t] = FirstAccess(c) /\ c.fn \in {"read", "write", "mode"}
    BY <1>1, <1>2, <2>1 DEF StepOf
  <2>3. CASE c.fn = "read"
    <3>1. pc'[t] = "look"
      BY <2>2, <2>3 DEF FirstAccess
    <3> QED BY <1>5, <3>1
  <2>4. CASE c.fn = "write"
    <3>1. pc'[t] = "load"
      BY <2>2, <2>4 DEF FirstAccess
    <3> QED BY <1>7, <2>1, <2>4, <3>1
  <2>5. CASE c.fn = "mode" /\ (c.val # "PWM" \/ c.gpio \in PwmPin)
    <3>1. pc'[t] = "load mux"
      BY <2>2, <2>5 DEF FirstAccess
    <3> QED BY <1>5, <3>1
  <2>6. CASE c.fn = "mode" /\ c.val = "PWM" /\ c.gpio \notin PwmPin
    <3>1. pc'[t] = "peek again"
      BY <2>2, <2>6 DEF FirstAccess
    <3>2. Conforms(c.gpio, c.val)'
      BY <2>6 DEF Conforms
    <3> QED BY <1>6, <2>1, <2>6, <3>1, <3>2
  <2> QED BY <2>2, <2>3, <2>4, <2>5, <2>6
<1>11. CASE PeekAgain(t)
  <2>1. pc[t] = "peek again" /\ pc'[t] = "close" /\ UNCHANGED <<todo, level, out, mux>>
    BY <1>2, <1>11 DEF PeekAgain, At, Go, pinVars
  <2>2. /\ c.fn = "write" => level[c.gpio] = Level(c.val)
        /\ c.fn = "mode" => Conforms(c.gpio, c.val)
    BY <1>1, <1>2, <2>1 DEF DoneOf, LastSteps
  <2> QED BY <1>6, <2>1, <2>2 DEF Conforms
<1>12. CASE Look(t)
  <2>1. pc[t] = "look" /\ pc'[t] = "peek again" /\ UNCHANGED todo
    BY <1>2, <1>12 DEF Look, At, Go
  <2>2. c.fn = "read"
    BY <1>1, <1>2, <2>1 DEF StepOf
  <2> QED BY <1>6, <2>1, <2>2
<1>13. CASE StoreMux(t)
  <2>1. /\ pc[t] = "store mux" /\ pc'[t] = IF c.val = "PWM" THEN "peek again" ELSE "load"
        /\ UNCHANGED todo
        /\ mux' = StoreMasked(mux, Changed(t, c.gpio, IF c.val = "PWM" THEN "pwm" ELSE "gpio"), c.gpio)
    BY <1>1, <1>2, <1>13 DEF StoreMux, At, Go
  <2>2. c.fn = "mode" /\ c.gpio \in Wired
    BY <1>1, <1>2, <2>1 DEF StepOf, Gated
  <2>3. /\ word[t] \in [Group(c.gpio) -> {"gpio", "pwm", "other"}]
        /\ c.gpio \in Group(c.gpio)
    BY <1>1, <1>2, <2>1, <2>2 DEF TypeInv, ThreadTypes, WordOf, Group
  <2>4. mux'[c.gpio] = IF c.val = "PWM" THEN "pwm" ELSE "gpio"
    BY <1>3, <1>4, <2>1, <2>3 DEF StoreMasked, Changed
  <2>5. CASE c.val = "PWM"
    <3>1. Conforms(c.gpio, c.val)'
      BY <2>4, <2>5 DEF Conforms
    <3> QED BY <1>6, <2>1, <2>2, <2>5, <3>1
  <2>6. CASE c.val # "PWM"
    BY <1>7, <2>1, <2>4, <2>6
  <2> QED BY <2>5, <2>6
<1>14. CASE Load(t)
  <2>1. /\ pc[t] = "load" /\ pc'[t] = "store" /\ UNCHANGED <<todo, level, out, mux>>
        /\ word' = [word EXCEPT ![t] = Fields(IF Calls(t, {"write"}) THEN level ELSE out, DataWord(BankOf(t)))]
    BY <1>2, <1>14 DEF Load, At, Go, Keep, pinVars
  <2>2. Current(t)' = c /\ BankOf(t)' = BankOf(t)
    BY <1>1, <2>1 DEF Current, BankOf
  <2>3. Calls(t, {"write"}) <=> c.fn = "write"
    BY <1>1, <1>2 DEF Calls
  <2>4. word'[t] = Fields(IF c.fn = "write" THEN level ELSE out, DataWord(BankOf(t)))
    BY <1>2, <2>1, <2>3
  <2>5. c.fn = "mode" => mux[c.gpio] = "gpio"
    BY <1>1, <1>2, <2>1 DEF DoneOf
  <2>6. word'[t] = Fields(IF c.fn = "write" THEN level ELSE out, DataWord(BankOf(t)))'
    BY <2>1, <2>2, <2>4 DEF Fields
  <2> QED BY <2>1, <2>2, <2>5, <2>6 DEF DoneOf, LastSteps
<1>15. ASSUME pc[t] = "store", c.gpio \in Wired, NEW reg \in [Gpio -> {0, 1}], NEW v,
              word[t] = Fields(reg, DataWord(BankOf(t)))
       PROVE  StoreAll(reg, Changed(t, c.gpio, v), c.gpio)[c.gpio] = v
  <2>1. PICK D : D = DataWord(BankOf(t))
    OBVIOUS
  <2>2. PICK g : g = c.gpio
    OBVIOUS
  <2>3. D \in SUBSET Gpio /\ g \in D /\ g \in Gpio /\ word[t] = Fields(reg, D)
    BY <1>1, <1>2, <1>3, <1>15, <2>1, <2>2, CurrentIs DEF TypeInv
  <2>4. StoreAll(reg, Changed(t, g, v), g) = [reg EXCEPT ![g] = v]
    BY <2>3, StoreIs
  <2> QED BY <2>2, <2>3, <2>4
<1>16. CASE StoreLevel(t)
  <2>1. /\ pc[t] = "store" /\ pc'[t] = "peek again" /\ UNCHANGED todo /\ c.fn = "write"
        /\ level' = StoreAll(level, Changed(t, c.gpio, Level(c.val)), c.gpio)
    BY <1>1, <1>2, <1>16 DEF StoreLevel, At, Go, Calls
  <2>2. c.gpio \in Wired /\ word[t] = Fields(level, DataWord(BankOf(t)))
    BY <1>1, <1>2, <2>1 DEF StepOf, Gated, DoneOf
  <2>3. level'[c.gpio] = Level(c.val)
    BY <1>4, <1>15, <2>1, <2>2
  <2> QED BY <1>6, <2>1, <2>3
<1>17. CASE StoreOut(t)
  <2>1. PICK v : v = IF c.val = "OUT" THEN 1 ELSE 0
    OBVIOUS
  <2>2. /\ pc[t] = "store" /\ pc'[t] = "peek again" /\ UNCHANGED <<todo, mux>> /\ c.fn = "mode"
        /\ out' = StoreAll(out, Changed(t, c.gpio, v), c.gpio)
    BY <1>1, <1>2, <1>17, <2>1 DEF StoreOut, At, Go, Calls
  <2>3. c.gpio \in Wired /\ word[t] = Fields(out, DataWord(BankOf(t))) /\ c.val # "PWM"
        /\ mux[c.gpio] = "gpio"
    BY <1>1, <1>2, <2>2 DEF StepOf, Gated, DoneOf
  <2>4. out'[c.gpio] = v
    BY <1>4, <1>15, <2>2, <2>3
  <2>5. Conforms(c.gpio, c.val)'
    BY <2>1, <2>2, <2>3, <2>4 DEF Conforms
  <2> QED BY <1>6, <2>2, <2>5
<1> QED BY <1>8, <1>9, <1>10, <1>11, <1>12, <1>13, <1>14, <1>16, <1>17 DEF RegisterStep

\* What the steps that are not of a call leave alone.
OtherStep ==
  /\ UNCHANGED <<gate, pinVars, pc, word, saved>>
  /\ \A t \in Thread : pc[t] # "start" => todo'[t] = todo[t]

LEMMA StepOrOther ==
  ASSUME TypeInv, [Next]_vars
  PROVE  OtherStep \/ \E t \in Thread : RegisterStep(t)
<1>1. \A t \in Thread : todo[t] = <<>> => pc[t] = "start"
  BY DEF TypeInv, ThreadTypes, StepOf
<1>2. todo \in [Thread -> Seq(CallSet)] /\ Main \in Thread
  BY PyParameters DEF TypeInv, ThreadTypes
<1>3. CASE ListStep
  BY <1>3 DEF OtherStep, ListStep, registerVars, localVars
<1>4. CASE TakeStep
  <2>1. PICK g, s : /\ Idle(Main) /\ todo' = [todo EXCEPT ![Main] = s]
                    /\ UNCHANGED <<gate, pinVars, pc, word, saved>>
    BY <1>4 DEF TakeStep, Takes
  <2>2. \A t \in Thread : pc[t] # "start" => todo'[t] = todo[t]
    BY <1>1, <1>2, <2>1 DEF Idle
  <2> QED BY <2>1, <2>2 DEF OtherStep
<1>5. CASE Remember
  <2>1. /\ pc[Main] = "start" /\ todo' = [todo EXCEPT ![Main] = Tail(@)]
        /\ UNCHANGED <<gate, pinVars, pc, word, saved>>
    BY <1>5, RememberIs
  <2>2. \A t \in Thread : pc[t] # "start" => todo'[t] = todo[t]
    BY <1>2, <2>1
  <2> QED BY <2>1, <2>2 DEF OtherStep
<1>6. ASSUME NEW t \in PwmThread, StartPwm(t) \/ StopPwm(t) PROVE OtherStep
  BY <1>6 DEF OtherStep, StartPwm, StopPwm, registerVars, localVars
<1>7. ASSUME NEW t \in PwmThread, PwmWrite(t) PROVE OtherStep
  <2>1. /\ t \in Thread /\ Idle(t) /\ UNCHANGED <<gate, pinVars, pc, word, saved>>
        /\ \E s : todo' = [todo EXCEPT ![t] = s]
    BY <1>7, PwmWriteIs
  <2>2. \A u \in Thread : pc[u] # "start" => todo'[u] = todo[u]
    BY <1>1, <1>2, <2>1 DEF Idle
  <2> QED BY <2>1, <2>2 DEF OtherStep
<1>8. ASSUME NEW t \in Thread, Step(t) PROVE RegisterStep(t)
  BY <1>8 DEF Step
<1>9. CASE UNCHANGED vars
  BY <1>9 DEF OtherStep, vars, registerVars, localVars
<1> QED BY <1>3, <1>4, <1>5, <1>6, <1>7, <1>8, <1>9, StepKinds

LEMMA CallsKept ==
  ASSUME TypeInv, AloneInv, CallsInv, [Next]_vars
  PROVE  CallsInv'
<1>1. CASE OtherStep
  BY <1>1, CallsSame DEF OtherStep
<1>2. ASSUME NEW t \in Thread, RegisterStep(t) PROVE CallsInv'
  <2>1. ClockOf(t)' /\ DoneOf(t)' /\ ClocksRestored'
    BY <1>2, ClockOfCall, DoneOfCall
  <2>2. \A u \in Thread \ {t} : ClockOf(u)' /\ DoneOf(u)'
    BY <1>2, CallsOfOthers
  <2> QED BY <2>1, <2>2 DEF CallsInv
<1> QED BY <1>1, <1>2, StepOrOther

-----------------------------------------------------------------------------
(* The pins are as they were asked to be, but for the calls still to make.  *)

Kept(g) == PullKept(g) /\ LevelKept(g) /\ ModeKept(g)

\* Steps that leave the calls of the functions alone.
LEMMA KeptSame ==
  ASSUME NEW g \in Gpio, Kept(g), todo'[Main] = todo[Main],
         asked'[g].pull = asked[g].pull, pull'[g] = pull[g], direction'[g] = direction[g],
         asked'[g].level = asked[g].level \/ asked'[g].level = Unasked,
         asked'[g].level # Unasked => level'[g] = level[g] \/ Ahead("write", g),
         (mux'[g] = mux[g] /\ out'[g] = out[g]) \/ Ahead("mode", g)
  PROVE  Kept(g)'
<1>1. PullKept(g)'
  <2>1. Ahead("pull", g)' <=> Ahead("pull", g)
    BY DEF Ahead
  <2> QED BY <2>1 DEF Kept, PullKept
<1>2. LevelKept(g)'
  <2>1. Ahead("write", g)' <=> Ahead("write", g)
    BY DEF Ahead
  <2> QED BY <2>1 DEF Kept, LevelKept
<1>3. ModeKept(g)'
  <2>1. (Ahead("mode", g)' <=> Ahead("mode", g)) /\ (Ahead("remember", g)' <=> Ahead("remember", g))
    BY DEF Ahead
  <2>2. CASE Ahead("mode", g)
    BY <2>1, <2>2 DEF ModeKept
  <2>3. CASE mux'[g] = mux[g] /\ out'[g] = out[g]
    <3>1. \A d : Conforms(g, d)' <=> Conforms(g, d)
      BY <2>3 DEF Conforms
    <3> QED BY <2>1, <3>1 DEF Kept, ModeKept
  <2> QED BY <2>2, <2>3
<1> QED BY <1>1, <1>2, <1>3 DEF Kept

\* Nothing is ahead of an idle thread.
LEMMA IdleKept ==
  ASSUME NEW g, Kept(g), Idle(Main)
  PROVE  /\ pull[g] = asked[g].pull
         /\ asked[g].level # Unasked => level[g] = asked[g].level
         /\ Conforms(g, direction[g])
<1>1. \A fn : ~Ahead(fn, g)
  BY DEF Idle, Ahead
<1> QED BY <1>1 DEF Kept, PullKept, LevelKept, ModeKept

LEMMA AskedTakeStep ==
  ASSUME TypeInv, AskedInv, TakeStep
  PROVE  AskedInv'
<1>1. PICK g, s : Takes(g, s) /\ Agrees(g, s)
  BY DEF TakeStep
<1>2. /\ Idle(Main) /\ g \in Gpio /\ s \in Seq(CallSet) /\ Shape(s)
      /\ \A i \in 1..Len(s) : s[i].gpio = g
      /\ todo' = [todo EXCEPT ![Main] = s]
      /\ UNCHANGED <<level, out, mux, pull, direction>>
      /\ \A h \in Gpio \ {g} : asked'[h] = asked[h]
  BY <1>1 DEF Takes, pinVars
<1>3. todo'[Main] = s
  BY <1>2, PyParameters DEF TypeInv, ThreadTypes
<1>4. ASSUME NEW h \in Wired PROVE Kept(h)'
  <2>1. h \in Gpio /\ Kept(h)
    BY <1>4, RegisterParameters DEF AskedInv, Kept
  <2>2. /\ pull[h] = asked[h].pull /\ (asked[h].level # Unasked => level[h] = asked[h].level)
        /\ Conforms(h, direction[h])
    BY <1>2, <2>1, IdleKept
  <2>3. Conforms(h, direction[h])'
    BY <1>2, <2>2 DEF Conforms
  <2>4. CASE h # g
    <3>1. \A fn : ~Ahead(fn, h)'
      BY <1>2, <1>3, <2>4 DEF Ahead
    <3>2. asked'[h] = asked[h]
      BY <1>2, <2>1, <2>4
    <3> QED BY <1>2, <2>2, <2>3, <3>1, <3>2 DEF Kept, PullKept, LevelKept, ModeKept
  <2>5. CASE h = g
    <3>1. PullKept(h)'
      <4>1. (\E i \in 1..Len(s) : s[i].fn = "pull") => Ahead("pull", h)'
        BY <1>2, <1>3, <2>5 DEF Ahead
      <4> QED BY <1>1, <1>2, <1>3, <2>2, <2>5, <4>1 DEF PullKept, Agrees
    <3>2. LevelKept(h)'
      <4>1. (\E i \in 1..Len(s) : s[i].fn = "write") => Ahead("write", h)'
        BY <1>2, <1>3, <2>5 DEF Ahead
      <4> QED BY <1>1, <1>2, <1>3, <2>2, <2>5, <4>1 DEF LevelKept, Agrees
    <3>3. ModeKept(h)'
      <4>1. (\E i \in 1..Len(s) : s[i].fn = "mode") => Ahead("mode", h)'
        BY <1>2, <1>3, <2>5 DEF Ahead
      <4>2. (\A i \in 1..Len(s) : s[i].fn # "remember") => ~Ahead("remember", h)'
        BY <1>3 DEF Ahead
      <4> QED BY <1>1, <2>3, <4>1, <4>2 DEF ModeKept, Agrees
    <3> QED BY <3>1, <3>2, <3>3 DEF Kept
  <2> QED BY <2>4, <2>5
<1>5. Shape(todo[Main])'
  BY <1>2, <1>3 DEF Shape
<1> QED BY <1>4, <1>5 DEF AskedInv, Kept

\* Steps of the PWM threads, and those of a call that do not end it.
LEMMA AskedStays ==
  ASSUME AskedInv, todo'[Main] = todo[Main],
         \A g \in Wired :
           /\ asked'[g].pull = asked[g].pull /\ pull'[g] = pull[g] /\ direction'[g] = direction[g]
           /\ asked'[g].level = asked[g].level \/ asked'[g].level = Unasked
           /\ asked'[g].level # Unasked => level'[g] = level[g] \/ Ahead("write", g)
           /\ (mux'[g] = mux[g] /\ out'[g] = out[g]) \/ Ahead("mode", g)
  PROVE  AskedInv'
<1>1. ASSUME NEW g \in Wired PROVE Kept(g)'
  <2>1. Kept(g) /\ g \in Gpio
    BY RegisterParameters DEF AskedInv, Kept
  <2> QED BY <2>1, KeptSame
<1>2. Shape(todo[Main])'
  BY DEF AskedInv, Shape
<1> QED BY <1>1, <1>2 DEF AskedInv, Kept

LEMMA AskedSame ==
  ASSUME AskedInv, todo'[Main] = todo[Main], UNCHANGED <<level, out, mux, pull, direction, asked>>
  PROVE  AskedInv'
BY AskedStays

LEMMA AskedPwm ==
  ASSUME TypeInv, AskedInv, NEW t \in PwmThread, StartPwm(t) \/ StopPwm(t) \/ PwmWrite(t)
  PROVE  AskedInv'
<1>1. CASE StartPwm(t)
  <2>1. asked' = [asked EXCEPT ![SoftPin[t]].level = Unasked]
        /\ UNCHANGED <<todo, level, out, mux, pull, direction>>
    BY <1>1 DEF StartPwm, registerVars, pinVars, tableVars
  <2>2. ASSUME NEW g \in Wired
        PROVE  /\ asked'[g].pull = asked[g].pull
               /\ asked'[g].level = asked[g].level \/ asked'[g].level = Unasked
    <3>1. g \in Gpio /\ asked \in AskedTypes
      BY RegisterParameters DEF TypeInv, TableTypes, AskedTypes
    <3> QED BY <2>1, <3>1 DEF AskedTypes
  <2> QED BY <2>1, <2>2, AskedStays
<1>2. CASE StopPwm(t)
  BY <1>2, AskedSame DEF StopPwm, registerVars, pinVars, tableVars
<1>3. CASE PwmWrite(t)
  <2>1. /\ t \in Thread /\ t # Main /\ \E s : todo' = [todo EXCEPT ![t] = s]
        /\ UNCHANGED <<level, out, mux, pull, direction, asked>>
    BY <1>3, PwmWriteIs DEF pinVars, tableVars
  <2>2. todo'[Main] = todo[Main]
    BY <2>1, PyParameters DEF TypeInv, ThreadTypes
  <2> QED BY <2>1, <2>2, AskedSame
<1> QED BY <1>1, <1>2, <1>3

\* The end of a call: what is left to make of the calls for the channel.
LEMMA LeftAfter ==
  ASSUME TypeInv, AskedInv, todo[Main] # <<>>, todo'[Main] = Tail(todo[Main]), NEW c, c = Current(Main)
  PROVE  /\ c \in CallSet /\ c = todo[Main][1] /\ 1 \in 1..Len(todo[Main])
         /\ Shape(todo[Main])'
         /\ \A i \in 1..Len(todo'[Main]) :
              i + 1 \in 1..Len(todo[Main]) /\ todo'[Main][i] = todo[Main][i + 1]
         /\ \A j \in 1..Len(todo[Main]) : todo[Main][j].gpio = c.gpio
         /\ \A fn, h : Ahead(fn, h)' => Ahead(fn, h) /\ h = c.gpio
         /\ \A fn, h : Ahead(fn, h) => h = c.gpio /\ (Ahead(fn, h)' \/ fn = c.fn)
<1>1. PICK s, r : s = todo[Main] /\ r = todo'[Main]
  OBVIOUS
<1>2. s \in Seq(CallSet) /\ s # <<>> /\ r = Tail(s) /\ c = Head(s) /\ Shape(s)
  BY <1>1, PyParameters DEF TypeInv, ThreadTypes, AskedInv, Current
<1>3. /\ Len(s) \in Nat \ {0} /\ c = s[1] /\ s[1] \in CallSet /\ Len(r) = Len(s) - 1
      /\ \A i \in 1..Len(r) : i + 1 \in 1..Len(s) /\ r[i] = s[i + 1]
  BY <1>2, TailKnows
<1>4. 1 \in 1..Len(s)
  BY <1>3
<1>5. \A j \in 1..Len(s) : s[j].gpio = c.gpio
  BY <1>2, <1>3, <1>4 DEF Shape
<1>6. Shape(r)
  <2>1. ASSUME NEW i \in 1..Len(r), NEW j \in 1..Len(r)
        PROVE  /\ r[i].gpio = r[j].gpio
               /\ i < j => /\ r[i].fn = "write" => r[j].fn # "write"
                           /\ r[i].fn = "mode" => r[j].fn \in {"read", "remember"}
                           /\ r[i].fn # "remember"
    <3>1. /\ i + 1 \in 1..Len(s) /\ r[i] = s[i + 1] /\ j + 1 \in 1..Len(s) /\ r[j] = s[j + 1]
          /\ i < j => i + 1 < j + 1
      BY <1>3
    <3> QED BY <1>2, <3>1 DEF Shape
  <2>2. ASSUME NEW i \in 1..Len(r), r[i].fn = "mode"
        PROVE  \E j \in 1..Len(r) : i < j /\ r[j].fn = "remember" /\ r[j].val \in {r[i].val, "none"}
    <3>1. i + 1 \in 1..Len(s) /\ r[i] = s[i + 1]
      BY <1>3
    <3>2. PICK j \in 1..Len(s) : i + 1 < j /\ s[j].fn = "remember" /\ s[j].val \in {s[i + 1].val, "none"}
      BY <1>2, <2>2, <3>1 DEF Shape
    <3>3. PICK k : k = j - 1
      OBVIOUS
    <3>4. k \in 1..Len(r) /\ i < k /\ k + 1 = j
      BY <1>3, <3>2, <3>3
    <3>5. r[k] = s[j]
      BY <1>3, <3>4
    <3> QED BY <3>1, <3>2, <3>4, <3>5
  <2> QED BY <2>1, <2>2 DEF Shape
<1>7. ASSUME NEW fn, NEW h, Ahead(fn, h)' PROVE Ahead(fn, h) /\ h = c.gpio
  <2>1. PICK i \in 1..Len(r) : r[i].fn = fn /\ r[i].gpio = h
    BY <1>1, <1>7 DEF Ahead
  <2>2. i + 1 \in 1..Len(s) /\ r[i] = s[i + 1]
    BY <1>3
  <2> QED BY <1>1, <1>5, <2>1, <2>2 DEF Ahead
<1>8. ASSUME NEW fn, NEW h, Ahead(fn, h) PROVE h = c.gpio /\ (Ahead(fn, h)' \/ fn = c.fn)
  <2>1. PICK j \in 1..Len(s) : s[j].fn = fn /\ s[j].gpio = h
    BY <1>1, <1>8 DEF Ahead
  <2>2. CASE j = 1
    BY <1>3, <2>1, <2>2
  <2>3. CASE j # 1
    <3>1. PICK i : i = j - 1
      OBVIOUS
    <3>2. i \in 1..Len(r) /\ i + 1 = j
      BY <1>3, <2>3, <3>1
    <3>3. r[i] = s[j]
      BY <1>3, <3>2
    <3>4. Ahead(fn, h)'
      BY <1>1, <2>1, <3>2, <3>3 DEF Ahead
    <3> QED BY <1>5, <2>1, <3>4
  <2> QED BY <2>2, <2>3
<1>9. Shape(todo[Main])'
  BY <1>1, <1>6 DEF Shape
<1> QED BY <1>1, <1>3, <1>4, <1>5, <1>7, <1>8, <1>9

LEMMA AskedRemember ==
  ASSUME TypeInv, AskedInv, Remember
  PROVE  AskedInv'
<1>1. PICK c : c = Current(Main)
  OBVIOUS
<1>2. /\ todo[Main] # <<>> /\ c.fn = "remember" /\ c.gpio \in Gpio
      /\ direction' = [direction EXCEPT ![c.gpio] = c.val]
      /\ todo' = [todo EXCEPT ![Main] = Tail(@)]
      /\ UNCHANGED <<level, out, mux, pull, asked>>
  BY <1>1, RememberIs DEF pinVars
<1>3. todo'[Main] = Tail(todo[Main]) /\ direction \in [Gpio -> Directions]
  BY <1>2, PyParameters DEF TypeInv, ThreadTypes, TableTypes
<1>4. /\ c = todo[Main][1] /\ 1 \in 1..Len(todo[Main])
      /\ \A i \in 1..Len(todo'[Main]) :
           i + 1 \in 1..Len(todo[Main]) /\ todo'[Main][i] = todo[Main][i + 1]
      /\ \A fn, h : Ahead(fn, h) => h = c.gpio /\ (Ahead(fn, h)' \/ fn = c.fn)
      /\ Shape(todo[Main])'
  BY <1>1, <1>2, <1>3, LeftAfter
<1>5. ASSUME NEW i \in 1..Len(todo'[Main]) PROVE FALSE
  <2>1. i + 1 \in 1..Len(todo[Main]) /\ 1 < i + 1
    BY <1>4
  <2>2. todo[Main][1].fn # "remember"
    BY <1>4, <2>1 DEF AskedInv, Shape
  <2> QED BY <1>2, <1>4, <2>2
<1>6. \A fn, h : ~Ahead(fn, h)'
  BY <1>5 DEF Ahead
<1>7. ASSUME NEW h \in Wired PROVE Kept(h)'
  <2>1. h \in Gpio /\ Kept(h)
    BY RegisterParameters DEF AskedInv, Kept
  <2>2. ~Ahead("pull", h) /\ ~Ahead("write", h) /\ ~Ahead("mode", h)
    BY <1>2, <1>4, <1>6
  <2>3. Ahead("remember", h) <=> h = c.gpio
    BY <1>2, <1>4 DEF Ahead
  <2>4. PullKept(h)' /\ LevelKept(h)'
    BY <1>2, <1>6, <2>1, <2>2 DEF Kept, PullKept, LevelKept
  <2>5. Conforms(h, direction'[h])
    <3>1. CASE h = c.gpio
      <4>1. direction'[h] = c.val
        BY <1>2, <1>3, <3>1
      <4>2. Conforms(h, c.val)
        BY <1>2, <1>4, <2>1, <2>2, <2>3, <3>1 DEF Kept, ModeKept
      <4> QED BY <4>1, <4>2
    <3>2. CASE h # c.gpio
      <4>1. direction'[h] = direction[h]
        BY <1>2, <1>3, <2>1, <3>2
      <4>2. Conforms(h, direction[h])
        BY <2>1, <2>2, <2>3, <3>2 DEF Kept, ModeKept
      <4> QED BY <4>1, <4>2
    <3> QED BY <3>1, <3>2
  <2>6. ModeKept(h)'
    BY <1>2, <1>6, <2>5 DEF ModeKept, Conforms
  <2> QED BY <2>4, <2>6 DEF Kept
<1> QED BY <1>4, <1>7 DEF AskedInv, Kept

\* A PWM thread writes the level of its own pin, of which no level is asked.
LEMMA AskedPwmStep ==
  ASSUME TypeInv, AloneInv, CallsInv, AskedInv, NEW t \in PwmThread, Step(t)
  PROVE  AskedInv'
<1>1. /\ RegisterStep(t) /\ t \in Thread /\ t # Main /\ Main \in Thread
      /\ SoftPin[t] \in Gpio /\ UNCHANGED <<direction, asked>>
  BY SoftPinIs DEF Step, tableVars
<1>2. Frame(t) /\ Effect(t) /\ todo[t] # <<>>
  BY <1>1, RegisterTypes, StepEffect
<1>3. todo'[Main] = todo[Main]
  BY <1>1, <1>2 DEF Frame
<1>4. Current(t).fn = "write" /\ Current(t).gpio = SoftPin[t] /\ asked[SoftPin[t]].level = Unasked
  <2>1. Busy(t)
    BY <1>2 DEF Busy, Idle
  <2> QED BY <1>2, <2>1, AloneKnows DEF AloneInv, PwmCall
<1>5. UNCHANGED <<out, mux, pull>>
  <2>1. ~StoreMux(t) /\ ~StoreOut(t) /\ ~SetPull(t)
    <3>1. pc[t] # "store mux"
      BY <1>1, <1>4 DEF TypeInv, ThreadTypes, StepOf
    <3> QED BY <1>4, <3>1 DEF StoreMux, StoreOut, SetPull, At, Calls
  <2>2. CASE SaveGate(t) \/ PeekGate(t) \/ OpenGate(t) \/ PeekAgain(t) \/ CloseGate(t)
             \/ Look(t) \/ LoadMux(t) \/ Load(t) \/ Ignore(t)
    BY <2>2 DEF SaveGate, PeekGate, OpenGate, PeekAgain, CloseGate, Look, LoadMux, Load, Ignore, pinVars
  <2>3. CASE StoreLevel(t)
    BY <2>3 DEF StoreLevel
  <2> QED BY <1>1, <2>1, <2>2, <2>3 DEF RegisterStep
<1>6. ASSUME NEW g \in Wired, asked'[g].level # Unasked PROVE level'[g] = level[g]
  BY <1>1, <1>2, <1>4, <1>6, RegisterParameters DEF Effect
<1> QED BY <1>1, <1>3, <1>5, <1>6, AskedStays

\* A step that does not end a call of the functions is a write of the pin it is
\* for, or of nothing.
LEMMA AskedWrite ==
  ASSUME TypeInv, CallsInv, AskedInv, RegisterStep(Main), UNCHANGED <<direction, asked>>,
         todo'[Main] = todo[Main], ~SetPull(Main)
  PROVE  AskedInv'
<1>1. PICK c : c = Current(Main)
  OBVIOUS
<1>2. todo[Main] # <<>> /\ Effect(Main) /\ Main \in Thread
  BY StepEffect, PyParameters
<1>3. Ahead(c.fn, c.gpio)
  BY <1>1, <1>2, CurrentIs DEF TypeInv, Ahead
<1>4. CASE StoreMux(Main)
  <2>1. c.fn = "mode" /\ UNCHANGED <<level, out, pull>>
    <3>1. pc[Main] = "store mux" /\ UNCHANGED <<level, out, pull>>
      BY <1>4 DEF StoreMux, At
    <3> QED BY <1>1, <1>2, <3>1 DEF TypeInv, ThreadTypes, StepOf
  <2>2. ASSUME NEW g \in Wired PROVE mux'[g] = mux[g] \/ Ahead("mode", g)
    BY <1>1, <1>2, <1>3, <2>1, RegisterParameters DEF Effect
  <2> QED BY <2>1, <2>2, AskedStays
<1>5. CASE StoreOut(Main)
  <2>1. c.fn = "mode" /\ UNCHANGED <<level, mux, pull>>
    BY <1>1, <1>5 DEF StoreOut, Calls
  <2>2. ASSUME NEW g \in Wired PROVE out'[g] = out[g] \/ Ahead("mode", g)
    BY <1>1, <1>2, <1>3, <2>1, RegisterParameters DEF Effect
  <2> QED BY <2>1, <2>2, AskedStays
<1>6. CASE StoreLevel(Main)
  <2>1. c.fn = "write" /\ UNCHANGED <<mux, out, pull>>
    BY <1>1, <1>6 DEF StoreLevel, Calls
  <2>2. ASSUME NEW g \in Wired PROVE level'[g] = level[g] \/ Ahead("write", g)
    BY <1>1, <1>2, <1>3, <2>1, RegisterParameters DEF Effect
  <2> QED BY <2>1, <2>2, AskedStays
<1>7. CASE SaveGate(Main) \/ PeekGate(Main) \/ OpenGate(Main) \/ PeekAgain(Main) \/ CloseGate(Main)
           \/ Look(Main) \/ LoadMux(Main) \/ Load(Main) \/ Ignore(Main)
  <2>1. UNCHANGED <<level, out, mux, pull>>
    BY <1>7 DEF SaveGate, PeekGate, OpenGate, PeekAgain, CloseGate, Look, LoadMux, Load, Ignore, pinVars
  <2> QED BY <2>1, AskedSame
<1> QED BY <1>4, <1>5, <1>6, <1>7 DEF RegisterStep

\* The end of a call, which has done to the pin what was asked.
LEMMA AskedReturn ==
  ASSUME TypeInv, CallsInv, AskedInv, UNCHANGED <<direction, asked, level, out, mux>>,
         todo[Main] # <<>>, todo'[Main] = Tail(todo[Main]), NEW c, c = Current(Main),
         c.fn # "remember",
         \A g \in Wired : pull'[g] = pull[g] \/ (g = c.gpio /\ c.fn = "pull"),
         c.fn = "pull" /\ c.gpio \in Wired => pull'[c.gpio] = c.val,
         c.fn = "write" /\ c.gpio \in Wired => level[c.gpio] = Level(c.val),
         c.fn = "mode" /\ c.gpio \in Wired => Conforms(c.gpio, c.val)
  PROVE  AskedInv'
<1>1. /\ c = todo[Main][1] /\ 1 \in 1..Len(todo[Main])
      /\ \A i \in 1..Len(todo'[Main]) :
           i + 1 \in 1..Len(todo[Main]) /\ todo'[Main][i] = todo[Main][i + 1]
      /\ \A j \in 1..Len(todo[Main]) : todo[Main][j].gpio = c.gpio
      /\ \A fn, h : Ahead(fn, h)' => Ahead(fn, h) /\ h = c.gpio
      /\ \A fn, h : Ahead(fn, h) => h = c.gpio /\ (Ahead(fn, h)' \/ fn = c.fn)
      /\ Shape(todo[Main])'
  BY LeftAfter
<1>2. Ahead(c.fn, c.gpio)
  BY <1>1 DEF Ahead
<1>3. ASSUME NEW h \in Wired PROVE Kept(h)'
  <2>1. Kept(h)
    BY DEF AskedInv, Kept
  <2>2. PullKept(h)'
    <3>1. CASE Ahead("pull", h)'
      <4>1. Ahead("pull", h)
        BY <1>1, <3>1
      <4>2. \A i \in 1..Len(todo[Main]) : todo[Main][i].fn = "pull" => todo[Main][i].val = asked[h].pull
        BY <2>1, <4>1 DEF Kept, PullKept
      <4>3. \A i \in 1..Len(todo'[Main]) : todo'[Main][i].fn = "pull" => todo'[Main][i].val = asked[h].pull
        BY <1>1, <4>2
      <4> QED BY <3>1, <4>3 DEF PullKept
    <3>2. CASE ~Ahead("pull", h)'
      <4>1. CASE Ahead("pull", h)
        <5>1. h = c.gpio /\ c.fn = "pull"
          BY <1>1, <3>2, <4>1
        <5>2. c.val = asked[h].pull
          BY <1>1, <2>1, <4>1, <5>1 DEF Kept, PullKept
        <5> QED BY <3>2, <5>1, <5>2 DEF PullKept
      <4>2. CASE ~Ahead("pull", h)
        <5>1. ~(h = c.gpio /\ c.fn = "pull")
          BY <1>2, <4>2
        <5>2. pull[h] = asked[h].pull
          BY <2>1, <4>2 DEF Kept, PullKept
        <5> QED BY <3>2, <5>1, <5>2 DEF PullKept
      <4> QED BY <4>1, <4>2
    <3> QED BY <3>1, <3>2
  <2>3. LevelKept(h)'
    <3> SUFFICES ASSUME asked[h].level # Unasked
                 PROVE  LevelKept(h)'
      BY DEF LevelKept
    <3>1. CASE Ahead("write", h)'
      <4>1. Ahead("write", h)
        BY <1>1, <3>1
      <4>2. \A i \in 1..Len(todo[Main]) :
              todo[Main][i].fn = "write" => Level(todo[Main][i].val) = asked[h].level
        BY <2>1, <4>1 DEF Kept, LevelKept
      <4>3. \A i \in 1..Len(todo'[Main]) :
              todo'[Main][i].fn = "write" => Level(todo'[Main][i].val) = asked[h].level
        BY <1>1, <4>2
      <4> QED BY <3>1, <4>3 DEF LevelKept
    <3>2. CASE ~Ahead("write", h)'
      <4>1. CASE Ahead("write", h)
        <5>1. h = c.gpio /\ c.fn = "write"
          BY <1>1, <3>2, <4>1
        <5>2. Level(c.val) = asked[h].level
          BY <1>1, <2>1, <4>1, <5>1 DEF Kept, LevelKept
        <5> QED BY <3>2, <5>1, <5>2 DEF LevelKept
      <4>2. CASE ~Ahead("write", h)
        <5>1. level[h] = asked[h].level
          BY <2>1, <4>2 DEF Kept, LevelKept
        <5> QED BY <3>2, <5>1 DEF LevelKept
      <4> QED BY <4>1, <4>2
    <3> QED BY <3>1, <3>2
  <2>4. ModeKept(h)'
    <3> SUFFICES ASSUME ~Ahead("mode", h)'
                 PROVE  ModeKept(h)'
      BY DEF ModeKept
    <3>1. \A d : Conforms(h, d)' <=> Conforms(h, d)
      BY DEF Conforms
    <3>2. CASE ~Ahead("mode", h)
      <4>1. Ahead("remember", h)' <=> Ahead("remember", h)
        BY <1>1
      <4>2. CASE Ahead("remember", h)
        <5>1. \A i \in 1..Len(todo[Main]) :
                todo[Main][i].fn = "remember" => Conforms(h, todo[Main][i].val)
          BY <2>1, <3>2, <4>2 DEF Kept, ModeKept
        <5>2. \A i \in 1..Len(todo'[Main]) :
                todo'[Main][i].fn = "remember" => Conforms(h, todo'[Main][i].val)
          BY <1>1, <5>1
        <5> QED BY <3>1, <4>1, <4>2, <5>2 DEF ModeKept
      <4>3. CASE ~Ahead("remember", h)
        BY <2>1, <3>1, <3>2, <4>1, <4>3 DEF Kept, ModeKept
      <4> QED BY <4>2, <4>3
    <3>3. CASE Ahead("mode", h)
      <4>1. h = c.gpio /\ c.fn = "mode"
        BY <1>1, <3>3
      <4>2. Conforms(h, c.val) /\ Conforms(h, "none")
        BY <4>1 DEF Conforms
      <4>3. PICK j \in 1..Len(todo[Main]) : todo[Main][j].fn = "remember" /\ todo[Main][j].val \in {c.val, "none"}
        BY <1>1, <4>1 DEF AskedInv, Shape
      <4>4. ASSUME NEW i \in 1..Len(todo[Main]), todo[Main][i].fn = "remember" PROVE i = j
        BY <4>3, <4>4 DEF AskedInv, Shape
      <4>5. \A i \in 1..Len(todo[Main]) :
              todo[Main][i].fn = "remember" => Conforms(h, todo[Main][i].val)
        BY <4>2, <4>3, <4>4
      <4>6. \A i \in 1..Len(todo'[Main]) :
              todo'[Main][i].fn = "remember" => Conforms(h, todo'[Main][i].val)
        BY <1>1, <4>5
      <4>7. Ahead("remember", h)
        BY <1>1, <4>1, <4>3 DEF Ahead
      <4>8. Ahead("remember", h)'
        BY <1>1, <4>1, <4>7
      <4> QED BY <3>1, <4>6, <4>8 DEF ModeKept
    <3> QED BY <3>2, <3>3
  <2> QED BY <2>2, <2>3, <2>4 DEF Kept
<1> QED BY <1>1, <1>3 DEF AskedInv, Kept

LEMMA AskedMainStep ==
  ASSUME TypeInv, CallsInv, AskedInv, Step(Main)
  PROVE  AskedInv'
<1>1. PICK c : c = Current(Main)
  OBVIOUS
<1>2. RegisterStep(Main) /\ Main \in Thread /\ UNCHANGED <<direction, asked>>
  BY PyParameters DEF Step, tableVars
<1>3. todo[Main] # <<>> /\ todo \in [Thread -> Seq(CallSet)] /\ StepOf(Main) /\ DoneOf(Main)
  BY <1>2, StepEffect DEF TypeInv, ThreadTypes, CallsInv
<1>4. c.gpio \in Gpio /\ pull \in [Gpio -> {"off", "down", "up"}]
  <2>1. c \in CallSet
    BY <1>1, <1>2, <1>3, CurrentIs DEF TypeInv
  <2> QED BY <2>1, CallIs DEF TypeInv, PinTypes
<1>5. CASE CloseGate(Main)
  <2>1. pc[Main] = "close" /\ todo' = [todo EXCEPT ![Main] = Tail(@)] /\ UNCHANGED <<level, out, mux, pull>>
    BY <1>5 DEF CloseGate, At, Return, pinVars
  <2>2. /\ c.fn \in {"read", "write", "mode"}
        /\ c.fn = "write" => level[c.gpio] = Level(c.val)
        /\ c.fn = "mode" => Conforms(c.gpio, c.val)
    BY <1>1, <1>3, <2>1 DEF StepOf, DoneOf, LastSteps
  <2>3. todo'[Main] = Tail(todo[Main])
    BY <1>2, <1>3, <2>1
  <2>4. c.fn # "remember" /\ c.fn # "pull"
    BY <2>2
  <2> QED BY <1>1, <1>2, <1>3, <2>1, <2>2, <2>3, <2>4, AskedReturn
<1>6. CASE SetPull(Main)
  <2>1. /\ c.fn = "pull" /\ c.gpio \in Wired /\ todo' = [todo EXCEPT ![Main] = Tail(@)]
        /\ UNCHANGED <<level, out, mux>>
        /\ pull' = [pull EXCEPT ![c.gpio] =
                      [[h \in Group(c.gpio) |-> "off"] EXCEPT ![c.gpio] = c.val][c.gpio]]
    BY <1>1, <1>6 DEF SetPull, Calls, Return, StoreMasked
  <2>2. c.gpio \in Group(c.gpio)
    BY <2>1 DEF Group
  <2>3. pull'[c.gpio] = c.val /\ \A g \in Gpio \ {c.gpio} : pull'[g] = pull[g]
    BY <1>4, <2>1, <2>2
  <2>4. todo'[Main] = Tail(todo[Main])
    BY <1>2, <1>3, <2>1
  <2>5. \A g \in Wired : pull'[g] = pull[g] \/ (g = c.gpio /\ c.fn = "pull")
    BY <2>1, <2>3, RegisterParameters
  <2>6. c.fn # "remember" /\ c.fn # "write" /\ c.fn # "mode"
    BY <2>1
  <2> QED BY <1>1, <1>2, <1>3, <2>1, <2>3, <2>4, <2>5, <2>6, AskedReturn
<1>7. CASE Ignore(Main)
  <2>1. /\ c.fn \in {"pull", "mode", "write"} /\ c.gpio \notin Wired
        /\ todo' = [todo EXCEPT ![Main] = Tail(@)] /\ UNCHANGED <<level, out, mux, pull>>
    BY <1>1, <1>7 DEF Ignore, Calls, Return, pinVars
  <2>2. todo'[Main] = Tail(todo[Main])
    BY <1>2, <1>3, <2>1
  <2>3. c.fn # "remember"
    BY <2>1
  <2> QED BY <1>1, <1>2, <1>3, <2>1, <2>2, <2>3, AskedReturn
<1>8. CASE ~CloseGate(Main) /\ ~SetPull(Main) /\ ~Ignore(Main)
  <2>1. UNCHANGED todo
    BY <1>2, <1>8 DEF RegisterStep, SaveGate, PeekGate, OpenGate, PeekAgain, Look, LoadMux, StoreMux,
                      Load, StoreLevel, StoreOut, Go
  <2> QED BY <1>2, <1>8, <2>1, AskedWrite
<1> QED BY <1>5, <1>6, <1>7, <1>8

LEMMA AskedKept ==
  ASSUME TypeInv, AloneInv, CallsInv, AskedInv, [Next]_vars
  PROVE  AskedInv'
<1>1. CASE ListStep
  BY <1>1, AskedSame DEF ListStep, registerVars, pinVars
<1>2. ASSUME NEW t \in PwmThread, StartPwm(t) \/ StopPwm(t) \/ PwmWrite(t) PROVE AskedInv'
  BY <1>2, AskedPwm
<1>3. ASSUME NEW t \in Thread, Step(t) PROVE AskedInv'
  <2>1. CASE t = Main
    BY <1>3, <2>1, AskedMainStep
  <2>2. CASE t # Main
    BY <1>3, <2>2, AskedPwmStep DEF PwmThread
  <2> QED BY <2>1, <2>2
<1>4. CASE UNCHANGED vars
  BY <1>4, AskedSame DEF vars, registerVars, pinVars, tableVars
<1> QED BY <1>1, <1>2, <1>3, <1>4, StepKinds, AskedTakeStep, AskedRemember

-----------------------------------------------------------------------------
(* The theorems.                                                           *)

LEMMA PinsAtStart ==
  ASSUME Init
  PROVE  PinsInv
<1>1. /\ todo = [t \in Thread |-> <<>>] /\ pc = [t \in Thread |-> "start"]
      /\ saved = [t \in Thread |-> FALSE] /\ gate = [b \in Banks |-> b \in Stopped]
      /\ playing = [t \in PwmThread |-> "off"] /\ direction = [g \in Gpio |-> "none"]
      /\ asked = [g \in Gpio |-> [level |-> Unasked, pull |-> pull[g]]]
      /\ Main \in Thread
  BY PyParameters DEF Init
<1>2. ASSUME NEW t \in PwmThread PROVE PwmCall(t) /\ Alone(t)
  <2>1. todo[t] = <<>> /\ playing[t] = "off"
    BY <1>1, SoftPinIs
  <2> QED BY <2>1 DEF PwmCall, Alone, Busy, Idle
<1>3. ASSUME NEW t \in Thread PROVE ClockOf(t) /\ DoneOf(t)
  <2>1. pc[t] = "start" /\ saved[t] = FALSE
    BY <1>1
  <2> QED BY <2>1 DEF ClockOf, DoneOf, GateSteps, PinSteps, LastSteps
<1>4. ClocksRestored
  BY <1>1 DEF ClocksRestored
<1>5. todo[Main] = <<>>
  BY <1>1
<1>6. \A fn, g : ~Ahead(fn, g)
  BY <1>5 DEF Ahead
<1>7. ASSUME NEW g \in Wired PROVE PullKept(g) /\ LevelKept(g) /\ ModeKept(g)
  <2>1. g \in Gpio
    BY RegisterParameters
  <2>2. asked[g].pull = pull[g] /\ asked[g].level = Unasked /\ direction[g] = "none"
    BY <1>1, <2>1
  <2> QED BY <1>6, <2>2 DEF PullKept, LevelKept, ModeKept, Conforms
<1>8. Shape(todo[Main])
  BY <1>5 DEF Shape
<1> QED BY <1>2, <1>3, <1>4, <1>7, <1>8 DEF PinsInv, AloneInv, CallsInv, AskedInv

LEMMA PinsAlways == ASSUME Apart PROVE Spec => [](TypeInv /\ PinsInv)
<1>1. Init => TypeInv /\ PinsInv
  BY TypesAtStart, PinsAtStart
<1>2. TypeInv /\ PinsInv /\ [Next]_vars => (TypeInv /\ PinsInv)'
  <2> SUFFICES ASSUME TypeInv, PinsInv, [Next]_vars
               PROVE  TypeInv' /\ PinsInv'
    OBVIOUS
  <2>1. TypeInv'
    BY TypesKept
  <2>2. AloneInv' /\ CallsInv' /\ AskedInv'
    BY AloneKept, CallsKept, AskedKept DEF PinsInv
  <2> QED BY <2>1, <2>2 DEF PinsInv
<1> QED BY <1>1, <1>2, PTL DEF Spec

\* The clock of a bank runs at every access to its data registers, whatever the
\* other threads do to the clocks of other banks in the same word, for programs
\* that keep functions out of the bank of a running software PWM
\* (gpio_clk_disable and gpio_clk_recovery of wiringTB.c).
THEOREM ClockRunsAtAccess == ASSUME Apart PROVE Spec => []ClockRuns
<1>1. TypeInv /\ PinsInv => ClockRuns
  BY DEF PinsInv, CallsInv, ClockOf, ClockRuns, PinSteps, LastSteps
<1> QED BY <1>1, PinsAlways, PTL

\* Between calls on a bank its clock is as it was before the program: no save or
\* restore is lost in an interleaving with those of other banks.
THEOREM ClocksAreRestored == ASSUME Apart PROVE Spec => []ClocksRestored
<1>1. TypeInv /\ PinsInv => ClocksRestored
  BY DEF PinsInv, CallsInv
<1> QED BY <1>1, PinsAlways, PTL

LEMMA AskedIsKept ==
  ASSUME PinsInv
  PROVE  PinsAsAsked
<1>1. ASSUME Idle(Main), NEW g \in Wired
      PROVE  /\ pull[g] = asked[g].pull
             /\ asked[g].level # Unasked => level[g] = asked[g].level
             /\ Conforms(g, direction[g])
  <2>1. Kept(g)
    BY DEF PinsInv, AskedInv, Kept
  <2> QED BY <1>1, <2>1, IdleKept
<1> QED BY <1>1 DEF PinsAsAsked, Conforms

\* After a function, and after each channel of a list, one that failed included,
\* the registers of a pin agree with the table and with what was asked of it last
\* (setup_one, py_output_gpio and cleanup_one of py_gpio.c).
THEOREM PinsKeepWhatWasAsked == ASSUME Apart PROVE Spec => []PinsAsAsked
<1>1. TypeInv /\ PinsInv => PinsAsAsked
  BY AskedIsKept
<1> QED BY <1>1, PinsAlways, PTL

\* Only a step of a call on a pin changes its registers.
LEMMA StepMoves ==
  ASSUME TypeInv, NEW t \in Thread, RegisterStep(t)
  PROVE  Moves(t)
<1>1. pc \in [Thread -> {"start"} \cup GateSteps \cup PinSteps \cup LastSteps]
      /\ todo \in [Thread -> Seq(CallSet)]
  BY DEF TypeInv, ThreadTypes
<1>2. CASE SetPull(t) \/ Ignore(t)
  <2>1. todo[t] # <<>> /\ todo' = [todo EXCEPT ![t] = Tail(@)]
    BY <1>2 DEF SetPull, Ignore, At, Return
  <2>2. Len(todo[t]) \in Nat \ {0} /\ Len(Tail(todo[t])) = Len(todo[t]) - 1
    BY <1>1, <2>1, TailKnows
  <2>3. todo'[t] = Tail(todo[t])
    BY <1>1, <2>1
  <2> QED BY <2>2, <2>3 DEF Moves
<1>3. ASSUME NEW p, pc' = [pc EXCEPT ![t] = p], pc[t] # p PROVE Moves(t)
  BY <1>1, <1>3 DEF Moves
<1>4. CASE OpenGate(t)
  <2>1. pc[t] = "open" /\ pc' = [pc EXCEPT ![t] = FirstAccess(Current(t))]
    BY <1>4 DEF OpenGate, At, Go
  <2>2. FirstAccess(Current(t)) # "open"
    BY DEF FirstAccess
  <2> QED BY <1>3, <2>1, <2>2
<1>5. CASE StoreMux(t)
  <2>1. PICK p : p = IF Current(t).val = "PWM" THEN "peek again" ELSE "load"
    OBVIOUS
  <2>2. pc[t] = "store mux" /\ pc' = [pc EXCEPT ![t] = p] /\ p # "store mux"
    BY <1>5, <2>1 DEF StoreMux, At, Go
  <2> QED BY <1>3, <2>2
<1>6. CASE SaveGate(t) \/ PeekGate(t) \/ PeekAgain(t) \/ CloseGate(t) \/ Look(t) \/ LoadMux(t)
           \/ Load(t) \/ StoreLevel(t) \/ StoreOut(t)
  <2>1. pc'[t] # pc[t]
    BY <1>1, <1>6 DEF SaveGate, PeekGate, PeekAgain, CloseGate, Look, LoadMux, Load, StoreLevel,
                      StoreOut, At, Go, Return
  <2> QED BY <2>1 DEF Moves
<1> QED BY <1>2, <1>4, <1>5, <1>6 DEF RegisterStep

\* Until two threads have held the same word, none holds one that another has written
\* since it was read.
FreshInv == ~raced => ~Race /\ \A t \in Thread : Fresh(t)

LEMMA FreshStep ==
  ASSUME TypeInv, ~Race, \A u \in Thread : Fresh(u), NEW t \in Thread, RegisterStep(t)
  PROVE  \A u \in Thread : Fresh(u)'
<1>1. Frame(t) /\ todo[t] # <<>> /\ Effect(t)
  BY RegisterTypes, FreshEffect
<1>2. ASSUME NEW u \in Thread \ {t}, pc[u] = "store"
      PROVE  Fresh(u)'
  <2>1. todo'[u] = todo[u] /\ pc'[u] = pc[u] /\ word'[u] = word[u]
    BY <1>1 DEF Frame
  <2>2. /\ Current(u)' = Current(u) /\ BankOf(u)' = BankOf(u) /\ Fresh(u)
        /\ todo[u] # <<>> /\ Current(u).fn \in {"write", "mode"}
    BY <1>2, <2>1 DEF Current, BankOf, TypeInv, ThreadTypes, StepOf
  <2>3. /\ BankOf(u) = Bank(Current(u).gpio) /\ DataWord(BankOf(u)) \subseteq Gpio
        /\ BankOf(t) = Bank(Current(t).gpio)
    BY <2>2, CurrentIs DEF TypeInv, BankOf
  <2> DEFINE reg == IF Current(u).fn = "write" THEN level ELSE out
  <2>4. \A g \in DataWord(BankOf(u)) : reg'[g] = reg[g]
    <3>1. CASE BankOf(u) # BankOf(t)
      <4>1. ASSUME NEW g \in DataWord(BankOf(u)) PROVE g # Current(t).gpio
        BY <2>3, <3>1 DEF DataWord
      <4> QED BY <1>1, <2>2, <2>3, <4>1 DEF Effect
    <3>2. CASE BankOf(u) = BankOf(t)
      <4>1. ~(pc[t] = "store" /\ Current(t).fn = Current(u).fn)
        BY <1>2, <3>2 DEF Race
      <4>2. Current(u).fn = "write" => level' = level
        BY <4>1 DEF RegisterStep, SaveGate, PeekGate, OpenGate, PeekAgain, CloseGate, Look, LoadMux,
                    StoreMux, Load, StoreLevel, StoreOut, SetPull, Ignore, At, Calls, pinVars
      <4>3. Current(u).fn = "mode" => out' = out
        BY <4>1 DEF RegisterStep, SaveGate, PeekGate, OpenGate, PeekAgain, CloseGate, Look, LoadMux,
                    StoreMux, Load, StoreLevel, StoreOut, SetPull, Ignore, At, Calls, pinVars
      <4> QED BY <2>2, <4>2, <4>3
    <3> QED BY <3>1, <3>2
  <2>5. Fields(reg, DataWord(BankOf(u)))' = Fields(reg, DataWord(BankOf(u)))
    BY <2>2, <2>4 DEF Fields
  <2> QED BY <1>2, <2>1, <2>2, <2>5 DEF Fresh
<1>3. ASSUME NEW u \in Thread \ {t}, pc[u] # "store"
      PROVE  Fresh(u)'
  BY <1>1, <1>3 DEF Frame, Fresh
<1>4. ASSUME pc'[t] = "store" PROVE Fresh(t)'
  <2>1. pc \in [Thread -> {"start"} \cup GateSteps \cup PinSteps \cup LastSteps]
        /\ DOMAIN word = Thread /\ word = [u \in Thread |-> word[u]]
    BY DEF TypeInv, ThreadTypes
  <2>2. Load(t)
    <3>1. FirstAccess(Current(t)) # "store"
      BY DEF FirstAccess
    <3>2. ~(\/ SaveGate(t) \/ PeekGate(t) \/ OpenGate(t) \/ PeekAgain(t) \/ CloseGate(t) \/ Look(t)
            \/ LoadMux(t) \/ StoreLevel(t) \/ StoreOut(t))
      BY <1>4, <2>1, <3>1 DEF SaveGate, PeekGate, OpenGate, PeekAgain, CloseGate, Look, LoadMux,
                              StoreLevel, StoreOut, Go, Return
    <3>3. ~(StoreMux(t) \/ SetPull(t) \/ Ignore(t))
      BY <1>4, <2>1 DEF StoreMux, SetPull, Ignore, Go, Return
    <3> QED BY <3>2, <3>3 DEF RegisterStep
  <2>3. /\ word' = [word EXCEPT ![t] = Fields(IF Calls(t, {"write"}) THEN level ELSE out,
                                              DataWord(BankOf(t)))]
        /\ UNCHANGED <<todo, level, out>>
    BY <2>2 DEF Load, Keep, Go, pinVars
  <2>4. Current(t)' = Current(t) /\ BankOf(t)' = BankOf(t)
    BY <2>3 DEF Current, BankOf
  <2>5. Calls(t, {"write"}) <=> Current(t).fn = "write"
    BY <1>1 DEF Calls
  <2>6. word'[t] = Fields(IF Current(t).fn = "write" THEN level ELSE out, DataWord(BankOf(t)))
    BY <2>1, <2>3, <2>5
  <2> QED BY <2>3, <2>4, <2>6 DEF Fresh, Fields
<1>5. ASSUME pc'[t] # "store" PROVE Fresh(t)'
  BY <1>5 DEF Fresh
<1> QED BY <1>2, <1>3, <1>4, <1>5

LEMMA FreshSame ==
  ASSUME OtherStep, \A t \in Thread : Fresh(t)
  PROVE  \A t \in Thread : Fresh(t)'
<1>1. ASSUME NEW t \in Thread, pc[t] = "store" PROVE Fresh(t)'
  <2>1. Current(t)' = Current(t) /\ BankOf(t)' = BankOf(t)
    BY <1>1 DEF OtherStep, Current, BankOf
  <2> QED BY <1>1, <2>1 DEF OtherStep, Fresh, Fields, pinVars
<1>2. ASSUME NEW t \in Thread, pc[t] # "store" PROVE Fresh(t)'
  BY <1>2 DEF OtherStep, Fresh
<1> QED BY <1>1, <1>2

LEMMA FreshKept ==
  ASSUME TypeInv, FreshInv, [RaceNext]_<<vars, raced>>
  PROVE  FreshInv'
<1>1. ASSUME ~raced' PROVE ~raced /\ ~Race' /\ [Next]_vars
  <2>1. CASE RaceNext
    BY <1>1, <2>1 DEF RaceNext
  <2>2. CASE UNCHANGED <<vars, raced>>
    <3>1. ~raced /\ UNCHANGED <<vars, todo, pc>>
      BY <1>1, <2>2 DEF vars, registerVars
    <3>2. Race' <=> Race
      BY <3>1 DEF Race, BankOf, Current
    <3> QED BY <3>1, <3>2 DEF FreshInv
  <2> QED BY <2>1, <2>2
<1>2. ASSUME ~raced' PROVE \A t \in Thread : Fresh(t)'
  <2>1. ~Race /\ \A t \in Thread : Fresh(t)
    BY <1>1, <1>2 DEF FreshInv
  <2> QED BY <1>1, <1>2, <2>1, StepOrOther, FreshSame, FreshStep
<1> QED BY <1>1, <1>2 DEF FreshInv

LEMMA FreshAlways == RaceSpec => [](TypeInv /\ FreshInv)
<1>1. RaceInit => TypeInv /\ FreshInv
  <2> SUFFICES ASSUME RaceInit PROVE TypeInv /\ FreshInv
    OBVIOUS
  <2>1. \A t \in Thread : pc[t] = "start"
    BY DEF RaceInit, Init
  <2> QED BY <2>1, TypesAtStart DEF RaceInit, FreshInv, Race, Fresh
<1>2. TypeInv /\ FreshInv /\ [RaceNext]_<<vars, raced>> => (TypeInv /\ FreshInv)'
  <2> SUFFICES ASSUME TypeInv, FreshInv, [RaceNext]_<<vars, raced>>
               PROVE  TypeInv' /\ FreshInv'
    OBVIOUS
  <2>1. [Next]_vars
    BY DEF RaceNext
  <2> QED BY <2>1, TypesKept, FreshKept
<1> QED BY <1>1, <1>2, PTL DEF RaceSpec

\* Whatever calls and PWM threads share banks and words: a step changes the clock of
\* a bank, and the function and the pull of a pin, only as part of a call on it, and
\* its level and direction too, until two threads have held the data word or the
\* direction word of a bank at once (wiringTB.c).  So the lost update that undoes
\* another pin's level comes from that one interleaving alone.
THEOREM OnlyTheirOwnPin == RaceSpec => OnlyOwnPin
<1> DEFINE OwnClocks == \A b \in Banks : gate'[b] # gate[b] =>
                          \E t \in Thread : Moves(t) /\ todo[t] # <<>> /\ BankOf(t) = b
           OwnPins == \A g \in Gpio :
                        \/ <<mux[g], pull[g]>>' # <<mux[g], pull[g]>>
                        \/ ~raced /\ <<level[g], out[g]>>' # <<level[g], out[g]>>
                        => \E t \in Thread : Moves(t) /\ Calling(t, g)
<1>1. ASSUME TypeInv, FreshInv, OtherStep PROVE OwnClocks /\ OwnPins
  BY <1>1 DEF OtherStep, pinVars
<1>2. ASSUME TypeInv, FreshInv, NEW t \in Thread, RegisterStep(t) PROVE OwnClocks /\ OwnPins
  <2>1. Moves(t) /\ todo[t] # <<>> /\ OwnFields(t)
    BY <1>2, StepMoves, FieldEffect
  <2>2. ~raced => Effect(t)
    BY <1>2, FreshEffect DEF FreshInv
  <2>3. OwnClocks
    BY <2>1 DEF OwnFields
  <2>4. ASSUME NEW g \in Gpio,
               \/ <<mux[g], pull[g]>>' # <<mux[g], pull[g]>>
               \/ ~raced /\ <<level[g], out[g]>>' # <<level[g], out[g]>>
        PROVE  Calling(t, g)
    BY <2>1, <2>2, <2>4 DEF OwnFields, Effect, Calling
  <2> QED BY <2>1, <2>3, <2>4
<1>3. TypeInv /\ FreshInv /\ [RaceNext]_<<vars, raced>> => [OwnClocks /\ OwnPins]_vars
  <2> SUFFICES ASSUME TypeInv, FreshInv, [RaceNext]_<<vars, raced>>, ~UNCHANGED vars
               PROVE  OwnClocks /\ OwnPins
    OBVIOUS
  <2>1. [Next]_vars
    BY DEF RaceNext
  <2> QED BY <1>1, <1>2, <2>1, StepOrOther
<1> QED BY <1>3, FreshAlways, PTL DEF RaceSpec, OnlyOwnPin

\* Only a step of a mode call makes a pin driven that was not.
LEMMA ModeDrives ==
  ASSUME TypeInv, NEW t \in Thread, RegisterStep(t), mux' # mux \/ out' # out
  PROVE  /\ Current(t).fn = "mode" /\ level' = level
<1>1. CASE StoreMux(t)
  <2>1. pc[t] = "store mux" /\ level' = level
    BY <1>1 DEF StoreMux, At
  <2> QED BY <2>1 DEF TypeInv, ThreadTypes, StepOf
<1>2. CASE StoreOut(t)
  BY <1>2 DEF StoreOut, Calls
<1>3. CASE SaveGate(t) \/ PeekGate(t) \/ OpenGate(t) \/ PeekAgain(t) \/ CloseGate(t)
           \/ Look(t) \/ LoadMux(t) \/ Load(t) \/ Ignore(t)
  <2>1. UNCHANGED <<level, out, mux, pull>>
    BY <1>3 DEF SaveGate, PeekGate, OpenGate, PeekAgain, CloseGate, Look, LoadMux, Load, Ignore, pinVars
  <2> QED BY <2>1
<1>4. CASE StoreLevel(t) \/ SetPull(t)
  BY <1>4 DEF StoreLevel, SetPull
<1> QED BY <1>1, <1>2, <1>3, <1>4 DEF RegisterStep

\* A mode call comes after the write of the channel's level.
LEMMA NoWriteAfterMode ==
  ASSUME TypeInv, AskedInv, todo[Main] # <<>>, NEW g \in Wired, Current(Main).gpio = g,
         Current(Main).fn = "mode", asked[g].level # Unasked
  PROVE  level[g] = asked[g].level
<1>1. Current(Main) = todo[Main][1] /\ todo[Main] \in Seq(CallSet) /\ 1 \in 1..Len(todo[Main])
  BY PyParameters, CurrentIs DEF TypeInv
<1>2. ASSUME NEW i \in 1..Len(todo[Main]) PROVE todo[Main][i].fn # "write"
  <2>1. CASE i = 1
    BY <1>1, <2>1
  <2>2. CASE i # 1
    <3>1. 1 < i
      BY <1>1, <2>2
    <3>2. todo[Main][i].fn \in {"read", "remember"}
      BY <1>1, <3>1 DEF AskedInv, Shape
    <3> QED BY <3>2
  <2> QED BY <2>1, <2>2
<1>3. ~Ahead("write", g)
  BY <1>2 DEF Ahead
<1> QED BY <1>3 DEF AskedInv, LevelKept

\* A pin that begins to be driven has the level asked of it at once: setup_one
\* writes the initial value first, and no thread undoes it before the direction
\* is set (setup_one of py_gpio.c, asus_set_pin_mode of wiringTB.c).
THEOREM NeverGlitches == ASSUME Apart PROVE Spec => NoGlitch
<1>1. ASSUME TypeInv, PinsInv, [Next]_vars, NEW g \in Wired,
             Driven(g)', ~Driven(g), asked[g].level # Unasked
      PROVE  level'[g] = asked[g].level
  <2>1. g \in Gpio /\ (mux'[g] # mux[g] \/ out'[g] # out[g])
    BY <1>1, RegisterParameters DEF Driven
  <2>2. PICK t \in Thread : RegisterStep(t)
    BY <1>1, <2>1, StepOrOther DEF OtherStep, pinVars
  <2>3. Current(t).fn = "mode" /\ level' = level
    BY <1>1, <2>1, <2>2, ModeDrives
  <2>4. todo[t] # <<>> /\ Current(t).gpio = g
    <3>1. todo[t] # <<>> /\ Effect(t)
      BY <1>1, <2>2, StepEffect DEF PinsInv
    <3> QED BY <2>1, <3>1 DEF Effect
  <2>5. t = Main
    <3>1. ASSUME t # Main PROVE FALSE
      <4>1. t \in PwmThread
        BY <3>1 DEF PwmThread
      <4>2. PwmCall(t)
        BY <1>1, <4>1 DEF PinsInv, AloneInv
      <4> QED BY <2>3, <2>4, <4>2 DEF PwmCall
    <3> QED BY <3>1
  <2>6. level[g] = asked[g].level
    BY <1>1, <2>3, <2>4, <2>5, NoWriteAfterMode DEF PinsInv
  <2> QED BY <2>3, <2>6
<1>2. TypeInv /\ PinsInv /\ [Next]_vars =>
        [\A g \in Wired : Driven(g)' /\ ~Driven(g) /\ asked[g].level # Unasked
           => level'[g] = asked[g].level]_vars
  BY <1>1
<1> QED BY <1>2, PinsAlways, PTL DEF Spec, NoGlitch
=============================================================================
