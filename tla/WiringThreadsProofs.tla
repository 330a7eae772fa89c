------------------------ MODULE WiringThreadsProofs ------------------------
(***************************************************************************)
(* Proofs about WiringThreads, for any number of pins, threads of the      *)
(* program and threads of the library: a new thread gets its own pin       *)
(* through the variable all share, and a pin has one driver.               *)
(***************************************************************************)
EXTENDS WiringThreads, SequenceTheorems, TLAPS

-----------------------------------------------------------------------------
(* What each caller has yet to do.                                         *)

SoftOps == {"stop", "join", "low", "toneIfFree", "create", "await"}
SoftStep == [op : SoftOps, kind : {"pwm", "tone"}, pin : Pin, val : Int, range : Int]
IsrStep == [op : {"open", "lock", "create", "await", "unlock"}, kind : {"isr"}, pin : Pin,
            val : {0}, range : {0}]

\* Main in a function of softPwm.c or softTone.c.
SoftRest(c) == c = Main /\ todo[c] \in Seq(SoftStep)

\* A caller in wiringPiISR, which holds the mutex from the store of the pin
\* until the thread has taken it.
IsrRest(c) ==
  \E p \in Pin :
    \/ todo[c] = Isr(p)
    \/ todo[c] = <<Step("lock", "isr", p), Step("create", "isr", p), Step("unlock", "isr", p)>>
    \/ /\ pinMutex = c
       /\ \/ todo[c] = <<Step("create", "isr", p), Step("unlock", "isr", p)>>
          \/ todo[c] = <<Step("await", "isr", p), Step("unlock", "isr", p)>>
          \/ todo[c] = <<Step("unlock", "isr", p)>>

Rest == /\ DOMAIN todo = Caller
        /\ \A c \in Caller : todo[c] = <<>> \/ SoftRest(c) \/ IsrRest(c)

LEMMA StepTyped ==
  /\ \A op \in SoftOps : \A k \in {"pwm", "tone"} : \A p \in Pin : Step(op, k, p) \in SoftStep
  /\ \A op \in {"open", "lock", "create", "await", "unlock"} : \A p \in Pin :
       Step(op, "isr", p) \in IsrStep
BY DEF Step, SoftStep, IsrStep, SoftOps

\* What the head of the rest says of it.
LEMMA HeadOfRest ==
  ASSUME Rest, NEW c \in Caller, todo[c] # <<>>
  PROVE  \/ SoftRest(c) /\ Its(c) \in SoftStep
         \/ IsrRest(c) /\ Its(c) \in IsrStep /\ (Its(c).op \in {"create", "await", "unlock"} => pinMutex = c)
<1>1. CASE SoftRest(c)
  BY <1>1 DEF SoftRest, Its
<1>2. CASE IsrRest(c)
  <2>1. PICK p \in Pin :
          \/ todo[c] = Isr(p)
          \/ todo[c] = <<Step("lock", "isr", p), Step("create", "isr", p), Step("unlock", "isr", p)>>
          \/ /\ pinMutex = c
             /\ \/ todo[c] = <<Step("create", "isr", p), Step("unlock", "isr", p)>>
                \/ todo[c] = <<Step("await", "isr", p), Step("unlock", "isr", p)>>
                \/ todo[c] = <<Step("unlock", "isr", p)>>
    BY <1>2 DEF IsrRest
  <2>2. \/ Its(c) \in {Step("open", "isr", p), Step("lock", "isr", p)}
        \/ Its(c) \in {Step("create", "isr", p), Step("await", "isr", p), Step("unlock", "isr", p)}
           /\ pinMutex = c
    BY <2>1 DEF Its, Isr
  <2>3. Its(c) \in IsrStep
    BY <2>2, StepTyped
  <2>4. Its(c).op \in {"create", "await", "unlock"} => pinMutex = c
    BY <2>2 DEF Step
  <2> QED BY <1>2, <2>3, <2>4
<1> QED BY <1>1, <1>2 DEF Rest

\* A step of a soft function leaves a rest of it.
LEMMA SoftGoesOn ==
  ASSUME Rest, NEW c \in Caller, SoftRest(c), todo[c] # <<>>, pinMutex' = pinMutex,
         Done(c) \/ \E op \in SoftOps : Now(c, op)
  PROVE  Rest' /\ SoftRest(c)'
<1>1. todo[c] \in Seq(SoftStep) /\ c = Main /\ DOMAIN todo = Caller
  BY DEF SoftRest, Rest
<1>2. DOMAIN todo' = Caller /\ \A b \in Caller \ {c} : todo'[b] = todo[b]
  BY <1>1 DEF Done, Now
<1>3. todo'[c] \in Seq(SoftStep)
  <2>1. CASE Done(c)
    BY <1>1, <2>1 DEF Done
  <2>2. ASSUME NEW op \in SoftOps, Now(c, op) PROVE todo'[c] \in Seq(SoftStep)
    <3>1. todo'[c] = [todo[c] EXCEPT ![1] = [todo[c][1] EXCEPT !.op = op]]
      BY <1>1, <2>2 DEF Now
    <3>2. todo[c][1] \in SoftStep
      BY <1>1
    <3>3. [todo[c][1] EXCEPT !.op = op] \in SoftStep
      BY <3>2 DEF SoftStep
    <3> QED BY <1>1, <3>1, <3>3
  <2> QED BY <2>1, <2>2
<1>4. SoftRest(c)'
  BY <1>1, <1>3 DEF SoftRest
<1>5. \A b \in Caller \ {c} : IsrRest(b) => IsrRest(b)'
  BY <1>2 DEF IsrRest
<1>6. \A b \in Caller \ {c} : ~SoftRest(b)
  BY <1>1 DEF SoftRest
<1> QED BY <1>2, <1>4, <1>5, <1>6 DEF Rest

\* A step of wiringPiISR leaves a rest of it.
LEMMA IsrGoesOn ==
  ASSUME Rest, NEW c \in Caller, IsrRest(c), None \notin Caller,
         \/ At(c, "open") /\ (Done(c) \/ todo' = [todo EXCEPT ![c] = <<>>]) /\ pinMutex' = pinMutex
         \/ At(c, "lock") /\ Done(c) /\ pinMutex = None /\ pinMutex' = c
         \/ At(c, "create") /\ Now(c, "await") /\ pinMutex' = pinMutex
         \/ At(c, "await") /\ Done(c) /\ pinMutex' = pinMutex
         \/ At(c, "unlock") /\ Done(c) /\ pinMutex' = None
  PROVE  Rest'
<1>1. PICK p \in Pin :
        \/ todo[c] = Isr(p)
        \/ todo[c] = <<Step("lock", "isr", p), Step("create", "isr", p), Step("unlock", "isr", p)>>
        \/ /\ pinMutex = c
           /\ \/ todo[c] = <<Step("create", "isr", p), Step("unlock", "isr", p)>>
              \/ todo[c] = <<Step("await", "isr", p), Step("unlock", "isr", p)>>
              \/ todo[c] = <<Step("unlock", "isr", p)>>
  BY DEF IsrRest
<1>2. /\ DOMAIN todo' = Caller /\ \A b \in Caller \ {c} : todo'[b] = todo[b]
      /\ Done(c) => todo'[c] = Tail(todo[c])
      /\ \A op : Now(c, op) => todo'[c] = [todo[c] EXCEPT ![1] = [todo[c][1] EXCEPT !.op = op]]
  BY DEF Rest, Done, Now
<1>3. todo'[c] = <<>> \/ IsrRest(c)'
  <2> DEFINE o == Step("open", "isr", p)
             l == Step("lock", "isr", p)
             r == Step("create", "isr", p)
             a == Step("await", "isr", p)
             u == Step("unlock", "isr", p)
  <2>1. /\ o.op = "open" /\ l.op = "lock" /\ r.op = "create" /\ a.op = "await" /\ u.op = "unlock"
        /\ [r EXCEPT !.op = "await"] = a
    BY DEF Step
  <2> HIDE DEF o, l, r, a, u
  <2>2. CASE todo[c] = Isr(p)
    <3>1. todo[c] = <<o, l, r, u>>
      BY <2>2 DEF Isr, o, l, r, u
    <3>2. todo'[c] = <<>> \/ todo'[c] = <<l, r, u>>
      BY <1>2, <2>1, <3>1 DEF At
    <3> QED BY <3>2 DEF IsrRest, l, r, u
  <2>3. CASE todo[c] = <<l, r, u>>
    <3>1. todo'[c] = <<r, u>> /\ pinMutex' = c
      BY <1>2, <2>1, <2>3 DEF At
    <3> QED BY <3>1 DEF IsrRest, r, u
  <2>4. CASE todo[c] = <<r, u>> /\ pinMutex = c
    <3>1. todo'[c] = <<a, u>> /\ pinMutex' = c
      BY <1>2, <2>1, <2>4 DEF At
    <3> QED BY <3>1 DEF IsrRest, a, u
  <2>5. CASE todo[c] = <<a, u>> /\ pinMutex = c
    <3>1. todo'[c] = <<u>> /\ pinMutex' = c
      BY <1>2, <2>1, <2>5 DEF At
    <3> QED BY <3>1 DEF IsrRest, u
  <2>6. CASE todo[c] = <<u>> /\ pinMutex = c
    <3>1. todo'[c] = <<>>
      BY <1>2, <2>1, <2>6 DEF At
    <3> QED BY <3>1
  <2> QED BY <1>1, <2>2, <2>3, <2>4, <2>5, <2>6 DEF l, r, a, u
<1>4. ASSUME NEW b \in Caller \ {c} PROVE todo'[b] = <<>> \/ SoftRest(b)' \/ IsrRest(b)'
  <2>1. todo'[b] = todo[b] /\ (pinMutex = b => pinMutex' = b)
    <3>1. At(c, "unlock") \/ At(c, "lock") => (pinMutex = c \/ pinMutex = None)
      BY HeadOfRest DEF At, Its, IsrRest, SoftRest, SoftStep, SoftOps
    <3> QED BY <1>2, <3>1
  <2>2. IsrRest(b) => IsrRest(b)'
    BY <2>1 DEF IsrRest
  <2> QED BY <2>1, <2>2 DEF Rest, SoftRest
<1> QED BY <1>2, <1>3, <1>4 DEF Rest

\* The functions of softPwm.c and softTone.c, as the calls give them.
LEMMA SoftFunctions ==
  ASSUME NEW p \in Pin
  PROVE  /\ PinMode(p) \in Seq(SoftStep) /\ ToneCreate(p) \in Seq(SoftStep)
         /\ <<Step("stop", "pwm", p)>> \in Seq(SoftStep)
         /\ <<Step("stop", "tone", p)>> \in Seq(SoftStep)
         /\ \A v, r \in Int : PwmCreate(p, v, r) \in Seq(SoftStep)
<1>1. /\ \A op \in SoftOps, k \in {"pwm", "tone"} : Step(op, k, p) \in SoftStep
      /\ {"stop", "low", "toneIfFree", "create"} \subseteq SoftOps
  BY StepTyped DEF SoftOps
<1>2. PinMode(p) \in Seq(SoftStep)
  BY <1>1 DEF PinMode
<1>3. ToneCreate(p) \in Seq(SoftStep)
  <2>1. <<Step("low", "tone", p), Step("toneIfFree", "tone", p)>> \in Seq(SoftStep)
    BY <1>1
  <2> QED BY <1>2, <2>1 DEF ToneCreate
<1>4. ASSUME NEW v \in Int, NEW r \in Int PROVE PwmCreate(p, v, r) \in Seq(SoftStep)
  <2>1. [Step("create", "pwm", p) EXCEPT !.val = v, !.range = r] \in SoftStep
    BY DEF Step, SoftStep, SoftOps
  <2>2. <<Step("low", "pwm", p), [Step("create", "pwm", p) EXCEPT !.val = v, !.range = r]>>
          \in Seq(SoftStep)
    BY <1>1, <2>1
  <2> QED BY <1>2, <2>2 DEF PwmCreate
<1> QED BY <1>1, <1>2, <1>3, <1>4

\* A call puts a function's steps in the place of nothing.
LEMMA CallGoesOn ==
  ASSUME Rest, SoftCall \/ IsrCall
  PROVE  Rest' /\ UNCHANGED <<newPin, worker>> /\ \A c \in Caller : todo[c] # <<>> => todo'[c] = todo[c]
<1>1. DOMAIN todo = Caller /\ Main \in Caller
  BY DEF Rest, Caller
<1>2. ASSUME NEW steps \in Seq(SoftStep), Call(Main, steps)
      PROVE  Rest' /\ UNCHANGED <<newPin, worker>> /\ \A c \in Caller : todo[c] # <<>> => todo'[c] = todo[c]
  BY <1>1, <1>2 DEF Call, Rest, SoftRest, IsrRest, isr
<1>3. ASSUME NEW c \in Caller, NEW p \in Pin, WiringPiISR(c, p)
      PROVE  Rest' /\ UNCHANGED <<newPin, worker>> /\ \A b \in Caller : todo[b] # <<>> => todo'[b] = todo[b]
  <2>1. IsrRest(c)' /\ pinMutex' = pinMutex
    BY <1>1, <1>3 DEF WiringPiISR, Call, IsrRest, isr
  <2> QED BY <1>1, <1>3, <2>1 DEF WiringPiISR, Call, Rest, SoftRest, IsrRest
<1>4. ASSUME NEW p \in Pin, NEW v \in Values, SoftPwmWrite(p, v)
      PROVE  Rest' /\ UNCHANGED <<newPin, worker, todo>>
  BY <1>4 DEF SoftPwmWrite, Rest, SoftRest, IsrRest, isr
<1>5. ASSUME NEW p \in Pin, NEW f \in Tones, SoftToneWrite(p, f)
      PROVE  Rest' /\ UNCHANGED <<newPin, worker, todo>>
  BY <1>5 DEF SoftToneWrite, Rest, SoftRest, IsrRest, isr
<1>6. CASE IsrCall
  BY <1>3, <1>6 DEF IsrCall
<1>7. ASSUME NEW p \in Pin,
             \/ \E r \in Ranges, v \in Values : SoftPwmCreate(p, v, r)
             \/ SoftPwmStop(p) \/ SoftToneCreate(p) \/ SoftToneStop(p)
             \/ SetPinMode(p) \/ PinModeSoftPwm(p)
      PROVE  \E steps \in Seq(SoftStep) : Call(Main, steps)
  <2>1. Values \subseteq Int /\ Ranges \subseteq Int /\ 0 \in Int /\ 100 \in Int
    BY Parameters
  <2>2. <<>> \in Seq(SoftStep) /\ PinMode(p) \o PwmCreate(p, 0, 100) \in Seq(SoftStep)
    BY SoftFunctions
  <2> QED BY <1>7, <2>1, <2>2, SoftFunctions
      DEF SoftPwmCreate, SoftPwmStop, SoftToneCreate, SoftToneStop, SetPinMode, PinModeSoftPwm
<1>8. CASE SoftCall
  <2>1. PICK p \in Pin : \/ \E steps \in Seq(SoftStep) : Call(Main, steps)
                         \/ \E v \in Values : SoftPwmWrite(p, v)
                         \/ \E f \in Tones : SoftToneWrite(p, f)
    BY <1>7, <1>8 DEF SoftCall
  <2> QED BY <1>2, <1>4, <1>5, <2>1
<1> QED BY <1>6, <1>8

-----------------------------------------------------------------------------
(* The hand-over of a pin to a new thread.                                 *)

Workers == [kind : Kind \cup {"none"}, pin : Pin \cup {None}, for : Pin \cup {None},
            pc : {"free", "start", "clear", "loop", "high", "low", "woken", "called", "ended"},
            nap : Int, space : Int, cancel : BOOLEAN]

Types ==
  /\ marks \in [Pin -> Int] /\ range \in [Pin -> Int] /\ freqs \in [Pin -> Nat]
  /\ newPin \in [Kind -> Pin \cup {None}]
  /\ pinMutex \in Caller \cup {None}
  /\ worker \in [Worker -> Workers]

\* A thread that has not cleared the variable yet.
Holds(w, k) == worker[w].pc \in {"start", "clear"} /\ worker[w].kind = k

\* What a thread knows of its pin.
Knows(w) ==
  /\ worker[w].pc # "free" => worker[w].kind \in Kind /\ worker[w].for \in Pin
  /\ worker[w].pc = "start" => newPin[worker[w].kind] = worker[w].for
  /\ worker[w].pc = "clear" => newPin[worker[w].kind] # None
  /\ worker[w].pc \notin {"free", "start"} => worker[w].pin = worker[w].for

\* At most one thread of a kind is being told its pin, and while the variable
\* is set its creator waits.
OneIsTold == \A k \in Kind : \A w, x \in Worker : Holds(w, k) /\ Holds(x, k) => w = x
CreatorWaits == \A k \in Kind : newPin[k] # None => \E c \in Caller : At(c, "await") /\ Its(c).kind = k

HandOver == Types /\ Rest /\ (\A w \in Worker : Knows(w)) /\ OneIsTold /\ CreatorWaits

\* The invariant implies that every thread serves its own pin.
LEMMA HandOverGivesOwnPin == HandOver => OwnPin
BY DEF HandOver, Knows, OwnPin

LEMMA HandOverInit == Init => HandOver
<1> SUFFICES ASSUME Init PROVE HandOver
  OBVIOUS
<1>1. Free \in Workers
  BY DEF Free, Workers
<1>2. Types
  BY <1>1 DEF Init, Types
<1>3. Rest
  BY DEF Init, Rest
<1>4. (\A w \in Worker : Knows(w)) /\ OneIsTold /\ CreatorWaits
  BY DEF Init, Knows, OneIsTold, Holds, CreatorWaits, Free
<1> QED BY <1>2, <1>3, <1>4 DEF HandOver

\* While the variable of a kind is clear no thread of that kind holds it.
LEMMA NoneHolds ==
  ASSUME HandOver, NEW k \in Kind, newPin[k] = None
  PROVE  \A w \in Worker : ~Holds(w, k)
<1> SUFFICES ASSUME NEW w \in Worker, Holds(w, k) PROVE FALSE
  OBVIOUS
<1>1. Knows(w) /\ worker[w].kind = k /\ worker[w].pc \in {"start", "clear"}
  BY DEF HandOver, Holds
<1>2. None \notin Pin
  BY Parameters
<1> QED BY <1>1, <1>2 DEF Knows

\* A caller that is about to create a thread finds the variable clear: only
\* Main makes PWM threads and tones, and handlers are made under the mutex.
LEMMA ClearAtCreate ==
  ASSUME HandOver, NEW c \in Caller, At(c, "create")
  PROVE  Its(c).kind \in Kind /\ Its(c).pin \in Pin /\ newPin[Its(c).kind] = None
<1>1. Rest /\ todo[c] # <<>> /\ Its(c).op = "create"
  BY DEF HandOver, At, Its
<1>2. Its(c).kind \in Kind /\ Its(c).pin \in Pin
  BY <1>1, HeadOfRest DEF SoftStep, IsrStep, Kind
<1>3. ASSUME newPin[Its(c).kind] # None PROVE FALSE
  <2>1. PICK b \in Caller : At(b, "await") /\ Its(b).kind = Its(c).kind
    BY <1>2, <1>3 DEF HandOver, CreatorWaits
  <2>2. todo[b] # <<>> /\ Its(b).op = "await"
    BY <2>1 DEF At, Its
  <2>3. \/ SoftRest(c) /\ Its(c) \in SoftStep
        \/ Its(c) \in IsrStep /\ pinMutex = c
    BY <1>1, HeadOfRest
  <2>4. \/ SoftRest(b) /\ Its(b) \in SoftStep
        \/ Its(b) \in IsrStep /\ pinMutex = b
    BY <1>1, <2>2, HeadOfRest
  <2>5. b = c
    BY <2>1, <2>3, <2>4 DEF SoftRest, SoftStep, IsrStep
  <2> QED BY <1>1, <2>2, <2>5
<1> QED BY <1>2, <1>3

\* A step that leaves the hand-over alone: no pin is stored, taken or cleared,
\* and no caller stops waiting.
LEMMA LeavesHandOver ==
  ASSUME HandOver, newPin' = newPin,
         \A c \in Caller : At(c, "await") => todo'[c] = todo[c],
         \A w \in Worker :
           \/ worker'[w].pc = "free"
           \/ /\ worker'[w].kind = worker[w].kind
              /\ worker'[w].pin = worker[w].pin /\ worker'[w].for = worker[w].for
              /\ \/ worker'[w].pc = worker[w].pc
                 \/ /\ worker[w].pc \notin {"free", "start", "clear"}
                    /\ worker'[w].pc \notin {"free", "start", "clear"}
  PROVE  (\A w \in Worker : Knows(w)') /\ OneIsTold' /\ CreatorWaits'
<1>1. \A w \in Worker : Knows(w)'
  BY DEF HandOver, Knows
<1>2. \A w \in Worker : \A k \in Kind : Holds(w, k)' => Holds(w, k)
  BY DEF Holds
<1>3. OneIsTold'
  BY <1>2 DEF HandOver, OneIsTold
<1>4. CreatorWaits'
  BY DEF HandOver, CreatorWaits, At, Its
<1> QED BY <1>1, <1>3, <1>4

\* The steps of callers that neither store a pin nor wait for one.
LEMMA CallerKeepsHandOver ==
  ASSUME HandOver, NEW c \in Caller,
         \/ StopNothing(c) \/ Cancel(c) \/ Join(c) \/ WriteLow(c) \/ ToneIfFree(c)
         \/ Open(c) \/ Lock(c) \/ Unlock(c)
  PROVE  HandOver'
<1>1. Types /\ Rest /\ DOMAIN todo = Caller /\ None \notin Caller
  BY Parameters DEF HandOver, Rest
<1>2. newPin' = newPin
  BY DEF StopNothing, Cancel, Join, WriteLow, ToneIfFree, Open, Lock, Unlock
<1>3. \A b \in Caller : At(b, "await") => todo'[b] = todo[b]
  BY <1>1 DEF StopNothing, Cancel, Join, WriteLow, ToneIfFree, Open, Lock, Unlock, At, Done, Now
<1>4. Rest'
  <2>1. todo[c] # <<>> /\ (SoftRest(c) \/ IsrRest(c))
    BY <1>1 DEF StopNothing, Cancel, Join, WriteLow, ToneIfFree, Open, Lock, Unlock, At, Rest
  <2>2. CASE StopNothing(c) \/ Cancel(c) \/ Join(c) \/ WriteLow(c) \/ ToneIfFree(c)
    <3>1. SoftRest(c)
      BY <1>1, <2>1, <2>2, HeadOfRest
      DEF StopNothing, Cancel, Join, WriteLow, ToneIfFree, At, Its, IsrStep
    <3>2. pinMutex' = pinMutex /\ (Done(c) \/ Now(c, "join") \/ Now(c, "create"))
      BY <2>2 DEF StopNothing, Cancel, Join, WriteLow, ToneIfFree, isr
    <3> QED BY <1>1, <2>1, <3>1, <3>2, SoftGoesOn DEF SoftOps
  <2>3. CASE Open(c) \/ Lock(c) \/ Unlock(c)
    <3>1. IsrRest(c)
      BY <1>1, <2>1, <2>3, HeadOfRest DEF Open, Lock, Unlock, At, Its, SoftStep, SoftOps
    <3> QED BY <1>1, <2>3, <3>1, IsrGoesOn DEF Open, Lock, Unlock
  <2> QED BY <2>2, <2>3
<1>5. /\ worker' \in [Worker -> Workers]
      /\ \A w \in Worker :
           \/ worker'[w].pc = "free"
           \/ /\ worker'[w].kind = worker[w].kind /\ worker'[w].pc = worker[w].pc
              /\ worker'[w].pin = worker[w].pin /\ worker'[w].for = worker[w].for
  <2>1. CASE worker' = worker
    BY <1>1, <2>1 DEF Types
  <2>2. CASE Cancel(c)
    <3> DEFINE v == threads[Its(c).kind][Its(c).pin]
    <3>1. worker' = [worker EXCEPT ![v].cancel = TRUE]
      BY <2>2 DEF Cancel
    <3> HIDE DEF v
    <3> QED BY <1>1, <3>1 DEF Types, Workers
  <2>3. CASE Join(c)
    <3> DEFINE v == threads[Its(c).kind][Its(c).pin]
    <3>1. worker' = [worker EXCEPT ![v] = Free] /\ Free \in Workers
      BY <2>3 DEF Join, Free, Workers
    <3> HIDE DEF v
    <3> QED BY <1>1, <3>1 DEF Types, Free
  <2> QED BY <2>1, <2>2, <2>3 DEF StopNothing, WriteLow, ToneIfFree, Open, Lock, Unlock
<1>6. Types'
  <2>1. marks' = marks /\ freqs' = freqs /\ (range' = range \/ Join(c))
    BY DEF StopNothing, Cancel, Join, WriteLow, ToneIfFree, Open, Lock, Unlock, soft
  <2>2. range' \in [Pin -> Int]
    BY <1>1, <2>1 DEF Join, Types
  <2>3. pinMutex' \in Caller \cup {None}
    BY <1>1 DEF StopNothing, Cancel, Join, WriteLow, ToneIfFree, Open, Lock, Unlock, isr, Types
  <2> QED BY <1>1, <1>2, <1>5, <2>1, <2>2, <2>3 DEF Types
<1>7. (\A w \in Worker : Knows(w)') /\ OneIsTold' /\ CreatorWaits'
  BY <1>2, <1>3, <1>5, LeavesHandOver
<1> QED BY <1>4, <1>6, <1>7 DEF HandOver

\* Create stores the pin for a thread of its own: no other is being told.
LEMMA CreateKeepsHandOver ==
  ASSUME HandOver, NEW c \in Caller, Create(c)
  PROVE  HandOver'
<1> DEFINE k == Its(c).kind
           p == Its(c).pin
<1>1. /\ Types /\ Rest /\ DOMAIN todo = Caller /\ None \notin Caller /\ None \notin Pin
      /\ At(c, "create") /\ Now(c, "await") /\ pinMutex' = pinMutex /\ todo[c] # <<>>
  BY Parameters DEF HandOver, Rest, Create, At, isr
<1>2. k \in Kind /\ p \in Pin /\ newPin[k] = None
  BY <1>1, ClearAtCreate
<1>3. Its(c).val \in Int /\ Its(c).range \in Int
  BY <1>1, HeadOfRest DEF SoftStep, IsrStep
<1>4. Rest'
  <2>1. CASE SoftRest(c)
    BY <1>1, <2>1, SoftGoesOn DEF SoftOps
  <2>2. CASE IsrRest(c)
    BY <1>1, <2>2, IsrGoesOn
  <2> QED BY <1>1, <2>1, <2>2 DEF Rest
<1>5. /\ newPin' = [newPin EXCEPT ![k] = p]
      /\ marks' \in [Pin -> Int] /\ range' \in [Pin -> Int] /\ freqs' \in [Pin -> Nat]
  BY <1>1, <1>2, <1>3 DEF Create, Types
<1>6. \/ worker' = worker
      \/ \E w \in Worker :
           worker' = [worker EXCEPT ![w] = [Free EXCEPT !.kind = k, !.pc = "start", !.for = p]]
  BY DEF Create
<1>7. [Free EXCEPT !.kind = k, !.pc = "start", !.for = p] \in Workers
  <2>1. ASSUME NEW j \in Kind, NEW q \in Pin
        PROVE  [Free EXCEPT !.kind = j, !.pc = "start", !.for = q] \in Workers
    <3>1. Free \in Workers
      BY DEF Free, Workers
    <3> QED BY <3>1 DEF Workers
  <2> QED BY <1>2, <2>1
<1>8. Types'
  BY <1>1, <1>2, <1>5, <1>6, <1>7 DEF Types
<1>9. At(c, "await")' /\ Its(c)'.kind = k
  <2>1. todo'[c] = [todo[c] EXCEPT ![1] = [todo[c][1] EXCEPT !.op = "await"]]
    BY <1>1 DEF Now
  <2>2. (SoftRest(c) /\ todo[c][1] \in SoftStep) \/ (IsrRest(c) /\ todo[c][1] \in IsrStep)
    BY <1>1, HeadOfRest DEF Its
  <2> QED BY <1>1, <2>1, <2>2 DEF At, Its, SoftStep, IsrStep, SoftRest, IsrRest
<1>10. CreatorWaits'
  <2>1. \A b \in Caller \ {c} : todo'[b] = todo[b]
    BY <1>1 DEF Now
  <2>2. ASSUME NEW j \in Kind \ {k}, newPin'[j] # None
        PROVE  \E b \in Caller : At(b, "await")' /\ Its(b)'.kind = j
    <3>1. PICK b \in Caller : At(b, "await") /\ Its(b).kind = j
      BY <1>1, <1>5, <2>2 DEF HandOver, CreatorWaits, Types
    <3>2. todo'[b] = todo[b]
      BY <2>1, <3>1
    <3> QED BY <3>1, <3>2 DEF At, Its
  <2> QED BY <1>9, <2>2 DEF CreatorWaits
<1> HIDE DEF k, p
<1>11. CASE worker' = worker
  <2>1. \A w \in Worker : ~Holds(w, k)
    BY <1>2, NoneHolds
  <2>2. \A w \in Worker : Knows(w)'
    BY <1>1, <1>2, <1>5, <1>11, <2>1 DEF HandOver, Knows, Types, Holds
  <2>3. OneIsTold'
    BY <1>11 DEF HandOver, OneIsTold, Holds
  <2> QED BY <1>4, <1>8, <1>10, <2>2, <2>3 DEF HandOver
<1>12. ASSUME NEW w \in Worker,
              worker' = [worker EXCEPT ![w] = [Free EXCEPT !.kind = k, !.pc = "start", !.for = p]]
       PROVE  HandOver'
  <2>1. \A x \in Worker : ~Holds(x, k)
    BY <1>2, NoneHolds
  <2>2. /\ worker'[w].kind = k /\ worker'[w].pc = "start" /\ worker'[w].for = p
        /\ \A x \in Worker \ {w} : worker'[x] = worker[x]
    BY <1>1, <1>12 DEF Types, Free
  <2>3. newPin'[k] = p /\ \A j \in Kind \ {k} : newPin'[j] = newPin[j]
    BY <1>1, <1>2, <1>5 DEF Types
  <2>4. \A x \in Worker : Knows(x)'
    BY <1>1, <1>2, <2>1, <2>2, <2>3 DEF HandOver, Knows, Holds
  <2>5. OneIsTold'
    BY <2>1, <2>2 DEF HandOver, OneIsTold, Holds
  <2> QED BY <1>4, <1>8, <1>10, <2>4, <2>5 DEF HandOver
<1> QED BY <1>6, <1>11, <1>12

\* A caller stops waiting only for a variable that is clear.
LEMMA AwaitKeepsHandOver ==
  ASSUME HandOver, NEW c \in Caller, Await(c)
  PROVE  HandOver'
<1>1. /\ Types /\ Rest /\ DOMAIN todo = Caller /\ None \notin Caller
      /\ At(c, "await") /\ newPin[Its(c).kind] = None /\ Done(c) /\ todo[c] # <<>>
      /\ pinMutex' = pinMutex /\ UNCHANGED <<marks, range, freqs, newPin, worker>>
  BY Parameters DEF HandOver, Rest, Await, At, isr, soft
<1>2. Rest'
  <2>1. CASE SoftRest(c)
    BY <1>1, <2>1, SoftGoesOn
  <2>2. CASE IsrRest(c)
    BY <1>1, <2>2, IsrGoesOn
  <2> QED BY <1>1, <2>1, <2>2 DEF Rest
<1>3. CreatorWaits'
  <2>1. \A b \in Caller \ {c} : todo'[b] = todo[b]
    BY <1>1 DEF Done
  <2> QED BY <1>1, <2>1 DEF HandOver, CreatorWaits, At, Its
<1> QED BY <1>1, <1>2, <1>3 DEF HandOver, Types, Knows, OneIsTold, Holds

\* The threads' steps.
LEMMA WorkerKeepsRest ==
  ASSUME Rest, UNCHANGED <<todo, pinMutex>>
  PROVE  Rest'
BY DEF Rest, SoftRest, IsrRest

\* A thread takes the pin stored for it.
LEMMA TakePinKeepsHandOver ==
  ASSUME HandOver, NEW w \in Worker, TakePin(w)
  PROVE  HandOver'
<1> DEFINE k == worker[w].kind
<1>1. /\ Types /\ Rest' /\ UNCHANGED <<marks, range, freqs, newPin, pinMutex, todo>>
      /\ None \notin Pin /\ k \in Kind /\ Holds(w, k) /\ worker[w].pc = "start"
      /\ newPin[k] = worker[w].for /\ worker[w].for \in Pin
  BY Parameters, WorkerKeepsRest DEF HandOver, TakePin, Knows, Holds, isr, soft
<1>2. worker' = [worker EXCEPT ![w] = [worker[w] EXCEPT !.pc = "clear", !.pin = newPin[k]]]
  BY DEF TakePin, Becomes
<1>3. /\ worker'[w].kind = k /\ worker'[w].pc = "clear"
      /\ worker'[w].for = worker[w].for /\ worker'[w].pin = worker[w].for
      /\ \A x \in Worker \ {w} : worker'[x] = worker[x]
      /\ worker' \in [Worker -> Workers]
  <2>1. worker[w] \in Workers
    BY <1>1 DEF Types
  <2>2. [worker[w] EXCEPT !.pc = "clear", !.pin = newPin[k]] \in Workers
    BY <1>1, <2>1 DEF Workers
  <2> QED BY <1>1, <1>2, <2>1, <2>2 DEF Types, Workers
<1> HIDE DEF k
<1>4. \A x \in Worker : Knows(x)'
  BY <1>1, <1>3 DEF HandOver, Knows
<1>5. \A x \in Worker : \A j \in Kind : Holds(x, j)' => Holds(x, j)
  BY <1>1, <1>3 DEF Holds
<1>6. OneIsTold' /\ CreatorWaits'
  BY <1>1, <1>5 DEF HandOver, OneIsTold, CreatorWaits, At, Its
<1> QED BY <1>1, <1>3, <1>4, <1>6 DEF HandOver, Types

\* It clears the variable: it was the only one being told.
LEMMA ClearPinKeepsHandOver ==
  ASSUME HandOver, NEW w \in Worker, ClearPin(w)
  PROVE  HandOver'
<1> DEFINE k == worker[w].kind
<1>1. /\ Types /\ Rest' /\ UNCHANGED <<marks, range, freqs, pinMutex, todo>>
      /\ k \in Kind /\ Holds(w, k) /\ worker[w].pc = "clear"
  BY WorkerKeepsRest DEF HandOver, ClearPin, Knows, Holds, isr, soft
<1>2. /\ worker' = [worker EXCEPT ![w] = [worker[w] EXCEPT !.pc = "loop"]]
      /\ newPin' = [newPin EXCEPT ![k] = None]
  BY DEF ClearPin, Moves, Becomes
<1>3. /\ worker'[w].kind = k /\ worker'[w].pc = "loop"
      /\ worker'[w].for = worker[w].for /\ worker'[w].pin = worker[w].pin
      /\ \A x \in Worker \ {w} : worker'[x] = worker[x]
      /\ worker' \in [Worker -> Workers]
  <2>1. worker[w] \in Workers
    BY <1>1 DEF Types
  <2>2. [worker[w] EXCEPT !.pc = "loop"] \in Workers
    BY <2>1 DEF Workers
  <2> QED BY <1>1, <1>2, <2>1, <2>2 DEF Types, Workers
<1> HIDE DEF k
<1>4. \A x \in Worker : Holds(x, k) => x = w
  BY <1>1 DEF HandOver, OneIsTold
<1>5. newPin'[k] = None /\ (\A j \in Kind \ {k} : newPin'[j] = newPin[j]) /\ newPin' \in [Kind -> Pin \cup {None}]
  BY <1>1, <1>2 DEF Types
<1>6. \A x \in Worker : Knows(x)'
  BY <1>1, <1>3, <1>4, <1>5 DEF HandOver, Knows, Holds
<1>7. \A x \in Worker : \A j \in Kind : Holds(x, j)' => Holds(x, j)
  BY <1>1, <1>3 DEF Holds
<1>8. OneIsTold' /\ CreatorWaits'
  BY <1>1, <1>5, <1>7 DEF HandOver, OneIsTold, CreatorWaits, At, Its
<1> QED BY <1>1, <1>3, <1>5, <1>6, <1>8 DEF HandOver, Types

\* The rest of a thread's life does not touch the hand-over.
LEMMA LoopKeepsHandOver ==
  ASSUME HandOver, NEW w \in Worker,
         End(w) \/ High(w) \/ Low(w) \/ Again(w) \/ Silent(w) \/ Wake(w) \/ Serve(w)
  PROVE  HandOver'
<1>1. /\ Types /\ Rest' /\ UNCHANGED <<marks, range, freqs, newPin, pinMutex, todo>>
      /\ worker[w] \in Workers
  BY WorkerKeepsRest
  DEF HandOver, Types, End, High, Low, Again, Silent, Wake, Serve, isr, soft
<1>2. worker[w].pc \in {"loop", "high", "low", "woken", "called"}
  BY DEF End, Ends, CancellationPoint, Writes, High, Low, Again, Silent, Wake, Serve, ReadAndCall
<1>3. \E pc \in {"loop", "high", "low", "woken", "called", "ended"} : \E nap, space \in Int :
        worker' = [worker EXCEPT ![w] = [worker[w] EXCEPT !.pc = pc, !.nap = nap, !.space = space]]
  <2>1. \A pc : [worker[w] EXCEPT !.pc = pc]
                 = [worker[w] EXCEPT !.pc = pc, !.nap = worker[w].nap, !.space = worker[w].space]
    BY <1>1 DEF Workers
  <2>2. worker[w].nap \in Int /\ worker[w].space \in Int
    BY <1>1 DEF Workers
  <2>3. worker[w].kind \in Kind /\ worker[w].pin = worker[w].for /\ worker[w].for \in Pin
    BY <1>2 DEF HandOver, Knows
  <2>4. CASE End(w) \/ Wake(w) \/ Serve(w)
    <3>1. \E pc \in {"loop", "high", "low", "woken", "called", "ended"} :
            worker' = [worker EXCEPT ![w] = [worker[w] EXCEPT !.pc = pc]]
      BY <2>4 DEF End, Wake, Serve, ReadAndCall, Moves, Becomes
    <3>2. PICK pc \in {"loop", "high", "low", "woken", "called", "ended"} :
            worker' = [worker EXCEPT ![w] = [worker[w] EXCEPT !.pc = pc]]
      BY <3>1
    <3>3. worker' = [worker EXCEPT ![w] = [worker[w] EXCEPT !.pc = pc, !.nap = worker[w].nap,
                                                              !.space = worker[w].space]]
      BY <2>1, <3>2
    <3> QED BY <2>2, <3>3
  <2>5. CASE High(w)
    <3>1. HighTime(w) \in Int /\ LowTime(w) \in Int
      <4>1. /\ marks[worker[w].pin] \in Int /\ range[worker[w].pin] \in Int
            /\ freqs[worker[w].pin] \in Nat
        BY <1>1, <2>3 DEF Types
      <4>2. CASE worker[w].kind = "pwm"
        BY <4>1, <4>2 DEF HighTime, LowTime
      <4>3. CASE worker[w].kind = "tone"
        <5>1. freqs[worker[w].pin] # 0
          BY <2>5, <4>3 DEF High
        <5> QED BY <4>1, <4>3, <5>1 DEF HighTime, LowTime
      <4> QED BY <2>5, <4>2, <4>3 DEF High
    <3> QED BY <2>5, <3>1 DEF High, Becomes
  <2>6. CASE Low(w)
    <3>1. worker' = [worker EXCEPT ![w] = [worker[w] EXCEPT !.pc = "low", !.nap = worker[w].space,
                                                              !.space = 0]]
      BY <2>6 DEF Low, Becomes
    <3>2. "low" \in {"loop", "high", "low", "woken", "called", "ended"} /\ 0 \in Int
      OBVIOUS
    <3> QED BY <2>2, <3>1, <3>2, Zenon
  <2>7. CASE Again(w)
    <3>1. worker' = [worker EXCEPT ![w] = [worker[w] EXCEPT !.pc = "loop", !.nap = 0]]
      BY <2>7 DEF Again, Becomes
    <3>2. [worker[w] EXCEPT !.pc = "loop", !.nap = 0]
            = [worker[w] EXCEPT !.pc = "loop", !.nap = 0, !.space = worker[w].space]
      BY <1>1 DEF Workers
    <3>3. "loop" \in {"loop", "high", "low", "woken", "called", "ended"} /\ 0 \in Int
      OBVIOUS
    <3> QED BY <2>2, <3>1, <3>2, <3>3, Zenon
  <2>8. CASE Silent(w)
    <3>1. worker' = [worker EXCEPT ![w] = [worker[w] EXCEPT !.pc = "low", !.nap = Pause]]
      BY <2>8 DEF Silent, Becomes
    <3>2. [worker[w] EXCEPT !.pc = "low", !.nap = Pause]
            = [worker[w] EXCEPT !.pc = "low", !.nap = Pause, !.space = worker[w].space]
      BY <1>1 DEF Workers
    <3>3. "low" \in {"loop", "high", "low", "woken", "called", "ended"} /\ Pause \in Int
      BY DEF Pause
    <3> QED BY <2>2, <3>1, <3>2, <3>3, Zenon
  <2> QED BY <2>4, <2>5, <2>6, <2>7, <2>8
<1>4. PICK pc \in {"loop", "high", "low", "woken", "called", "ended"},
          nap \in Int, space \in Int :
        worker' = [worker EXCEPT ![w] = [worker[w] EXCEPT !.pc = pc, !.nap = nap, !.space = space]]
  BY <1>3
<1>5. /\ worker'[w].kind = worker[w].kind /\ worker'[w].pc = pc
      /\ worker'[w].for = worker[w].for /\ worker'[w].pin = worker[w].pin
      /\ \A x \in Worker \ {w} : worker'[x] = worker[x]
      /\ worker' \in [Worker -> Workers]
  BY <1>1, <1>4 DEF Types, Workers
<1>6. (\A x \in Worker : Knows(x)') /\ OneIsTold' /\ CreatorWaits'
  BY <1>1, <1>2, <1>5, LeavesHandOver
<1> QED BY <1>1, <1>5, <1>6 DEF HandOver, Types

\* Calls, and edges, leave the hand-over alone.
LEMMA CallKeepsHandOver ==
  ASSUME HandOver, SoftCall \/ IsrCall
  PROVE  HandOver'
<1>1. /\ Rest' /\ UNCHANGED <<newPin, worker>>
      /\ \A c \in Caller : todo[c] # <<>> => todo'[c] = todo[c]
  BY CallGoesOn DEF HandOver
<1>2. (\A w \in Worker : Knows(w)') /\ OneIsTold' /\ CreatorWaits'
  BY <1>1, LeavesHandOver DEF At
<1>3. marks' \in [Pin -> Int] /\ range' = range /\ freqs' \in [Pin -> Nat] /\ pinMutex' = pinMutex
  <2>1. Types /\ Values \subseteq Int /\ Tones \subseteq Int
    BY Parameters DEF HandOver
  <2>2. ASSUME NEW p \in Pin, NEW v \in Values, SoftPwmWrite(p, v)
        PROVE  marks' \in [Pin -> Int] /\ UNCHANGED <<range, freqs, pinMutex>>
    BY <2>1, <2>2 DEF SoftPwmWrite, Clamped, Types, isr
  <2>3. ASSUME NEW p \in Pin, NEW f \in Tones, SoftToneWrite(p, f)
        PROVE  freqs' \in [Pin -> Nat] /\ UNCHANGED <<range, marks, pinMutex>>
    BY <2>1, <2>3 DEF SoftToneWrite, AtMost5kHz, MaxTone, Types, isr
  <2>4. \A c, steps : Call(c, steps) => UNCHANGED <<range, marks, freqs, pinMutex>>
    BY DEF Call, soft, isr
  <2>5. CASE IsrCall
    BY <2>1, <2>4, <2>5 DEF IsrCall, WiringPiISR, Types
  <2>6. CASE SoftCall
    <3>1. PICK p \in Pin : \/ \E steps : Call(Main, steps)
                           \/ \E v \in Values : SoftPwmWrite(p, v)
                           \/ \E f \in Tones : SoftToneWrite(p, f)
      BY <2>6 DEF SoftCall, SoftPwmCreate, SoftPwmStop, SoftToneCreate, SoftToneStop,
                  SetPinMode, PinModeSoftPwm
    <3> QED BY <2>1, <2>2, <2>3, <2>4, <3>1 DEF Types
  <2> QED BY <2>5, <2>6
<1> QED BY <1>1, <1>2, <1>3 DEF HandOver, Types

LEMMA EdgeKeepsHandOver ==
  ASSUME HandOver, NEW p \in Pin, Edge(p)
  PROVE  HandOver'
<1>1. /\ UNCHANGED <<marks, range, freqs, newPin, pinMutex, todo, worker>>
  BY DEF Edge, soft
<1> QED BY <1>1, WorkerKeepsRest DEF HandOver, Types, Knows, OneIsTold, Holds, CreatorWaits, At, Its

\* The hand-over of pins, whatever callers and threads do: the variable is
\* set only while the creator waits and one thread is being told.
THEOREM HandOverInvariant == Spec => []HandOver
<1>1. Init => HandOver
  BY HandOverInit
<1>2. HandOver /\ [Next]_vars => HandOver'
  <2> SUFFICES ASSUME HandOver, [Next]_vars PROVE HandOver'
    OBVIOUS
  <2>1. CASE SoftCall \/ IsrCall
    BY <2>1, CallKeepsHandOver
  <2>2. ASSUME NEW c \in Caller, CallStep(c) PROVE HandOver'
    BY <2>2, CallerKeepsHandOver, CreateKeepsHandOver, AwaitKeepsHandOver DEF CallStep
  <2>3. ASSUME NEW w \in Worker, WorkerStep(w) PROVE HandOver'
    BY <2>3, TakePinKeepsHandOver, ClearPinKeepsHandOver, LoopKeepsHandOver DEF WorkerStep
  <2>4. ASSUME NEW p \in Pin, Edge(p) PROVE HandOver'
    BY <2>4, EdgeKeepsHandOver
  <2>5. CASE UNCHANGED vars
    BY <2>5, WorkerKeepsRest
    DEF vars, soft, isr, HandOver, Types, Knows, OneIsTold, Holds, CreatorWaits, At, Its
  <2> QED BY <2>1, <2>2, <2>3, <2>4, <2>5 DEF Next
<1> QED BY <1>1, <1>2, PTL DEF Spec

\* Every thread serves the pin it was created for.
THEOREM ThreadsServeTheirPin == Spec => []OwnPin
BY HandOverInvariant, HandOverGivesOwnPin, PTL

-----------------------------------------------------------------------------
(* One driver of a pin.                                                    *)

SoftKind == {"pwm", "tone"}

\* The tables say that no thread of that kind is there, unless they cannot tell.
Clear(k, p) == \/ threads[k][p] = None /\ (k = "pwm" => range[p] = 0)
               \/ k = "pwm" /\ p \in rangeless

Makes(s) == s.op \in {"create", "toneIfFree"} /\ s.kind \in SoftKind
StopsOf(s, k, p) == s.op \in {"stop", "join"} /\ s.kind = k /\ s.pin = p

\* The step that makes a thread is the last of its function, and what could
\* still drive the pin is stopped by a step before it, as the tables have it.
Ready(t, i) ==
  Makes(t[i]) =>
    /\ i = Len(t)
    /\ t[i].op = "toneIfFree" => t[i].kind = "tone"
    /\ \A k \in SoftKind :
         ~sys \/ (t[i].op = "create" /\ t[i].kind = k) =>
           Clear(k, t[i].pin) \/ \E j \in 1..(i - 1) : StopsOf(t[j], k, t[i].pin)

MainReady == \A i \in 1..Len(todo[Main]) : Ready(todo[Main], i)

\* The tone thread that the table names is the only one of its pin, and so is
\* the PWM thread of a pin that was never given a range of 0.  There a range of
\* 0 says that there is none, and mapped registers have one kind of driver.
Drivers ==
  /\ threads \in [SoftKind -> [Pin -> Worker \cup {None}]]
  /\ \A w \in Worker, p \in Pin :
       worker[w].kind \in SoftKind /\ worker[w].for = p =>
         threads[worker[w].kind][p] = w \/ (worker[w].kind = "pwm" /\ p \in rangeless)
  /\ \A p \in Pin \ rangeless : range[p] = 0 => threads["pwm"][p] = None
  /\ ~sys => \A p \in Pin \ rangeless : threads["pwm"][p] = None \/ threads["tone"][p] = None
  /\ MainReady

LEMMA DriversGiveOneDriver == HandOver /\ Drivers => OneDriver
<1> SUFFICES ASSUME Drivers, ~sys, NEW p \in Pin \ rangeless, NEW w \in Worker, NEW x \in Worker,
                    Drives(w, p), Drives(x, p)
             PROVE  w = x
  BY DEF OneDriver
<1>1. worker[w].kind \in SoftKind /\ threads[worker[w].kind][p] = w
  BY DEF Drives, Drivers, SoftKind
<1>2. worker[x].kind \in SoftKind /\ threads[worker[x].kind][p] = x
  BY DEF Drives, Drivers, SoftKind
<1>3. None \notin Worker
  BY Parameters
<1> QED BY <1>1, <1>2, <1>3 DEF Drivers, SoftKind

LEMMA DriversInit == Init => Drivers
<1> SUFFICES ASSUME Init PROVE Drivers
  OBVIOUS
<1>1. None \notin Pin
  BY Parameters
<1>2. todo[Main] = <<>>
  BY DEF Init, Caller
<1>3. \A w \in Worker : worker[w].kind = "none"
  BY DEF Init, Free
<1> QED BY <1>1, <1>2, <1>3 DEF Init, Drivers, SoftKind, MainReady

\* Steps put before a function leave it ready, if they make no thread.
LEMMA ReadyAfterMore ==
  ASSUME NEW s \in Seq(SoftStep), NEW t \in Seq(SoftStep),
         \A i \in 1..Len(s) : ~Makes(s[i]),
         \A i \in 1..Len(t) : Ready(t, i)
  PROVE  s \o t \in Seq(SoftStep) /\ \A i \in 1..Len(s \o t) : Ready(s \o t, i)
<1> DEFINE u == s \o t
<1>1. /\ u \in Seq(SoftStep) /\ Len(u) = Len(s) + Len(t) /\ Len(s) \in Nat /\ Len(t) \in Nat
      /\ \A i \in 1..Len(s) + Len(t) : u[i] = IF i <= Len(s) THEN s[i] ELSE t[i - Len(s)]
  BY ConcatProperties
<1> HIDE DEF u
<1>2. ASSUME NEW i \in 1..Len(u), Makes(u[i]) PROVE Ready(u, i)
  <2>1. i - Len(s) \in 1..Len(t) /\ u[i] = t[i - Len(s)]
    BY <1>1, <1>2
  <2>2. Ready(t, i - Len(s))
    BY <2>1
  <2>3. ASSUME NEW j \in 1..(i - Len(s) - 1) PROVE j + Len(s) \in 1..(i - 1) /\ u[j + Len(s)] = t[j]
    <3>1. j + Len(s) \in 1..(Len(s) + Len(t)) /\ ~(j + Len(s) <= Len(s)) /\ (j + Len(s)) - Len(s) = j
      BY <1>1, <2>1
    <3> QED BY <1>1, <2>1, <3>1
  <2> DEFINE m == i - Len(s)
  <2>4. Makes(t[m]) /\ u[i] = t[m]
    BY <1>2, <2>1
  <2>5. /\ m = Len(t)
        /\ t[m].op = "toneIfFree" => t[m].kind = "tone"
        /\ \A k \in SoftKind :
             ~sys \/ (t[m].op = "create" /\ t[m].kind = k) =>
               Clear(k, t[m].pin) \/ \E j \in 1..(m - 1) : StopsOf(t[j], k, t[m].pin)
    BY <2>2, <2>4 DEF Ready
  <2>6. i = Len(u)
    BY <1>1, <2>5
  <2>7. \A k \in SoftKind :
          (\E j \in 1..(m - 1) : StopsOf(t[j], k, t[m].pin))
            => \E j \in 1..(i - 1) : StopsOf(u[j], k, t[m].pin)
    BY <2>3
  <2> HIDE DEF m
  <2> QED BY <2>4, <2>5, <2>6, <2>7 DEF Ready
<1> QED BY <1>1, <1>2 DEF Ready, u

\* pinMode's steps before the last two of a function.
LEMMA ReadyAfterPinMode ==
  ASSUME NEW p \in Pin, NEW k \in SoftKind, NEW last \in SoftStep,
         last.kind = k /\ last.pin = p,
         \/ last.op = "toneIfFree" /\ k = "tone"
         \/ last.op = "create" /\ k = "pwm" /\ (sys => Clear("pwm", p))
  PROVE  LET t == PinMode(p) \o <<Step("low", k, p), last>>
         IN  t \in Seq(SoftStep) /\ \A i \in 1..Len(t) : Ready(t, i)
<1> DEFINE s == PinMode(p)
           e == <<Step("low", k, p), last>>
           u == s \o e
<1>1. s \in Seq(SoftStep) /\ e \in Seq(SoftStep)
  <2>1. Step("low", k, p) \in SoftStep
    BY StepTyped DEF SoftKind, SoftOps
  <2> QED BY <2>1, SoftFunctions
<1>2. /\ u \in Seq(SoftStep) /\ Len(u) = Len(s) + 2 /\ Len(s) \in Nat
      /\ \A i \in 1..(Len(s) + 2) : u[i] = IF i <= Len(s) THEN s[i] ELSE e[i - Len(s)]
  BY <1>1, ConcatProperties
<1>3. \A i \in 1..Len(s) : ~Makes(s[i])
  BY DEF PinMode, Step, Makes
<1>4. ~sys => \A j \in SoftKind : \E i \in 1..Len(s) : StopsOf(s[i], j, p)
  <2> SUFFICES ASSUME ~sys PROVE \A j \in SoftKind : \E i \in 1..Len(s) : StopsOf(s[i], j, p)
    OBVIOUS
  <2>1. s = <<Step("stop", "pwm", p), Step("stop", "tone", p)>>
    BY DEF PinMode
  <2>2. Len(s) = 2 /\ StopsOf(s[1], "pwm", p) /\ StopsOf(s[2], "tone", p)
    BY <2>1 DEF StopsOf, Step
  <2> QED BY <2>2 DEF SoftKind
<1>5. e[1].op = "low" /\ e[2] = last
  BY DEF Step
<1> HIDE DEF s, e, u
<1>6. ASSUME NEW i \in 1..Len(u), Makes(u[i]) PROVE Ready(u, i)
  <2>1. i > Len(s)
    BY <1>2, <1>3, <1>6
  <2>2. i = Len(s) + 1 \/ i = Len(s) + 2
    BY <1>2, <2>1
  <2>3. i = Len(s) + 2 /\ u[i] = last
    BY <1>2, <1>5, <1>6, <2>2 DEF Makes
  <2>4. \A j \in 1..Len(s) : j \in 1..(i - 1) /\ u[j] = s[j]
    BY <1>2, <2>3
  <2>5. ASSUME NEW j \in SoftKind, ~sys \/ (last.op = "create" /\ last.kind = j)
        PROVE  Clear(j, p) \/ \E m \in 1..(i - 1) : StopsOf(u[m], j, p)
    BY <1>4, <2>4, <2>5
  <2> QED BY <1>2, <2>3, <2>5 DEF Ready
<1> QED BY <1>2, <1>6 DEF Ready, u, s, e

AnyStep == SoftStep \cup IsrStep
LEMMA RestTyped ==
  ASSUME Rest, NEW c \in Caller
  PROVE  todo[c] \in Seq(AnyStep)
<1>1. CASE SoftRest(c)
  BY <1>1 DEF SoftRest, AnyStep
<1>2. CASE IsrRest(c)
  <2>1. PICK p \in Pin :
          \/ todo[c] = Isr(p)
          \/ todo[c] = <<Step("lock", "isr", p), Step("create", "isr", p), Step("unlock", "isr", p)>>
          \/ todo[c] = <<Step("create", "isr", p), Step("unlock", "isr", p)>>
          \/ todo[c] = <<Step("await", "isr", p), Step("unlock", "isr", p)>>
          \/ todo[c] = <<Step("unlock", "isr", p)>>
    BY <1>2 DEF IsrRest
  <2>2. /\ Step("open", "isr", p) \in AnyStep /\ Step("lock", "isr", p) \in AnyStep
        /\ Step("create", "isr", p) \in AnyStep /\ Step("await", "isr", p) \in AnyStep
        /\ Step("unlock", "isr", p) \in AnyStep
    BY StepTyped DEF AnyStep
  <2> DEFINE o == Step("open", "isr", p)
             l == Step("lock", "isr", p)
             r == Step("create", "isr", p)
             a == Step("await", "isr", p)
             u == Step("unlock", "isr", p)
  <2>3. \/ todo[c] = <<o, l, r, u>> \/ todo[c] = <<l, r, u>>
        \/ todo[c] = <<r, u>> \/ todo[c] = <<a, u>> \/ todo[c] = <<u>>
    BY <2>1 DEF Isr
  <2> HIDE DEF o, l, r, a, u
  <2>4. /\ <<o, l, r, u>> \in Seq(AnyStep) /\ <<l, r, u>> \in Seq(AnyStep)
        /\ <<r, u>> \in Seq(AnyStep) /\ <<a, u>> \in Seq(AnyStep) /\ <<u>> \in Seq(AnyStep)
    BY <2>2 DEF o, l, r, a, u
  <2> QED BY <2>3, <2>4
<1>3. CASE todo[c] = <<>>
  BY <1>3
<1> QED BY <1>1, <1>2, <1>3 DEF Rest

Cleared(k, p) == Clear(k, p) => Clear(k, p)'

\* A step of another caller, or of a thread.
LEMMA ReadyIfNotMain ==
  ASSUME HandOver, MainReady, sys' = sys, todo'[Main] = todo[Main],
         \A k \in SoftKind, p \in Pin : Cleared(k, p)
  PROVE  MainReady'
<1> DEFINE t == todo[Main]
<1>1. t \in Seq(AnyStep) /\ t' = t
  BY RestTyped DEF HandOver, Caller
<1>2. ASSUME NEW i \in 1..Len(t), Makes(t[i]) PROVE Ready(t, i)'
  <2>1. t[i].pin \in Pin
    BY <1>1 DEF AnyStep, SoftStep, IsrStep
  <2>2. Ready(t, i)
    BY DEF MainReady
  <2> HIDE DEF t
  <2> QED BY <1>1, <1>2, <2>1, <2>2 DEF Ready, Cleared
<1> QED BY <1>1, <1>2 DEF MainReady, Ready, Makes

\* Main has done a step; if it was a stop, nothing of that kind is left.
LEMMA ReadyIfDone ==
  ASSUME HandOver, MainReady, sys' = sys, todo[Main] # <<>>, Done(Main),
         \A k \in SoftKind, p \in Pin : Cleared(k, p),
         \A k \in SoftKind, p \in Pin : StopsOf(Its(Main), k, p) => Clear(k, p)'
  PROVE  MainReady'
<1> DEFINE t == todo[Main]
           u == Tail(t)
<1>1. /\ t \in Seq(AnyStep) /\ t # <<>> /\ t' = u
  BY RestTyped DEF HandOver, Caller, Rest, Done
<1>2. /\ u \in Seq(AnyStep) /\ Len(u) = Len(t) - 1 /\ Len(t) \in Nat
      /\ \A i \in 1..Len(u) : u[i] = t[i + 1]
  BY <1>1, HeadTailProperties
<1>3. t[1] = Its(Main)
  BY <1>1 DEF Its
<1>4. \A i \in 1..Len(t) : Ready(t, i)
  BY DEF MainReady
<1> HIDE DEF u, t
<1>5. ASSUME NEW i \in 1..Len(u), Makes(u[i]) PROVE Ready(t, i)'
  <2>1. /\ i + 1 \in 1..Len(t) /\ u[i] = t[i + 1] /\ Makes(t[i + 1]) /\ Ready(t, i + 1)
        /\ u[i] \in AnyStep
    BY <1>2, <1>4, <1>5
  <2>2. PICK q \in Pin : q = u[i].pin
    BY <2>1 DEF AnyStep, SoftStep, IsrStep
  <2>3. ASSUME NEW k \in SoftKind, NEW j \in 1..i, StopsOf(t[j], k, q)
        PROVE  Clear(k, q)' \/ \E m \in 1..(i - 1) : StopsOf(u[m], k, q)
    <3>1. CASE j = 1
      BY <1>3, <2>2, <2>3, <3>1
    <3>2. CASE j # 1
      <4>1. j - 1 \in 1..(i - 1) /\ j - 1 \in 1..Len(u) /\ (j - 1) + 1 = j
        BY <1>2, <3>2
      <4>2. u[j - 1] = t[j]
        BY <1>2, <4>1
      <4> QED BY <2>3, <4>1, <4>2
    <3> QED BY <3>1, <3>2
  <2>4. /\ i + 1 = Len(t)
        /\ u[i].op = "toneIfFree" => u[i].kind = "tone"
        /\ \A k \in SoftKind :
             ~sys \/ (u[i].op = "create" /\ u[i].kind = k) =>
               Clear(k, q) \/ \E j \in 1..i : StopsOf(t[j], k, q)
    BY <2>1, <2>2 DEF Ready
  <2>5. \A k \in SoftKind :
          ~sys \/ (u[i].op = "create" /\ u[i].kind = k) =>
            Clear(k, q)' \/ \E m \in 1..(i - 1) : StopsOf(u[m], k, q)
    BY <2>2, <2>3, <2>4 DEF Cleared
  <2>6. i = Len(u)
    BY <1>2, <2>4
  <2> QED BY <1>1, <2>2, <2>4, <2>5, <2>6 DEF Ready
<1>6. \A i \in 1..Len(u) : Ready(t, i)'
  BY <1>1, <1>5 DEF Ready
<1> QED BY <1>1, <1>6 DEF MainReady, t

\* Main replaces the step at the head by another.
LEMMA ReadyIfNow ==
  ASSUME HandOver, MainReady, sys' = sys, todo[Main] # <<>>, NEW op \in SoftOps, Now(Main, op),
         \/ /\ \A k \in SoftKind, p \in Pin : Cleared(k, p)
            /\ Its(Main).op = "stop" /\ op = "join"
         \/ /\ \A k \in SoftKind, p \in Pin : Cleared(k, p)
            /\ Its(Main).op = "create" /\ op = "await"
         \/ Makes(Its(Main)) /\ op = "await"
         \/ /\ Makes(Its(Main)) /\ Its(Main).op = "toneIfFree" /\ op = "create"
            /\ threads["tone"][Its(Main).pin] = None /\ UNCHANGED <<threads, range, rangeless>>
  PROVE  MainReady'
<1> DEFINE t == todo[Main]
           h == [t[1] EXCEPT !.op = op]
<1>1. /\ t \in Seq(AnyStep) /\ t # <<>> /\ t' = [t EXCEPT ![1] = h]
  BY RestTyped DEF HandOver, Caller, Rest, Now
<1>2. t[1] = Its(Main) /\ t[1] \in AnyStep /\ 1 \in 1..Len(t) /\ Len(t) \in Nat
  BY <1>1 DEF Its
<1>3. \A i \in 1..Len(t) : Ready(t, i)
  BY DEF MainReady
<1>4. /\ h.op = op /\ h.kind = t[1].kind /\ h.pin = t[1].pin
      /\ h.range = t[1].range /\ h.val = t[1].val
  BY <1>2 DEF AnyStep, SoftStep, IsrStep
<1>5. Len(t') = Len(t) /\ t'[1] = h /\ \A i \in 2..Len(t) : t'[i] = t[i]
  BY <1>1, <1>2
<1> HIDE DEF t, h
<1>6. ASSUME NEW i \in 2..Len(t), Makes(t[i]) PROVE Ready(t, i)'
  <2>1. i \in 1..Len(t) /\ t[i] \in AnyStep /\ Ready(t, i) /\ Len(t) # 1
    BY <1>1, <1>3
  <2>2. t[i].pin \in Pin
    BY <2>1 DEF AnyStep, SoftStep, IsrStep
  <2>3. \A k \in SoftKind, p \in Pin : Cleared(k, p)
    <3>1. Makes(t[1]) => Len(t) = 1
      BY <1>2, <1>3 DEF Ready
    <3> QED BY <1>2, <2>1, <3>1, Zenon
  <2>4. \A k \in SoftKind : StopsOf(t[1], k, t[i].pin) => StopsOf(h, k, t[i].pin)
    <3>1. Makes(t[1]) => Len(t) = 1
      BY <1>2, <1>3 DEF Ready
    <3> QED BY <1>2, <1>4, <3>1 DEF StopsOf
  <2>5. \A j \in 1..(i - 1), k \in SoftKind : StopsOf(t[j], k, t[i].pin) => StopsOf(t'[j], k, t[i].pin)
    <3> TAKE j \in 1..(i - 1)
    <3>1. CASE j = 1
      BY <1>5, <2>4, <3>1
    <3>2. CASE j # 1
      <4>1. j \in 2..Len(t)
        BY <3>2
      <4> QED BY <1>5, <4>1
    <3> QED BY <3>1, <3>2
  <2> QED BY <1>5, <1>6, <2>1, <2>2, <2>3, <2>5 DEF Ready, Cleared
<1>7. ASSUME Makes(h) PROVE Ready(t, 1)'
  <2>1. /\ Makes(t[1]) /\ t[1].op = "toneIfFree" /\ op = "create"
        /\ threads["tone"][t[1].pin] = None /\ UNCHANGED <<threads, range, rangeless>>
    BY <1>2, <1>4, <1>7 DEF Makes
  <2>2. Ready(t, 1)
    BY <1>2, <1>3
  <2>3. /\ Len(t) = 1 /\ t[1].kind = "tone"
        /\ ~sys => \A k \in SoftKind : Clear(k, t[1].pin)
    BY <2>1, <2>2 DEF Ready
  <2> QED BY <1>4, <1>5, <2>1, <2>3 DEF Ready, Clear, SoftKind
<1>8. \A i \in 1..Len(t') : Ready(t, i)'
  <2> TAKE i \in 1..Len(t')
  <2>1. CASE i = 1
    BY <1>5, <1>7, <2>1 DEF Ready
  <2>2. CASE i # 1
    <3>1. i \in 2..Len(t)
      BY <1>2, <1>5, <2>2
    <3> QED BY <1>5, <1>6, <3>1 DEF Ready
  <2> QED BY <2>1, <2>2
<1> QED BY <1>8 DEF MainReady, t

\* The tables and what their threads are for stay.
TablesStay ==
  /\ UNCHANGED <<sys, range, threads, rangeless>>
  /\ \A w \in Worker : worker'[w].kind = worker[w].kind /\ worker'[w].for = worker[w].for

LEMMA DriversIfTablesStay ==
  ASSUME Drivers, TablesStay, MainReady'
  PROVE  Drivers'
BY DEF Drivers, TablesStay

\* What Main is called for is ready.
LEMMA FunctionsAreReady ==
  ASSUME HandOver, Drivers, NEW p \in Pin,
         \/ \E r \in Ranges, v \in Values : SoftPwmCreate(p, v, r)
         \/ SoftPwmStop(p) \/ SoftToneCreate(p) \/ SoftToneStop(p)
         \/ SetPinMode(p) \/ PinModeSoftPwm(p)
  PROVE  \E steps \in Seq(SoftStep) :
            Call(Main, steps) /\ \A i \in 1..Len(steps) : Ready(steps, i)
<1>1. Values \subseteq Int /\ Ranges \subseteq Int
  BY Parameters
<1>2. PinMode(p) \in Seq(SoftStep) /\ \A i \in 1..Len(PinMode(p)) : ~Makes(PinMode(p)[i])
  <2>1. PinMode(p) \in Seq(SoftStep)
    BY SoftFunctions
  <2>2. \A i \in 1..Len(PinMode(p)) : ~Makes(PinMode(p)[i])
    BY DEF PinMode, Step, Makes
  <2> QED BY <2>1, <2>2
<1>3. ASSUME NEW v \in Int, NEW r \in Int, sys => Clear("pwm", p)
      PROVE  /\ PwmCreate(p, v, r) \in Seq(SoftStep)
             /\ \A i \in 1..Len(PwmCreate(p, v, r)) : Ready(PwmCreate(p, v, r), i)
  <2> DEFINE last == [Step("create", "pwm", p) EXCEPT !.val = v, !.range = r]
  <2>1. last \in SoftStep
    BY <1>3 DEF Step, SoftStep, SoftOps
  <2>2. last.kind = "pwm" /\ last.pin = p /\ last.op = "create"
    BY DEF Step
  <2> HIDE DEF last
  <2>3. LET t == PinMode(p) \o <<Step("low", "pwm", p), last>>
        IN  t \in Seq(SoftStep) /\ \A i \in 1..Len(t) : Ready(t, i)
    BY <1>3, <2>1, <2>2, ReadyAfterPinMode DEF SoftKind
  <2> QED BY <2>3 DEF PwmCreate, last
<1>4. /\ ToneCreate(p) \in Seq(SoftStep)
      /\ \A i \in 1..Len(ToneCreate(p)) : Ready(ToneCreate(p), i)
  <2> DEFINE last == Step("toneIfFree", "tone", p)
  <2>1. last \in SoftStep
    BY StepTyped DEF SoftOps
  <2>2. last.kind = "tone" /\ last.pin = p /\ last.op = "toneIfFree"
    BY DEF Step
  <2> HIDE DEF last
  <2>3. LET t == PinMode(p) \o <<Step("low", "tone", p), last>>
        IN  t \in Seq(SoftStep) /\ \A i \in 1..Len(t) : Ready(t, i)
    BY <2>1, <2>2, ReadyAfterPinMode DEF SoftKind
  <2> QED BY <2>3 DEF ToneCreate, last
<1>5. ASSUME NEW k \in SoftKind
      PROVE  /\ <<Step("stop", k, p)>> \in Seq(SoftStep)
             /\ \A i \in 1..Len(<<Step("stop", k, p)>>) : Ready(<<Step("stop", k, p)>>, i)
  <2> DEFINE s == Step("stop", k, p)
  <2>1. s \in SoftStep
    BY StepTyped DEF SoftOps, SoftKind
  <2>2. ~Makes(s)
    BY DEF Makes, Step
  <2> HIDE DEF s
  <2>3. Len(<<s>>) = 1 /\ <<s>>[1] = s
    OBVIOUS
  <2> QED BY <2>1, <2>2, <2>3 DEF Ready, s
<1>6. <<>> \in Seq(SoftStep) /\ \A i \in 1..Len(<<>>) : Ready(<<>>, i)
  OBVIOUS
<1>7. ASSUME NEW r \in Ranges, NEW v \in Values, SoftPwmCreate(p, v, r)
      PROVE  \E steps \in Seq(SoftStep) :
                Call(Main, steps) /\ \A i \in 1..Len(steps) : Ready(steps, i)
  <2>1. CASE range[p] # 0
    BY <1>6, <1>7, <2>1 DEF SoftPwmCreate
  <2>2. CASE range[p] = 0
    <3>1. Clear("pwm", p)
      BY <2>2 DEF Clear, Drivers
    <3>2. Call(Main, PwmCreate(p, v, r))
      BY <1>7, <2>2 DEF SoftPwmCreate
    <3> QED BY <1>1, <1>3, <1>7, <3>1, <3>2
  <2> QED BY <2>1, <2>2
<1>8. CASE PinModeSoftPwm(p)
  <2>1. CASE sys
    BY <1>6, <1>8, <2>1 DEF PinModeSoftPwm
  <2>2. CASE ~sys
    <3> DEFINE t == PwmCreate(p, 0, 100)
    <3>1. t \in Seq(SoftStep) /\ \A i \in 1..Len(t) : Ready(t, i)
      <4>1. 0 \in Int /\ 100 \in Int /\ (sys => Clear("pwm", p))
        BY <2>2
      <4> QED BY <1>3, <4>1
    <3>2. Call(Main, PinMode(p) \o t)
      BY <1>8, <2>2 DEF PinModeSoftPwm
    <3> HIDE DEF t
    <3>3. PinMode(p) \o t \in Seq(SoftStep) /\ \A i \in 1..Len(PinMode(p) \o t) : Ready(PinMode(p) \o t, i)
      BY <1>2, <3>1, ReadyAfterMore
    <3> QED BY <3>2, <3>3
  <2> QED BY <2>1, <2>2
<1>9. CASE SetPinMode(p)
  BY <1>2, <1>9 DEF SetPinMode, Ready
<1>10. CASE SoftPwmStop(p)
  BY <1>5, <1>10 DEF SoftPwmStop, SoftKind
<1>11. CASE SoftToneStop(p)
  BY <1>5, <1>11 DEF SoftToneStop, SoftKind
<1>12. CASE SoftToneCreate(p)
  BY <1>4, <1>12 DEF SoftToneCreate
<1> QED BY <1>7, <1>8, <1>9, <1>10, <1>11, <1>12

LEMMA CallKeepsDrivers ==
  ASSUME HandOver, Drivers, SoftCall \/ IsrCall
  PROVE  Drivers'
<1>1. DOMAIN todo = Caller /\ Main \in Caller /\ MainReady
  BY DEF HandOver, Rest, Caller, Drivers
<1>2. ASSUME NEW steps \in Seq(SoftStep), Call(Main, steps),
             \A i \in 1..Len(steps) : Ready(steps, i)
      PROVE  TablesStay /\ MainReady'
  <2>1. todo'[Main] = steps /\ UNCHANGED <<sys, range, threads, rangeless, worker>>
    BY <1>1, <1>2 DEF Call, soft
  <2> QED BY <1>2, <2>1 DEF TablesStay, MainReady, Ready, Clear
<1>3. ASSUME NEW c \in Caller, NEW p \in Pin, WiringPiISR(c, p)
      PROVE  TablesStay /\ MainReady'
  <2>1. UNCHANGED <<sys, range, threads, rangeless, worker>> /\ todo' = [todo EXCEPT ![c] = Isr(p)]
    BY <1>3 DEF WiringPiISR, Call, soft
  <2>2. \A i \in 1..Len(Isr(p)) : ~Makes(Isr(p)[i])
    BY DEF Isr, Makes, Step, SoftKind
  <2>3. CASE c = Main
    BY <1>1, <2>1, <2>2, <2>3 DEF TablesStay, MainReady, Ready
  <2>4. CASE c # Main
    BY <1>1, <2>1, <2>4, ReadyIfNotMain DEF TablesStay, Cleared, Clear
  <2> QED BY <2>3, <2>4
<1>4. ASSUME NEW p \in Pin, \/ \E v \in Values : SoftPwmWrite(p, v)
                            \/ \E f \in Tones : SoftToneWrite(p, f)
      PROVE  TablesStay /\ MainReady'
  <2>1. UNCHANGED <<sys, range, threads, rangeless, worker, todo>>
    BY <1>4 DEF SoftPwmWrite, SoftToneWrite
  <2> QED BY <1>1, <2>1, ReadyIfNotMain DEF TablesStay, Cleared, Clear
<1>5. TablesStay /\ MainReady'
  <2>1. CASE IsrCall
    BY <1>3, <2>1 DEF IsrCall
  <2>2. CASE SoftCall
    <3>1. PICK p \in Pin :
            \/ \/ \E r \in Ranges, v \in Values : SoftPwmCreate(p, v, r)
               \/ SoftPwmStop(p) \/ SoftToneCreate(p) \/ SoftToneStop(p)
               \/ SetPinMode(p) \/ PinModeSoftPwm(p)
            \/ \E v \in Values : SoftPwmWrite(p, v)
            \/ \E f \in Tones : SoftToneWrite(p, f)
      BY <2>2 DEF SoftCall
    <3> QED BY <1>2, <1>4, <3>1, FunctionsAreReady
  <2> QED BY <2>1, <2>2
<1> QED BY <1>5, DriversIfTablesStay

\* The steps of callers that leave the tables.
LEMMA CallerKeepsTables ==
  ASSUME HandOver, Drivers, NEW c \in Caller,
         \/ StopNothing(c) \/ Cancel(c) \/ WriteLow(c) \/ ToneIfFree(c) \/ Await(c)
         \/ Open(c) \/ Lock(c) \/ Unlock(c)
  PROVE  Drivers'
<1>1. /\ Types /\ Rest /\ MainReady /\ DOMAIN todo = Caller /\ Main \in Caller
      /\ threads \in [SoftKind -> [Pin -> Worker \cup {None}]]
      /\ \A p \in Pin \ rangeless : range[p] = 0 => threads["pwm"][p] = None
  BY DEF HandOver, Rest, Caller, Drivers
<1>2. UNCHANGED <<sys, range, threads, rangeless>>
  BY DEF StopNothing, Cancel, WriteLow, ToneIfFree, Await, Open, Lock, Unlock, soft
<1>3. TablesStay
  <2>1. CASE worker' = worker
    BY <1>2, <2>1 DEF TablesStay
  <2>2. CASE Cancel(c)
    <3> DEFINE v == threads[Its(c).kind][Its(c).pin]
    <3>1. worker' = [worker EXCEPT ![v].cancel = TRUE]
      BY <2>2 DEF Cancel
    <3> HIDE DEF v
    <3> QED BY <1>1, <1>2, <3>1 DEF Types, Workers, TablesStay
  <2> QED BY <2>1, <2>2 DEF StopNothing, WriteLow, ToneIfFree, Await, Open, Lock, Unlock
<1>4. \A k \in SoftKind, p \in Pin : Cleared(k, p)
  BY <1>2 DEF Cleared, Clear
<1>5. MainReady'
  <2>1. CASE c # Main
    <3>1. todo'[Main] = todo[Main]
      BY <1>1, <2>1
      DEF StopNothing, Cancel, WriteLow, ToneIfFree, Await, Open, Lock, Unlock, Done, Now
    <3> QED BY <1>1, <1>2, <1>4, <3>1, ReadyIfNotMain
  <2>2. ASSUME c = Main, Done(c), \/ ~At(c, "stop") /\ ~At(c, "join") PROVE MainReady'
    <3>1. todo[Main] # <<>>
      BY <2>2 DEF StopNothing, Cancel, WriteLow, ToneIfFree, Await, Open, Lock, Unlock, At
    <3>2. \A k \in SoftKind, p \in Pin : ~StopsOf(Its(Main), k, p)
      BY <2>2, <3>1 DEF StopsOf, At, Its
    <3> QED BY <1>1, <1>2, <1>4, <2>2, <3>1, <3>2, ReadyIfDone
  <2>3. CASE c = Main /\ StopNothing(c)
    <3>1. /\ todo[Main] # <<>> /\ Done(Main) /\ Its(Main).op = "stop"
          /\ ~Running(Its(Main).kind, Its(Main).pin)
      BY <2>3 DEF StopNothing, At, Its
    <3>2. ASSUME NEW k \in SoftKind, NEW p \in Pin, StopsOf(Its(Main), k, p)
          PROVE  Clear(k, p)'
      BY <1>1, <1>2, <3>1, <3>2 DEF StopsOf, Running, Clear, SoftKind
    <3> QED BY <1>1, <1>2, <1>4, <3>1, <3>2, ReadyIfDone
  <2>4. CASE c = Main /\ Cancel(c)
    <3>1. todo[Main] # <<>> /\ Now(Main, "join") /\ Its(Main).op = "stop"
      BY <2>4 DEF Cancel, At, Its
    <3> QED BY <1>1, <1>2, <1>4, <3>1, ReadyIfNow DEF SoftOps
  <2>5. CASE c = Main /\ ToneIfFree(c)
    <3>1. /\ todo[Main] # <<>> /\ Its(Main).op = "toneIfFree"
          /\ Done(Main) \/ (Now(Main, "create") /\ threads["tone"][Its(Main).pin] = None)
      BY <2>5 DEF ToneIfFree, At, Its
    <3>2. CASE Done(Main)
      BY <2>2, <2>5, <3>1, <3>2 DEF At, Its
    <3>3. CASE Now(Main, "create") /\ threads["tone"][Its(Main).pin] = None
      <4>1. Its(Main) \in SoftStep
        BY <1>1, <3>1, HeadOfRest DEF IsrStep
      <4>2. Makes(Its(Main))
        BY <3>1, <4>1 DEF Makes, SoftStep, SoftKind
      <4> QED BY <1>1, <1>2, <3>1, <3>3, <4>2, ReadyIfNow DEF SoftOps
    <3> QED BY <3>1, <3>2, <3>3
  <2>6. CASE c = Main /\ (WriteLow(c) \/ Await(c) \/ Lock(c) \/ Unlock(c))
    <3>1. Done(c) /\ ~At(c, "stop") /\ ~At(c, "join")
      BY <2>6 DEF WriteLow, Await, Lock, Unlock, At
    <3> QED BY <2>2, <2>6, <3>1
  <2>7. CASE c = Main /\ Open(c)
    <3>1. ~At(c, "stop") /\ ~At(c, "join") /\ (Done(c) \/ todo' = [todo EXCEPT ![c] = <<>>])
      BY <2>7 DEF Open, At
    <3>2. CASE todo' = [todo EXCEPT ![c] = <<>>]
      <4>1. todo'[Main] = <<>>
        BY <1>1, <2>7, <3>2
      <4> QED BY <4>1 DEF MainReady
    <3> QED BY <2>2, <2>7, <3>1, <3>2
  <2> QED BY <2>1, <2>3, <2>4, <2>5, <2>6, <2>7
<1> QED BY <1>3, <1>5, DriversIfTablesStay

\* A thread that has ended leaves the tables.
LEMMA JoinKeepsDrivers ==
  ASSUME HandOver, Drivers, NEW c \in Caller, Join(c)
  PROVE  Drivers'
<1> DEFINE k == Its(c).kind
           p == Its(c).pin
           w == threads[k][p]
<1>1. /\ Types /\ Rest /\ MainReady /\ DOMAIN todo = Caller /\ todo[c] # <<>>
      /\ Its(c).op = "join" /\ Done(c) /\ UNCHANGED <<sys, rangeless>>
  BY DEF HandOver, Rest, Drivers, Join, At, Its
<1>2. c = Main /\ k \in SoftKind /\ p \in Pin
  <2>1. SoftRest(c) /\ Its(c) \in SoftStep
    BY <1>1, HeadOfRest DEF IsrStep
  <2> QED BY <2>1 DEF SoftRest, SoftStep, SoftKind
<1>3. /\ worker' = [worker EXCEPT ![w] = Free]
      /\ range' = IF k = "pwm" THEN [range EXCEPT ![p] = 0] ELSE range
      /\ threads' = [threads EXCEPT ![k][p] = None]
  BY DEF Join
<1> HIDE DEF w, k, p
<1>4. threads \in [SoftKind -> [Pin -> Worker \cup {None}]]
  BY DEF Drivers
<1>5. /\ threads' \in [SoftKind -> [Pin -> Worker \cup {None}]]
      /\ threads'[k][p] = None
      /\ \A j \in SoftKind, q \in Pin : <<j, q>> # <<k, p>> => threads'[j][q] = threads[j][q]
  BY <1>2, <1>3, <1>4
<1>6. /\ k = "pwm" => range'[p] = 0
      /\ \A q \in Pin : k # "pwm" \/ q # p => range'[q] = range[q]
  BY <1>1, <1>2, <1>3 DEF Types
<1>7. ASSUME NEW x \in Worker, NEW q \in Pin, worker'[x].kind \in SoftKind, worker'[x].for = q
      PROVE  threads'[worker'[x].kind][q] = x \/ (worker'[x].kind = "pwm" /\ q \in rangeless)
  <2>1. x # w /\ worker'[x] = worker[x]
    BY <1>1, <1>3, <1>7 DEF Types, Free, SoftKind
  <2>2. threads[worker[x].kind][q] = x \/ (worker[x].kind = "pwm" /\ q \in rangeless)
    BY <1>7, <2>1 DEF Drivers
  <2> QED BY <1>5, <1>7, <2>1, <2>2 DEF w
<1>8. \A q \in Pin \ rangeless : range'[q] = 0 => threads'["pwm"][q] = None
  BY <1>5, <1>6 DEF Drivers, SoftKind
<1>9. ~sys' => \A q \in Pin \ rangeless : threads'["pwm"][q] = None \/ threads'["tone"][q] = None
  BY <1>1, <1>5 DEF Drivers, SoftKind
<1>10. MainReady'
  <2>1. \A j \in SoftKind, q \in Pin : Cleared(j, q)
    BY <1>1, <1>5, <1>6 DEF Cleared, Clear
  <2>2. \A j \in SoftKind, q \in Pin : StopsOf(Its(Main), j, q) => Clear(j, q)'
    BY <1>2, <1>5, <1>6 DEF StopsOf, Clear, k, p
  <2> QED BY <1>1, <1>2, <2>1, <2>2, ReadyIfDone
<1>11. rangeless' = rangeless
  BY <1>1
<1> QED BY <1>5, <1>7, <1>8, <1>9, <1>10, <1>11 DEF Drivers

\* A thread that is made finds nothing that drives its pin.
LEMMA CreateKeepsDrivers ==
  ASSUME HandOver, Drivers, NEW c \in Caller, Create(c)
  PROVE  Drivers'
<1> DEFINE k == Its(c).kind
           p == Its(c).pin
<1>1. /\ Types /\ Rest /\ MainReady /\ DOMAIN todo = Caller /\ todo[c] # <<>>
      /\ Its(c).op = "create" /\ Now(c, "await") /\ sys' = sys
  BY DEF HandOver, Rest, Drivers, Create, At, Its
<1>2. threads \in [SoftKind -> [Pin -> Worker \cup {None}]] /\ p \in Pin /\ k \in Kind
  BY <1>1, ClearAtCreate DEF Drivers, At, Its
<1>3. /\ rangeless' = IF k = "pwm" /\ Its(c).range = 0 THEN rangeless \cup {p} ELSE rangeless
      /\ range' = IF k = "pwm" THEN [range EXCEPT ![p] = Its(c).range] ELSE range
      /\ \/ \E w \in Worker :
              /\ worker' = [worker EXCEPT ![w] = [Free EXCEPT !.kind = k, !.pc = "start", !.for = p]]
              /\ threads' = IF k = "isr" THEN threads ELSE [threads EXCEPT ![k][p] = w]
         \/ worker' = worker /\ threads' = threads
  BY DEF Create
<1>4. CASE SoftRest(c) /\ Its(c) \in SoftStep
  <2>1. c = Main /\ k \in SoftKind /\ k # "isr" /\ Makes(Its(c))
    BY <1>1, <1>4 DEF SoftRest, SoftStep, SoftKind, Makes
  <2>2. Clear(k, p) /\ (~sys => \A j \in SoftKind : Clear(j, p))
    <3>1. Ready(todo[c], 1) /\ todo[c][1] = Its(c)
      BY <1>1, <1>4, <2>1 DEF MainReady, SoftRest, Its
    <3> QED BY <1>1, <2>1, <3>1 DEF Ready
  <2>3. MainReady'
    BY <1>1, <2>1, ReadyIfNow DEF SoftOps
  <2> HIDE DEF k, p
  <2>4. /\ k = "pwm" /\ p \notin rangeless' => range'[p] # 0
        /\ rangeless \subseteq rangeless'
        /\ \A q \in Pin : k # "pwm" \/ q # p => range'[q] = range[q]
    BY <1>1, <1>2, <1>3, <2>2 DEF Types
  <2>5. CASE worker' = worker /\ threads' = threads
    <3>1. \A q \in Pin \ rangeless' : range'[q] = 0 => threads["pwm"][q] = None
      BY <2>4 DEF Drivers
    <3> QED BY <1>1, <2>3, <2>4, <2>5, <3>1 DEF Drivers
  <2>6. ASSUME NEW w \in Worker,
               worker' = [worker EXCEPT ![w] = [Free EXCEPT !.kind = k, !.pc = "start", !.for = p]],
               threads' = [threads EXCEPT ![k][p] = w]
        PROVE  Drivers'
    <3>1. /\ threads' \in [SoftKind -> [Pin -> Worker \cup {None}]]
          /\ threads'[k][p] = w
          /\ \A j \in SoftKind, q \in Pin : <<j, q>> # <<k, p>> => threads'[j][q] = threads[j][q]
      BY <1>2, <2>1, <2>6
    <3>2. /\ worker'[w].kind = k /\ worker'[w].for = p
          /\ \A x \in Worker \ {w} : worker'[x] = worker[x]
      BY <1>1, <2>6 DEF Types, Free
    <3>3. ASSUME NEW x \in Worker, NEW q \in Pin, worker'[x].kind \in SoftKind, worker'[x].for = q
          PROVE  threads'[worker'[x].kind][q] = x \/ (worker'[x].kind = "pwm" /\ q \in rangeless')
      <4>1. CASE x = w
        BY <3>1, <3>2, <3>3, <4>1
      <4>2. CASE x # w
        <5>1. /\ threads[worker[x].kind][q] = x \/ (worker[x].kind = "pwm" /\ q \in rangeless)
              /\ worker[x].kind \in SoftKind
          BY <3>2, <3>3, <4>2 DEF Drivers
        <5>2. (threads[k][p] = None \/ (k = "pwm" /\ p \in rangeless)) /\ None \notin Worker
          BY <2>2, Parameters DEF Clear
        <5> QED BY <2>4, <3>1, <3>2, <3>3, <4>2, <5>1, <5>2
      <4> QED BY <4>1, <4>2
    <3>4. \A q \in Pin \ rangeless' : range'[q] = 0 => threads'["pwm"][q] = None
      BY <2>4, <3>1 DEF Drivers, SoftKind
    <3>5. ~sys' => \A q \in Pin \ rangeless' : threads'["pwm"][q] = None \/ threads'["tone"][q] = None
      BY <1>1, <2>1, <2>2, <2>4, <3>1 DEF Drivers, SoftKind, Clear
    <3> QED BY <2>3, <2>4, <3>1, <3>3, <3>4, <3>5 DEF Drivers
  <2> QED BY <1>3, <2>1, <2>5, <2>6
<1>5. CASE IsrRest(c) /\ Its(c) \in IsrStep
  <2>1. k = "isr"
    BY <1>5 DEF IsrStep
  <2>2. UNCHANGED <<range, threads, rangeless>>
    BY <1>3, <2>1
  <2>3. \A j \in SoftKind, q \in Pin : Cleared(j, q)
    BY <2>2 DEF Cleared, Clear
  <2>4. MainReady'
    <3>1. CASE c = Main
      BY <1>1, <2>3, <3>1, ReadyIfNow DEF SoftOps
    <3>2. CASE c # Main
      <4>1. todo'[Main] = todo[Main]
        BY <1>1, <3>2 DEF Now, Caller
      <4> QED BY <1>1, <2>3, <4>1, ReadyIfNotMain
    <3> QED BY <3>1, <3>2
  <2> HIDE DEF k, p
  <2>5. \A x \in Worker : worker'[x] = worker[x] \/ worker'[x].kind = "isr"
    BY <1>1, <1>3, <2>1 DEF Types, Free
  <2> QED BY <1>1, <2>2, <2>4, <2>5 DEF Drivers, SoftKind
<1> QED BY <1>1, <1>4, <1>5, HeadOfRest

LEMMA WorkerKeepsDrivers ==
  ASSUME HandOver, Drivers, NEW w \in Worker, WorkerStep(w)
  PROVE  Drivers'
<1>1. /\ Types /\ MainReady /\ worker[w] \in Workers
      /\ UNCHANGED <<sys, range, threads, rangeless, todo>>
  BY DEF HandOver, Types, Drivers, WorkerStep, TakePin, ClearPin, End, High, Low, Again, Silent,
         Wake, Serve, soft
<1>2. \A x \in Worker : worker'[x].kind = worker[x].kind /\ worker'[x].for = worker[x].for
  <2>1. CASE ClearPin(w) \/ End(w) \/ Wake(w) \/ Serve(w)
    <3>1. \E pc : worker' = [worker EXCEPT ![w] = [worker[w] EXCEPT !.pc = pc]]
      BY <2>1 DEF ClearPin, End, Wake, Serve, ReadAndCall, Moves, Becomes
    <3> QED BY <1>1, <3>1 DEF Types, Workers
  <2>2. CASE TakePin(w)
    <3>1. worker' = [worker EXCEPT ![w] = [worker[w] EXCEPT !.pc = "clear",
                                                              !.pin = newPin[worker[w].kind]]]
      BY <2>2 DEF TakePin, Becomes
    <3> QED BY <1>1, <3>1 DEF Types, Workers
  <2>3. CASE High(w)
    <3>1. worker' = [worker EXCEPT ![w] = [worker[w] EXCEPT !.pc = "high", !.nap = HighTime(w),
                                                              !.space = LowTime(w)]]
      BY <2>3 DEF High, Becomes
    <3> QED BY <1>1, <3>1 DEF Types, Workers
  <2>4. CASE Low(w)
    <3>1. worker' = [worker EXCEPT ![w] = [worker[w] EXCEPT !.pc = "low", !.nap = worker[w].space,
                                                              !.space = 0]]
      BY <2>4 DEF Low, Becomes
    <3> QED BY <1>1, <3>1 DEF Types, Workers
  <2>5. CASE Again(w)
    <3>1. worker' = [worker EXCEPT ![w] = [worker[w] EXCEPT !.pc = "loop", !.nap = 0]]
      BY <2>5 DEF Again, Becomes
    <3> QED BY <1>1, <3>1 DEF Types, Workers
  <2>6. CASE Silent(w)
    <3>1. worker' = [worker EXCEPT ![w] = [worker[w] EXCEPT !.pc = "low", !.nap = Pause]]
      BY <2>6 DEF Silent, Becomes
    <3> QED BY <1>1, <3>1 DEF Types, Workers
  <2> QED BY <2>1, <2>2, <2>3, <2>4, <2>5, <2>6 DEF WorkerStep
<1>3. TablesStay
  BY <1>1, <1>2 DEF TablesStay, Types
<1>4. MainReady'
  BY <1>1, ReadyIfNotMain DEF Cleared, Clear
<1> QED BY <1>3, <1>4, DriversIfTablesStay

\* The tables agree with the threads, and what is yet to be made is made after
\* what drives the pin has been stopped.
THEOREM DriversInvariant == Spec => []Drivers
<1>1. Init => Drivers
  BY DriversInit
<1>2. HandOver /\ Drivers /\ [Next]_vars => Drivers'
  <2> SUFFICES ASSUME HandOver, Drivers, [Next]_vars PROVE Drivers'
    OBVIOUS
  <2>1. CASE SoftCall \/ IsrCall
    BY <2>1, CallKeepsDrivers
  <2>2. ASSUME NEW c \in Caller, CallStep(c) PROVE Drivers'
    BY <2>2, CallerKeepsTables, JoinKeepsDrivers, CreateKeepsDrivers DEF CallStep
  <2>3. ASSUME NEW w \in Worker, WorkerStep(w) PROVE Drivers'
    BY <2>3, WorkerKeepsDrivers
  <2>4. CASE UNCHANGED vars \/ \E p \in Pin : Edge(p)
    <3>1. UNCHANGED <<sys, range, threads, rangeless, todo, worker>> /\ MainReady
      BY <2>4 DEF Edge, vars, soft, Drivers
    <3> QED BY <3>1, ReadyIfNotMain, DriversIfTablesStay DEF TablesStay, Cleared, Clear
  <2> QED BY <2>1, <2>2, <2>3, <2>4 DEF Next
<1> QED BY <1>1, <1>2, HandOverInvariant, PTL DEF Spec

\* With the registers mapped one thread at most drives a pin.
THEOREM PinsHaveOneDriver == Spec => []OneDriver
BY DriversInvariant, HandOverInvariant, DriversGiveOneDriver, PTL

-----------------------------------------------------------------------------
(* Types.                                                                  *)

Others ==
  /\ uses \in Programs /\ sys \in BOOLEAN
  /\ freqs \in [Pin -> 0..MaxTone] /\ level \in [Pin -> {0, 1}]
  /\ sysFds \subseteq Pin /\ edge \subseteq sysFds /\ unserved \subseteq sysFds
  /\ rangeless \subseteq Pin /\ unfit \subseteq Pin

LEMMA StepsHaveTypes == AnyStep \subseteq Steps
BY DEF AnyStep, SoftStep, IsrStep, SoftOps, Steps, Kind

LEMMA PartsGiveTypes == HandOver /\ Drivers /\ Others => TypeOK
<1> SUFFICES ASSUME HandOver, Drivers, Others PROVE TypeOK
  OBVIOUS
<1>1. \A c \in Caller : todo[c] \in Seq(Steps)
  <2> TAKE c \in Caller
  <2>1. todo[c] \in Seq(AnyStep)
    BY RestTyped DEF HandOver
  <2> QED BY <2>1, StepsHaveTypes
<1>2. worker \in [Worker ->
       [kind : Kind \cup {"none"}, pin : Pin \cup {None}, for : Pin \cup {None},
        pc : {"free", "start", "clear", "loop", "high", "low", "woken", "called", "ended"},
        nap : Int, space : Int, cancel : BOOLEAN]]
  BY DEF HandOver, Types, Workers
<1>3. /\ marks \in [Pin -> Int] /\ range \in [Pin -> Int]
      /\ newPin \in [Kind -> Pin \cup {None}] /\ pinMutex \in Caller \cup {None}
      /\ threads \in [{"pwm", "tone"} -> [Pin -> Worker \cup {None}]]
  BY DEF HandOver, Types, Drivers, SoftKind
<1>4. /\ uses \in Programs /\ sys \in BOOLEAN
      /\ freqs \in [Pin -> 0..MaxTone] /\ level \in [Pin -> {0, 1}]
      /\ sysFds \subseteq Pin /\ edge \subseteq sysFds /\ unserved \subseteq sysFds
      /\ rangeless \subseteq Pin /\ unfit \subseteq Pin
  BY DEF Others
<1> QED BY <1>1, <1>2, <1>3, <1>4, Zenon DEF TypeOK

LEMMA ExceptHasType ==
  ASSUME NEW S, NEW T, NEW f \in [S -> T], NEW x, NEW v \in T
  PROVE  [f EXCEPT ![x] = v] \in [S -> T]
OBVIOUS

LEMMA OthersKeepTypes ==
  ASSUME HandOver, Others, [Next]_vars
  PROVE  Others'
<1>1. Types /\ Rest
  BY DEF HandOver
<1>2. ASSUME NEW c, NEW steps, Call(c, steps)
      PROVE  UNCHANGED <<uses, sys, freqs, level, sysFds, edge, unserved, rangeless, unfit>>
  BY <1>2 DEF Call, soft, isr
<1>3. CASE SoftCall \/ IsrCall
  <2>1. CASE IsrCall
    BY <1>2, <2>1 DEF IsrCall, WiringPiISR, Others
  <2>2. ASSUME NEW p \in Pin, NEW v \in Values, SoftPwmWrite(p, v)
        PROVE  UNCHANGED <<uses, sys, freqs, level, sysFds, edge, unserved, rangeless, unfit>>
    BY <2>2 DEF SoftPwmWrite, isr
  <2>3. ASSUME NEW p \in Pin, NEW f \in Tones, SoftToneWrite(p, f) PROVE Others'
    <3>1. AtMost5kHz(f) \in 0..MaxTone
      BY Parameters DEF AtMost5kHz, MaxTone
    <3>2. /\ freqs' = [freqs EXCEPT ![p] = AtMost5kHz(f)]
          /\ UNCHANGED <<uses, sys, level, sysFds, edge, unserved, rangeless, unfit>>
      BY <2>3 DEF SoftToneWrite, isr
    <3>3. freqs' \in [Pin -> 0..MaxTone]
      BY <3>1, <3>2, ExceptHasType DEF Others
    <3> QED BY <3>2, <3>3 DEF Others
  <2>4. CASE SoftCall
    <3>1. PICK p \in Pin : \/ \E steps : Call(Main, steps)
                           \/ \E v \in Values : SoftPwmWrite(p, v)
                           \/ \E f \in Tones : SoftToneWrite(p, f)
      BY <2>4 DEF SoftCall, SoftPwmCreate, SoftPwmStop, SoftToneCreate, SoftToneStop,
                  SetPinMode, PinModeSoftPwm
    <3> QED BY <1>2, <2>2, <2>3, <3>1 DEF Others
  <2> QED BY <1>3, <2>1, <2>4
<1>4. ASSUME NEW c \in Caller, CallStep(c) PROVE Others'
  <2>1. CASE StopNothing(c) \/ Cancel(c) \/ ToneIfFree(c) \/ Await(c) \/ Lock(c) \/ Unlock(c)
    BY <2>1 DEF StopNothing, Cancel, ToneIfFree, Await, Lock, Unlock, soft, isr, Others
  <2>2. CASE Join(c) \/ WriteLow(c)
    BY <2>2 DEF Join, LeftLow, WriteLow, soft, isr, Others
  <2>3. CASE Create(c)
    <3>1. /\ freqs' = freqs \/ freqs' = [freqs EXCEPT ![Its(c).pin] = 0]
          /\ UNCHANGED <<uses, sys, level, sysFds, edge, unserved>>
          /\ rangeless' \subseteq rangeless \cup {Its(c).pin}
          /\ unfit' \subseteq unfit \cup {Its(c).pin}
      BY <2>3 DEF Create, isr
    <3>2. 0 \in 0..MaxTone
      BY DEF MaxTone
    <3>3. freqs' \in [Pin -> 0..MaxTone]
      BY <3>1, <3>2, ExceptHasType DEF Others
    <3>4. Its(c).pin \in Pin
      BY <1>1, <2>3, HeadOfRest DEF Create, At, SoftStep, IsrStep
    <3> QED BY <3>1, <3>3, <3>4 DEF Others
  <2>4. CASE Open(c)
    <3>1. Its(c).pin \in Pin
      BY <1>1, <2>4, HeadOfRest DEF Open, At, SoftStep, IsrStep
    <3>2. UNCHANGED <<uses, sys, freqs, level, rangeless, unfit>>
      BY <2>4 DEF Open, soft
    <3>3. \/ /\ sysFds' = sysFds \cup {Its(c).pin}
             /\ edge' = edge \ {Its(c).pin} /\ unserved' = unserved \ {Its(c).pin}
          \/ UNCHANGED <<sysFds, edge, unserved>>
      BY <2>4 DEF Open
    <3> QED BY <3>1, <3>2, <3>3 DEF Others
  <2> QED BY <1>4, <2>1, <2>2, <2>3, <2>4 DEF CallStep
<1>5. ASSUME NEW w \in Worker, WorkerStep(w) PROVE Others'
  <2>1. CASE TakePin(w) \/ ClearPin(w) \/ End(w) \/ Again(w) \/ Silent(w) \/ Wake(w)
    BY <2>1 DEF TakePin, ClearPin, End, Again, Silent, Wake, soft, isr, Others
  <2>2. CASE High(w) \/ Low(w)
    BY <2>2 DEF High, Low, soft, isr, Others
  <2>3. CASE Serve(w)
    BY <2>3 DEF Serve, ReadAndCall, soft, Others
  <2> QED BY <1>5, <2>1, <2>2, <2>3 DEF WorkerStep
<1>6. ASSUME NEW p \in Pin, Edge(p) PROVE Others'
  BY <1>6 DEF Edge, soft, Others
<1>7. CASE UNCHANGED vars
  BY <1>7 DEF vars, soft, isr, Others
<1> QED BY <1>3, <1>4, <1>5, <1>6, <1>7 DEF Next

\* Every variable keeps its type.
THEOREM TypeCorrect == Spec => []TypeOK
<1>1. Init => Others
  <2>1. 0 \in 0..MaxTone
    BY DEF MaxTone
  <2> QED BY <2>1 DEF Init, Others
<1>2. HandOver /\ Others /\ [Next]_vars => Others'
  BY OthersKeepTypes
<1> QED BY <1>1, <1>2, PartsGiveTypes, HandOverInvariant, DriversInvariant, PTL DEF Spec

-----------------------------------------------------------------------------
(* No sleep of a negative time.                                            *)

\* A thread other than the PWM of a pin that was given a value or a range that
\* it is not meant for.
Suited(w) == ~(worker[w].kind = "pwm" /\ worker[w].for \in unfit)

\* Where a PWM is suited its mark fits its range, and with that both halves of
\* its round are times.
Fits(w) ==
  Suited(w) =>
    /\ worker[w].nap >= 0 /\ worker[w].space >= 0
    /\ worker[w].kind = "pwm" /\ worker[w].pc \notin {"free", "ended"} =>
         0 <= marks[worker[w].for] /\ marks[worker[w].for] <= range[worker[w].for]

Sleeps == rangeless \subseteq unfit /\ \A w \in Worker : Fits(w)

LEMMA SleepsGiveNoHour == Types /\ Sleeps => NoHourSleep
BY DEF Types, Workers, Sleeps, Fits, Suited, NoHourSleep

\* Nothing that a thread sleeps by changes.
LEMMA SleepsIfSame ==
  ASSUME Sleeps, UNCHANGED <<marks, range, rangeless, unfit>>,
         \A w \in Worker :
           /\ worker'[w].nap = worker[w].nap /\ worker'[w].kind = worker[w].kind
           /\ worker'[w].for = worker[w].for /\ worker'[w].space = worker[w].space
           /\ worker'[w].pc \notin {"free", "ended"} => worker[w].pc \notin {"free", "ended"}
  PROVE  Sleeps'
BY DEF Sleeps, Fits, Suited

LEMMA CallKeepsSleeps ==
  ASSUME HandOver, Sleeps, SoftCall \/ IsrCall
  PROVE  Sleeps'
<1>1. Types /\ Values \subseteq Int
  BY Parameters DEF HandOver
<1>2. ASSUME NEW c, NEW steps, Call(c, steps) PROVE Sleeps'
  <2>1. UNCHANGED <<marks, range, rangeless, unfit, worker>>
    BY <1>2 DEF Call, soft
  <2> QED BY <2>1, SleepsIfSame
<1>3. ASSUME NEW p \in Pin, NEW f \in Tones, SoftToneWrite(p, f) PROVE Sleeps'
  BY <1>3, SleepsIfSame DEF SoftToneWrite
<1>4. ASSUME NEW p \in Pin, NEW v \in Values, SoftPwmWrite(p, v) PROVE Sleeps'
  <2>1. /\ UNCHANGED <<range, rangeless, unfit, worker>>
        /\ marks'[p] = Clamped(p, v) /\ \A q \in Pin \ {p} : marks'[q] = marks[q]
    BY <1>1, <1>4 DEF SoftPwmWrite, Types
  <2>2. range[p] >= 0 => Clamped(p, v) \in 0..range[p]
    BY <1>1 DEF Clamped, Types
  <2>3. \A w \in Worker : worker[w].pc # "free" => worker[w].for \in Pin
    BY DEF HandOver, Knows
  <2>4. \A q \in Pin : marks[q] \in Int /\ range[q] \in Int
    BY <1>1 DEF Types
  <2>5. ASSUME NEW w \in Worker PROVE Fits(w)'
    <3>1. CASE worker[w].pc = "free"
      BY <2>1, <3>1 DEF Sleeps, Fits, Suited
    <3>2. CASE worker[w].pc # "free" /\ worker[w].for = p
      BY <2>1, <2>2, <2>4, <3>2 DEF Sleeps, Fits, Suited
    <3>3. CASE worker[w].pc # "free" /\ worker[w].for # p
      BY <2>1, <2>3, <3>3 DEF Sleeps, Fits, Suited
    <3> QED BY <3>1, <3>2, <3>3
  <2> QED BY <2>1, <2>5 DEF Sleeps
<1>5. CASE IsrCall
  BY <1>2, <1>5 DEF IsrCall, WiringPiISR
<1>6. CASE SoftCall
  <2>1. PICK p \in Pin : \/ \E steps : Call(Main, steps)
                         \/ \E v \in Values : SoftPwmWrite(p, v)
                         \/ \E f \in Tones : SoftToneWrite(p, f)
    BY <1>6 DEF SoftCall, SoftPwmCreate, SoftPwmStop, SoftToneCreate, SoftToneStop,
                SetPinMode, PinModeSoftPwm
  <2> QED BY <1>2, <1>3, <1>4, <2>1
<1> QED BY <1>5, <1>6

LEMMA CallerKeepsSleeps ==
  ASSUME HandOver, Drivers, Sleeps, NEW c \in Caller, CallStep(c), ~Join(c), ~Create(c)
  PROVE  Sleeps'
<1>1. UNCHANGED <<marks, range, rangeless, unfit>>
  BY DEF CallStep, StopNothing, Cancel, WriteLow, ToneIfFree, Await, Open, Lock, Unlock, soft
<1>2. CASE Cancel(c)
  <2> DEFINE v == threads[Its(c).kind][Its(c).pin]
  <2>1. worker' = [worker EXCEPT ![v].cancel = TRUE] /\ Types
    BY <1>2 DEF Cancel, HandOver
  <2> HIDE DEF v
  <2>2. \A w \in Worker :
          /\ worker'[w].nap = worker[w].nap /\ worker'[w].kind = worker[w].kind
          /\ worker'[w].for = worker[w].for /\ worker'[w].pc = worker[w].pc
          /\ worker'[w].space = worker[w].space
    BY <2>1 DEF Types, Workers
  <2> QED BY <1>1, <2>2, SleepsIfSame
<1>3. CASE ~Cancel(c)
  <2>1. worker' = worker
    BY <1>3 DEF CallStep, StopNothing, WriteLow, ToneIfFree, Await, Open, Lock, Unlock
  <2> QED BY <1>1, <2>1, SleepsIfSame
<1> QED BY <1>2, <1>3

\* The range that is reset is that of the thread that has ended.
LEMMA JoinKeepsSleeps ==
  ASSUME HandOver, Drivers, Sleeps, NEW c \in Caller, Join(c)
  PROVE  Sleeps'
<1> DEFINE k == Its(c).kind
           p == Its(c).pin
           w == threads[k][p]
<1>1. /\ Types /\ UNCHANGED <<marks, rangeless, unfit>> /\ worker[w].pc = "ended"
      /\ worker' = [worker EXCEPT ![w] = Free]
      /\ range' = IF k = "pwm" THEN [range EXCEPT ![p] = 0] ELSE range
  BY DEF Join, HandOver
<1> HIDE DEF k, p
<1>2. ASSUME NEW x \in Worker PROVE Fits(x)'
  <2> HIDE DEF w
  <2>1. CASE x = w
    BY <1>1, <2>1 DEF Types, Fits, Suited, Free
  <2>2. CASE x # w
    <3>1. worker'[x] = worker[x] /\ Fits(x)
      BY <1>1, <2>2 DEF Types, Sleeps
    <3>2. worker[x].kind = "pwm" /\ worker[x].pc # "free" => worker[x].for \in Pin
      BY DEF HandOver, Knows
    <3>3. worker[x].kind = "pwm" /\ worker[x].for \in Pin \ unfit => threads["pwm"][worker[x].for] = x
      BY DEF Drivers, SoftKind, Sleeps
    <3>4. worker[x].kind = "pwm" /\ worker[x].for \in Pin \ unfit => ~(k = "pwm" /\ worker[x].for = p)
      BY <2>2, <3>3 DEF w
    <3>5. worker[x].kind = "pwm" /\ worker[x].pc # "free" /\ worker[x].for \notin unfit =>
            range'[worker[x].for] = range[worker[x].for]
      BY <1>1, <3>2, <3>4 DEF Types
    <3>6. CASE worker[x].kind = "pwm" /\ worker[x].pc # "free" /\ worker[x].for \notin unfit
      BY <1>1, <3>1, <3>5, <3>6 DEF Fits, Suited
    <3>7. CASE ~(worker[x].kind = "pwm" /\ worker[x].pc # "free" /\ worker[x].for \notin unfit)
      BY <1>1, <3>1, <3>7 DEF Fits, Suited
    <3> QED BY <3>6, <3>7
  <2> QED BY <2>1, <2>2
<1>3. rangeless' \subseteq unfit'
  BY <1>1 DEF Sleeps
<1> QED BY <1>2, <1>3 DEF Sleeps

LEMMA CreateKeepsSleeps ==
  ASSUME HandOver, Drivers, Sleeps, NEW c \in Caller, Create(c)
  PROVE  Sleeps'
<1> DEFINE k == Its(c).kind
           p == Its(c).pin
           v == Its(c).val
           r == Its(c).range
<1>1. /\ Types /\ Rest /\ MainReady /\ todo[c] # <<>> /\ Its(c).op = "create"
  BY DEF HandOver, Rest, Drivers, Create, At, Its
<1>2. p \in Pin /\ k \in Kind /\ None \notin Worker /\ v \in Int /\ r \in Int
  BY <1>1, ClearAtCreate, HeadOfRest, Parameters DEF Drivers, At, Its, SoftStep, IsrStep
<1>3. /\ marks' = IF k = "pwm" THEN [marks EXCEPT ![p] = v] ELSE marks
      /\ range' = IF k = "pwm" THEN [range EXCEPT ![p] = r] ELSE range
      /\ rangeless' = IF k = "pwm" /\ r = 0 THEN rangeless \cup {p} ELSE rangeless
      /\ unfit' = IF k = "pwm" /\ ~Suits(v, r) THEN unfit \cup {p} ELSE unfit
      /\ \/ \E w \in Worker :
              worker' = [worker EXCEPT ![w] = [Free EXCEPT !.kind = k, !.pc = "start", !.for = p]]
         \/ worker' = worker
  BY DEF Create
<1>4. k = "pwm" => Clear("pwm", p)
  <2> SUFFICES ASSUME k = "pwm" PROVE Clear("pwm", p)
    OBVIOUS
  <2>1. SoftRest(c) /\ Its(c) \in SoftStep
    BY <1>1, HeadOfRest DEF IsrStep
  <2>2. c = Main /\ Makes(Its(c)) /\ Ready(todo[c], 1) /\ todo[c][1] = Its(c)
    BY <1>1, <2>1 DEF MainReady, SoftRest, Its, Makes, SoftKind, SoftStep
  <2> QED BY <1>1, <2>2 DEF Ready, SoftKind
<1>5. \A x \in Worker : worker[x].kind = "pwm" /\ k = "pwm" /\ p \notin unfit => worker[x].for # p
  BY <1>2, <1>4 DEF Drivers, Clear, SoftKind, Sleeps
<1> HIDE DEF k, p, v, r
<1>6. rangeless' \subseteq unfit' /\ unfit \subseteq unfit'
  BY <1>3 DEF Sleeps, Suits
<1>7. ASSUME NEW x \in Worker, worker'[x] = worker[x] PROVE Fits(x)'
  <2>1. Fits(x) /\ (worker[x].pc # "free" => worker[x].for \in Pin)
    BY DEF Sleeps, HandOver, Knows
  <2>2. worker[x].kind = "pwm" /\ worker[x].pc # "free" /\ worker[x].for \notin unfit =>
          marks'[worker[x].for] = marks[worker[x].for] /\ range'[worker[x].for] = range[worker[x].for]
    BY <1>1, <1>2, <1>3, <1>5, <2>1 DEF Types
  <2>3. CASE worker[x].kind = "pwm" /\ worker[x].pc # "free" /\ worker[x].for \notin unfit
    BY <1>7, <2>1, <2>2, <2>3 DEF Fits, Suited
  <2>4. CASE ~(worker[x].kind = "pwm" /\ worker[x].pc # "free" /\ worker[x].for \notin unfit)
    BY <1>6, <1>7, <2>1, <2>4 DEF Fits, Suited
  <2> QED BY <2>3, <2>4
<1>8. ASSUME NEW w \in Worker,
             worker' = [worker EXCEPT ![w] = [Free EXCEPT !.kind = k, !.pc = "start", !.for = p]]
      PROVE  Sleeps'
  <2>1. /\ worker'[w].kind = k /\ worker'[w].pc = "start" /\ worker'[w].for = p
        /\ worker'[w].nap = 0 /\ worker'[w].space = 0
        /\ \A x \in Worker \ {w} : worker'[x] = worker[x]
    BY <1>1, <1>8 DEF Types, Free
  <2>2. k = "pwm" /\ p \notin unfit' => 0 <= marks'[p] /\ marks'[p] <= range'[p]
    BY <1>1, <1>2, <1>3 DEF Types, Suits
  <2>3. Fits(w)'
    BY <2>1, <2>2 DEF Fits, Suited
  <2> QED BY <1>6, <1>7, <2>1, <2>3 DEF Sleeps
<1>9. CASE worker' = worker
  BY <1>6, <1>7, <1>9 DEF Sleeps
<1> QED BY <1>3, <1>8, <1>9

LEMMA WorkerKeepsSleeps ==
  ASSUME HandOver, Sleeps, NEW w \in Worker, WorkerStep(w)
  PROVE  Sleeps'
<1>1. /\ Types /\ worker[w] \in Workers /\ Fits(w) /\ UNCHANGED <<marks, range, rangeless, unfit>>
  BY DEF HandOver, Types, Sleeps, WorkerStep, TakePin, ClearPin, End, High, Low, Again, Silent,
         Wake, Serve, soft
<1>2. CASE TakePin(w) \/ ClearPin(w) \/ End(w) \/ Wake(w) \/ Serve(w)
  <2>1. CASE TakePin(w)
    <3>1. /\ worker[w].pc = "start"
          /\ worker' = [worker EXCEPT ![w] = [worker[w] EXCEPT !.pc = "clear",
                                                                !.pin = newPin[worker[w].kind]]]
      BY <2>1 DEF TakePin, Becomes
    <3>2. /\ worker'[w].nap = worker[w].nap /\ worker'[w].kind = worker[w].kind
          /\ worker'[w].for = worker[w].for /\ worker'[w].pc = "clear"
          /\ worker'[w].space = worker[w].space
          /\ \A x \in Worker \ {w} : worker'[x] = worker[x]
      BY <1>1, <3>1 DEF Types, Workers
    <3> QED BY <1>1, <3>1, <3>2, SleepsIfSame
  <2>2. CASE ClearPin(w) \/ End(w) \/ Wake(w) \/ Serve(w)
    <3>1. PICK pc \in {"loop", "woken", "called", "ended"} :
            worker' = [worker EXCEPT ![w] = [worker[w] EXCEPT !.pc = pc]]
      BY <2>2 DEF ClearPin, End, Wake, Serve, ReadAndCall, Moves, Becomes
    <3>2. worker[w].pc \notin {"free", "ended"}
      BY <2>2 DEF ClearPin, End, Ends, CancellationPoint, Writes, Wake, Serve, ReadAndCall
    <3>3. /\ worker'[w].nap = worker[w].nap /\ worker'[w].kind = worker[w].kind
          /\ worker'[w].for = worker[w].for /\ worker'[w].pc = pc
          /\ worker'[w].space = worker[w].space
          /\ \A x \in Worker \ {w} : worker'[x] = worker[x]
      BY <1>1, <3>1 DEF Types, Workers
    <3> QED BY <1>1, <3>2, <3>3, SleepsIfSame
  <2> QED BY <1>2, <2>1, <2>2
<1>3. CASE High(w) \/ Low(w) \/ Again(w) \/ Silent(w)
  <2>1. /\ worker[w].pc \in {"loop", "high", "low"}
        /\ worker[w].kind \in Kind /\ worker[w].pin = worker[w].for /\ worker[w].for \in Pin
    BY <1>3 DEF HandOver, Knows, High, Low, Again, Silent
  <2>2. /\ marks[worker[w].for] \in Int /\ range[worker[w].for] \in Int
        /\ freqs[worker[w].for] \in Nat /\ worker[w].nap \in Int /\ worker[w].space \in Int
    BY <1>1, <2>1 DEF Types, Workers
  <2>3. \E pc \in {"loop", "high", "low"}, nap \in Int, space \in Int :
          /\ worker' = [worker EXCEPT ![w] = [worker[w] EXCEPT !.pc = pc, !.nap = nap, !.space = space]]
          /\ Suited(w) => nap >= 0 /\ space >= 0
    <3>1. CASE High(w)
      <4>1. worker' = [worker EXCEPT ![w] = [worker[w] EXCEPT !.pc = "high", !.nap = HighTime(w),
                                                                !.space = LowTime(w)]]
        BY <3>1 DEF High, Becomes
      <4>2. /\ HighTime(w) \in Int /\ LowTime(w) \in Int
            /\ Suited(w) => HighTime(w) >= 0 /\ LowTime(w) >= 0
        <5>1. CASE worker[w].kind = "pwm"
          BY <1>1, <2>1, <2>2, <5>1 DEF HighTime, LowTime, Fits
        <5>2. CASE worker[w].kind = "tone"
          <6>1. freqs[worker[w].for] # 0
            BY <2>1, <3>1, <5>2 DEF High
          <6> QED BY <2>1, <2>2, <5>2, <6>1 DEF HighTime, LowTime
        <5> QED BY <3>1, <5>1, <5>2 DEF High
      <4>3. "high" \in {"loop", "high", "low"}
        OBVIOUS
      <4> QED BY <4>1, <4>2, <4>3
    <3>2. CASE Low(w)
      <4>1. worker' = [worker EXCEPT ![w] = [worker[w] EXCEPT !.pc = "low", !.nap = worker[w].space,
                                                                !.space = 0]]
        BY <3>2 DEF Low, Becomes
      <4>2. Suited(w) => worker[w].space >= 0 /\ 0 >= 0
        BY <1>1 DEF Fits
      <4>3. "low" \in {"loop", "high", "low"} /\ 0 \in Int
        OBVIOUS
      <4> QED BY <2>2, <4>1, <4>2, <4>3, Zenon
    <3>3. CASE Again(w)
      <4>1. worker' = [worker EXCEPT ![w] = [worker[w] EXCEPT !.pc = "loop", !.nap = 0]]
        BY <3>3 DEF Again, Becomes
      <4>2. [worker[w] EXCEPT !.pc = "loop", !.nap = 0]
              = [worker[w] EXCEPT !.pc = "loop", !.nap = 0, !.space = worker[w].space]
        BY <1>1 DEF Workers
      <4>3. Suited(w) => 0 >= 0 /\ worker[w].space >= 0
        BY <1>1 DEF Fits
      <4>4. "loop" \in {"loop", "high", "low"} /\ 0 \in Int
        OBVIOUS
      <4> QED BY <2>2, <4>1, <4>2, <4>3, <4>4, Zenon
    <3>4. CASE Silent(w)
      <4>1. worker' = [worker EXCEPT ![w] = [worker[w] EXCEPT !.pc = "low", !.nap = Pause]]
        BY <3>4 DEF Silent, Becomes
      <4>2. [worker[w] EXCEPT !.pc = "low", !.nap = Pause]
              = [worker[w] EXCEPT !.pc = "low", !.nap = Pause, !.space = worker[w].space]
        BY <1>1 DEF Workers
      <4>3. Suited(w) => Pause >= 0 /\ worker[w].space >= 0
        BY <1>1 DEF Fits, Pause
      <4>4. "low" \in {"loop", "high", "low"} /\ Pause \in Int
        BY DEF Pause
      <4> QED BY <2>2, <4>1, <4>2, <4>3, <4>4, Zenon
    <3> QED BY <1>3, <3>1, <3>2, <3>3, <3>4
  <2>4. PICK pc \in {"loop", "high", "low"}, nap \in Int, space \in Int :
          /\ worker' = [worker EXCEPT ![w] = [worker[w] EXCEPT !.pc = pc, !.nap = nap, !.space = space]]
          /\ Suited(w) => nap >= 0 /\ space >= 0
    BY <2>3
  <2>5. /\ worker'[w].nap = nap /\ worker'[w].kind = worker[w].kind
        /\ worker'[w].for = worker[w].for /\ worker'[w].pc = pc /\ worker'[w].space = space
        /\ \A x \in Worker \ {w} : worker'[x] = worker[x]
    BY <1>1, <2>4 DEF Types, Workers
  <2>6. Fits(w)'
    BY <1>1, <2>1, <2>4, <2>5 DEF Fits, Suited
  <2>7. ASSUME NEW x \in Worker \ {w} PROVE Fits(x)'
    BY <1>1, <2>5 DEF Sleeps, Fits, Suited
  <2> QED BY <1>1, <2>6, <2>7 DEF Sleeps
<1> QED BY <1>2, <1>3 DEF WorkerStep

\* Only a PWM that softPwmCreate was given a value outside its range, or no
\* range, for sleeps by a negative time: softPwmWrite and the stops of a pin
\* never leave a running thread a mark above its range.
THEOREM NoSleepIsNegative == Spec => []NoHourSleep
<1>1. Init => Sleeps
  BY DEF Init, Sleeps, Fits, Suited, Free
<1>2. HandOver /\ Drivers /\ Sleeps /\ [Next]_vars => Sleeps'
  <2> SUFFICES ASSUME HandOver, Drivers, Sleeps, [Next]_vars PROVE Sleeps'
    OBVIOUS
  <2>1. CASE SoftCall \/ IsrCall
    BY <2>1, CallKeepsSleeps
  <2>2. ASSUME NEW c \in Caller, CallStep(c) PROVE Sleeps'
    BY <2>2, CallerKeepsSleeps, JoinKeepsSleeps, CreateKeepsSleeps
  <2>3. ASSUME NEW w \in Worker, WorkerStep(w) PROVE Sleeps'
    BY <2>3, WorkerKeepsSleeps
  <2>4. CASE UNCHANGED vars \/ \E p \in Pin : Edge(p)
    <3>1. UNCHANGED <<marks, range, rangeless, unfit, worker>>
      BY <2>4 DEF Edge, vars, soft
    <3> QED BY <3>1, SleepsIfSame
  <2> QED BY <2>1, <2>2, <2>3, <2>4 DEF Next
<1>3. HandOver => Types
  BY DEF HandOver
<1> QED BY <1>1, <1>2, <1>3, SleepsGiveNoHour, HandOverInvariant, DriversInvariant, PTL DEF Spec
=============================================================================
