----------------------------- MODULE PwmProofs -----------------------------
(***************************************************************************)
(* Proofs about the PWMs, the one of the library's threads (SoftPwm) and   *)
(* the hardware's (HwPwm).                                                 *)
(*                                                                         *)
(* SoftPwm, for any number of channels, threads and cells: types; a record *)
(* that is marked running has a thread, whatever the program; and until a  *)
(* program has raced (PwmRaces) no freed record is used, no channel has    *)
(* two threads, and a started one has one, at its object's frequency.      *)
(*                                                                         *)
(* HwPwm, for any number of channels, any lists, values, periods, divisors *)
(* and tones: types; the high time of a channel survives every change of   *)
(* its period; and a tone sounds at its frequency.                         *)
(***************************************************************************)
EXTENDS PwmRaces, HwPwm, Integers, SequenceTheorems, FiniteSetTheorems, TLAPS

-----------------------------------------------------------------------------
(* Types.                                                                  *)

Kinds == {"idle", "frequency", "duty", "dutyAndStart", "start", "stop"}
CallRecord == [kind : Kinds, ch : Channel \cup {NoChannel}, val : Freqs \cup Duties \cup {0},
               at : Cell \cup {0}, phase : {"find", "walk", "store"}]

\* What a call will store is of the kind of its field.
StoresRight == /\ call.kind = "frequency" => call.val \in Freqs
               /\ call.kind \in {"duty", "dutyAndStart"} => call.val \in Duties

ListOK == head \in Cell \cup {0} /\ live \subseteq Cell /\ cell \in [Cell -> Fields]
ThreadsOK == /\ pc \in [Thread -> {"none", "loop", "on", "off", "low", "head", "scan"}]
             /\ p \in [Thread -> Cell \cup {0}] /\ prev \in [Thread -> Cell \cup {0}]
             /\ owner \in [Thread -> Channel \cup {NoChannel}]
CallOK == call \in CallRecord /\ StoresRight
ObjectOK == object \in [Channel -> [freq : Freqs \cup {0, Default}, started : BOOLEAN]]
OthersOK == level \in [Channel -> {0, 1}] /\ fault \in BOOLEAN /\ program \in Programs

Types == ListOK /\ ThreadsOK /\ CallOK /\ ObjectOK /\ OthersOK

LEMMA TypesGiveTypeOK == Types => TypeOK
BY DEF Types, ListOK, ThreadsOK, CallOK, ObjectOK, OthersOK, TypeOK, CallRecord, Kinds

LEMMA PartsUnchanged ==
  ASSUME Types
  PROVE  /\ UNCHANGED <<head, live, cell>> => ListOK'
         /\ UNCHANGED <<pc, p, prev, owner>> => ThreadsOK'
         /\ UNCHANGED call => CallOK'
         /\ UNCHANGED object => ObjectOK'
         /\ UNCHANGED <<level, fault, program>> => OthersOK'
BY DEF Types, ListOK, ThreadsOK, CallOK, ObjectOK, OthersOK, StoresRight

LEMMA TypesInit == Init => Types
<1> SUFFICES ASSUME Init PROVE Types
  OBVIOUS
<1>1. Blank \in Fields
  BY Parameters DEF Blank, NewPwm, Fields
<1> QED BY <1>1 DEF Init, Types, ListOK, ThreadsOK, CallOK, ObjectOK, OthersOK, CallRecord, Kinds,
                    StoresRight, NoCall, NoObject

LEMMA NoCallTyped == NoCall \in CallRecord /\ NoCall.kind = "idle" /\ NoCall.phase = "find"
BY DEF NoCall, CallRecord, Kinds

LEMMA CallTypes ==
  ASSUME Types, NEW kind \in Kinds, NEW c \in Channel, NEW v \in Freqs \cup Duties \cup {0},
         kind = "frequency" => v \in Freqs, kind \in {"duty", "dutyAndStart"} => v \in Duties,
         Call(kind, c, v)
  PROVE  CallOK' /\ ListOK' /\ ThreadsOK'
<1>1. call' \in CallRecord /\ call'.kind = kind /\ call'.val = v
  <2>1. call' = [kind |-> kind, ch |-> c, val |-> v, at |-> 0, phase |-> "find"]
    BY DEF Call, NoCall
  <2> QED BY <2>1 DEF CallRecord
<1>2. ListOK' /\ ThreadsOK'
  BY PartsUnchanged DEF Call, pwmVars, threadVars
<1> QED BY <1>1, <1>2 DEF CallOK, StoresRight

LEMMA MethodTypes ==
  ASSUME Types, Method, UNCHANGED program
  PROVE  Types'
<1>1. PICK c \in program.channels :
        \/ \E f \in Freqs : NewObject(c, f) \/ ChangeFrequency(c, f)
        \/ \E d \in Duties : ChangeDutyCycle(c, d) \/ Start(c, d)
        \/ Stop(c) \/ Dealloc(c)
  BY DEF Method
<1>2. c \in Channel
  BY Parameters DEF Types, OthersOK
<1>3. CallOK' /\ ListOK' /\ ThreadsOK'
  <2>1. CASE \E f \in Freqs : NewObject(c, f) \/ ChangeFrequency(c, f)
    <3>1. PICK f \in Freqs : Call("frequency", c, f)
      BY <2>1 DEF NewObject, ChangeFrequency
    <3> QED BY <1>2, <3>1, CallTypes DEF Kinds
  <2>2. CASE \E d \in Duties : ChangeDutyCycle(c, d)
    <3>1. PICK d \in Duties : Call("duty", c, d)
      BY <2>2 DEF ChangeDutyCycle
    <3> QED BY <1>2, <3>1, CallTypes DEF Kinds
  <2>3. CASE \E d \in Duties : Start(c, d)
    <3>1. PICK d \in Duties : Call("dutyAndStart", c, d)
      BY <2>3 DEF Start
    <3> QED BY <1>2, <3>1, CallTypes DEF Kinds
  <2>4. CASE Stop(c) \/ Dealloc(c)
    <3>1. Call("stop", c, 0)
      BY <2>4 DEF Stop, Dealloc
    <3> QED BY <1>2, <3>1, CallTypes DEF Kinds
  <2> QED BY <1>1, <2>1, <2>2, <2>3, <2>4
<1>4. ObjectOK'
  <2>1. object \in [Channel -> [freq : Freqs \cup {0, Default}, started : BOOLEAN]]
    BY DEF Types, ObjectOK
  <2>2. CASE \E f \in Freqs : NewObject(c, f) \/ ChangeFrequency(c, f)
    BY <2>1, <2>2 DEF NewObject, ChangeFrequency, ObjectOK
  <2>3. CASE \E d \in Duties : ChangeDutyCycle(c, d) \/ Start(c, d)
    BY <2>1, <2>3 DEF ChangeDutyCycle, Start, ObjectOK
  <2>4. CASE Stop(c) \/ Dealloc(c)
    <3> DEFINE Object == [freq : Freqs \cup {0, Default}, started : BOOLEAN]
               reset == [freq |-> IF object[c].started THEN Default ELSE object[c].freq,
                         started |-> FALSE]
    <3>1. reset \in Object /\ NoObject \in Object
      BY <1>2, <2>1 DEF NoObject
    <3>2. object' = [object EXCEPT ![c] = reset] \/ object' = [object EXCEPT ![c] = NoObject]
      BY <2>4 DEF Stop, Dealloc
    <3> QED BY <2>1, <3>1, <3>2 DEF ObjectOK
  <2> QED BY <1>1, <2>2, <2>3, <2>4
<1>5. UNCHANGED <<level, fault, program>>
  BY <1>1 DEF NewObject, ChangeFrequency, ChangeDutyCycle, Start, Stop, Dealloc, Call
<1> QED BY <1>3, <1>4, <1>5, PartsUnchanged DEF Types

\* A cell is appended to the list.
LEMMA AppendTypes ==
  ASSUME Types, NEW last \in Cell \cup {0}, LinkCell(last)
  PROVE  ListOK' /\ CallOK'
<1>1. PICK k \in Cell \ live :
        /\ live' = live \cup {k}
        /\ cell' = [j \in Cell |-> IF j = k THEN NewPwm(call.ch)
                                  ELSE IF j = last THEN [cell[j] EXCEPT !.next = k]
                                  ELSE cell[j]]
        /\ head' = IF last = 0 THEN k ELSE head
        /\ call' = [call EXCEPT !.at = k, !.phase = "store"]
  BY DEF LinkCell
<1>2. call \in CallRecord /\ cell \in [Cell -> Fields]
  BY DEF Types, CallOK, ListOK
<1>3. NewPwm(call.ch) \in Fields
  BY <1>2 DEF NewPwm, Fields, CallRecord
<1>4. \A j \in Cell : [cell[j] EXCEPT !.next = k] \in Fields
  BY <1>2 DEF Fields
<1>5. cell' \in [Cell -> Fields]
  BY <1>1, <1>2, <1>3, <1>4
<1>6. call' \in CallRecord /\ call'.kind = call.kind /\ call'.val = call.val
  BY <1>1, <1>2 DEF CallRecord
<1> QED BY <1>1, <1>5, <1>6 DEF Types, ListOK, CallOK, StoresRight

LEMMA CallStepTypes ==
  ASSUME Types, CallStep, UNCHANGED program
  PROVE  Types'
<1>1. /\ call \in CallRecord /\ cell \in [Cell -> Fields] /\ live \subseteq Cell
      /\ head \in Cell \cup {0} /\ StoresRight
  BY DEF Types, CallOK, ListOK
<1>2. CASE FindHead
  <2>1. CASE head = 0 /\ LinkCell(0)
    BY <1>2, <2>1, AppendTypes, PartsUnchanged DEF FindHead, Types, threadVars
  <2>2. CASE call' = [call EXCEPT !.at = head, !.phase = "walk"] /\ UNCHANGED pwmVars
    <3>1. call' \in CallRecord /\ call'.kind = call.kind /\ call'.val = call.val
      BY <1>1, <2>2 DEF CallRecord
    <3>2. CallOK'
      BY <1>1, <3>1 DEF CallOK, StoresRight
    <3> QED BY <1>2, <2>2, <3>2, PartsUnchanged DEF FindHead, Types, threadVars, pwmVars
  <2> QED BY <1>2, <2>1, <2>2 DEF FindHead
<1>3. CASE FindNext
  <2>1. CASE LinkCell(call.at)
    <3>1. call.at \in Cell
      BY <1>1, <1>3 DEF FindNext
    <3> QED BY <1>3, <2>1, <3>1, AppendTypes, PartsUnchanged DEF FindNext, Types, threadVars
  <2>2. CASE /\ call' = [call EXCEPT !.phase = "store"] \/ call' = [call EXCEPT !.at = cell[call.at].next]
             /\ UNCHANGED pwmVars
    <3>1. cell[call.at].next \in Cell \cup {0}
      BY <1>1, <1>3 DEF FindNext, Fields
    <3>2. call' \in CallRecord /\ call'.kind = call.kind /\ call'.val = call.val
      BY <1>1, <2>2, <3>1 DEF CallRecord
    <3>3. CallOK'
      BY <1>1, <3>2 DEF CallOK, StoresRight
    <3> QED BY <1>3, <2>2, <3>3, PartsUnchanged DEF FindNext, Types, threadVars, pwmVars
  <2> QED BY <1>3, <2>1, <2>2 DEF FindNext
<1>4. CASE StoreValue
  <2>1. cell' \in [Cell -> Fields]
    <3>1. call.at \in Cell /\ cell[call.at] \in Fields
      BY <1>1, <1>4 DEF StoreValue
    <3> DEFINE old == cell[call.at]
    <3>2. CASE call.kind = "frequency"
      <4>1. [old EXCEPT !.freq = call.val] \in Fields
        BY <1>1, <3>1, <3>2 DEF Fields, StoresRight
      <4>2. cell' = [cell EXCEPT ![call.at] = [old EXCEPT !.freq = call.val]]
        BY <1>4, <3>2 DEF StoreValue, Store
      <4> QED BY <1>1, <4>1, <4>2
    <3>3. CASE call.kind \in {"duty", "dutyAndStart"}
      <4>1. [old EXCEPT !.duty = call.val] \in Fields
        BY <1>1, <3>1, <3>3 DEF Fields, StoresRight
      <4>2. cell' = [cell EXCEPT ![call.at] = [old EXCEPT !.duty = call.val]]
        BY <1>4, <3>3 DEF StoreValue, Store
      <4> QED BY <1>1, <4>1, <4>2
    <3>4. CASE call.kind = "stop"
      <4>1. [old EXCEPT !.running = FALSE] \in Fields
        BY <3>1 DEF Fields
      <4>2. cell' = [cell EXCEPT ![call.at] = [old EXCEPT !.running = FALSE]]
        BY <1>4, <3>4 DEF StoreValue, Store
      <4> QED BY <1>1, <4>1, <4>2
    <3> QED BY <1>4, <3>2, <3>3, <3>4 DEF StoreValue
  <2>2. call' = NoCall \/ call' = [NoCall EXCEPT !.kind = "start", !.ch = call.ch]
    BY <1>4 DEF StoreValue
  <2>3. CallOK'
    <3>1. call.ch \in Channel \cup {NoChannel}
      BY <1>1 DEF CallRecord
    <3>2. CASE call' = NoCall
      BY <3>2, NoCallTyped DEF CallOK, StoresRight
    <3>3. CASE call' = [NoCall EXCEPT !.kind = "start", !.ch = call.ch]
      <4>1. call' = [kind |-> "start", ch |-> call.ch, val |-> 0, at |-> 0, phase |-> "find"]
        BY <3>3 DEF NoCall
      <4>2. call' \in CallRecord /\ call'.kind = "start"
        BY <3>1, <4>1 DEF CallRecord, Kinds
      <4> QED BY <4>2 DEF CallOK, StoresRight
    <3> QED BY <2>2, <3>2, <3>3
  <2> QED BY <1>1, <1>4, <2>1, <2>3, PartsUnchanged DEF StoreValue, Types, threadVars, ListOK
<1>5. CASE StartThread
  <2>1. cell' \in [Cell -> Fields]
    BY <1>1, <1>5 DEF StartThread, Store, Fields
  <2>2. ThreadsOK'
    BY <1>1, <1>5 DEF StartThread, Types, ThreadsOK, MayStart
  <2>3. CallOK'
    BY <1>5, NoCallTyped DEF StartThread, CallOK, StoresRight
  <2> QED BY <1>1, <1>5, <2>1, <2>2, <2>3, PartsUnchanged DEF StartThread, Types, ListOK
<1>6. CASE StartFails \/ AlreadyRunning
  <2>1. CallOK'
    BY <1>6, NoCallTyped DEF StartFails, AlreadyRunning, CallOK, StoresRight
  <2> QED BY <1>6, <2>1, PartsUnchanged DEF StartFails, AlreadyRunning, Types, threadVars, pwmVars
<1>7. CASE CallUsesFreed
  BY <1>7, PartsUnchanged DEF CallUsesFreed, Types, threadVars, pwmVars, OthersOK
<1> QED BY <1>2, <1>3, <1>4, <1>5, <1>6, <1>7 DEF CallStep

LEMMA PwmStepTypes ==
  ASSUME Types, NEW t \in Thread, PwmStep(t), UNCHANGED program
  PROVE  Types'
<1>1. /\ cell \in [Cell -> Fields] /\ live \subseteq Cell /\ head \in Cell \cup {0}
      /\ pc \in [Thread -> {"none", "loop", "on", "off", "low", "head", "scan"}]
      /\ p \in [Thread -> Cell \cup {0}] /\ prev \in [Thread -> Cell \cup {0}]
      /\ owner \in [Thread -> Channel \cup {NoChannel}]
      /\ level \in [Channel -> {0, 1}]
  BY DEF Types, ListOK, ThreadsOK, OthersOK
<1>2. \A k \in Cell : cell[k].next \in Cell \cup {0} /\ cell[k].gpio \in Channel \cup {NoChannel}
  BY <1>1 DEF Fields
<1>3. CASE PwmLoop(t) \/ PwmOn(t) \/ PwmOff(t)
  <2>1. /\ UNCHANGED <<head, live, cell, p, prev, owner, call, object, fault, program>>
        /\ \E l \in {"loop", "on", "off", "low"} : pc' = [pc EXCEPT ![t] = l]
        /\ level' \in [Channel -> {0, 1}]
    BY <1>1, <1>3 DEF PwmLoop, PwmOn, PwmOff, Goto, pwmVars
  <2>2. ThreadsOK'
    BY <1>1, <2>1 DEF ThreadsOK
  <2> QED BY <2>1, <2>2, PartsUnchanged DEF Types, OthersOK
<1>4. CASE PwmLow(t)
  <2>1. /\ UNCHANGED <<head, live, cell, p, prev, call, object, fault, program>>
        /\ pc' = [pc EXCEPT ![t] = "head"] /\ owner' = [owner EXCEPT ![t] = cell[p[t]].gpio]
        /\ level' \in [Channel -> {0, 1}] /\ p[t] \in Cell
    BY <1>1, <1>4 DEF PwmLow, Goto, pwmVars
  <2>2. ThreadsOK'
    BY <1>1, <1>2, <2>1 DEF ThreadsOK
  <2> QED BY <2>1, <2>2, PartsUnchanged DEF Types, OthersOK
<1>5. CASE RemoveHead(t) \/ RemoveNext(t) \/ PwmExit(t)
  <2>1. UNCHANGED <<head, live, cell, level, call, object, fault, program>>
    BY <1>5 DEF RemoveHead, RemoveNext, PwmExit, pwmVars
  <2>2. ThreadsOK'
    BY <1>1, <1>2, <1>5 DEF ThreadsOK, RemoveHead, RemoveNext, PwmExit, Goto
  <2> QED BY <2>1, <2>2, PartsUnchanged DEF Types
<1>6. CASE RemoveMatch(t)
  <2>1. UNCHANGED <<level, pc, prev, owner, call, object, fault, program>> /\ p[t] \in Cell
    BY <1>1, <1>6 DEF RemoveMatch
  <2>2. cell[p[t]].next \in Cell \cup {0}
    BY <1>2, <2>1
  <2>3. ThreadsOK'
    BY <1>1, <1>6, <2>1, <2>2 DEF ThreadsOK, RemoveMatch
  <2>4. head' \in Cell \cup {0} /\ live' \subseteq Cell
    BY <1>1, <1>6, <2>2 DEF RemoveMatch, HeadAfter
  <2>5. Blank \in Fields
    BY Parameters DEF Blank, NewPwm, Fields
  <2>6. \A k \in Cell : [cell[k] EXCEPT !.next = cell[p[t]].next] \in Fields
    BY <1>1, <2>2 DEF Fields
  <2>7. cell' \in [Cell -> Fields]
    BY <1>1, <1>6, <2>5, <2>6 DEF RemoveMatch
  <2> QED BY <2>1, <2>3, <2>4, <2>7, PartsUnchanged DEF Types, ListOK
<1>7. CASE PwmUsesFreed(t)
  BY <1>7, PartsUnchanged DEF PwmUsesFreed, Types, threadVars, pwmVars, OthersOK
<1> QED BY <1>3, <1>4, <1>5, <1>6, <1>7 DEF PwmStep

LEMMA NextTypes == Types /\ [Next]_vars => Types'
<1> SUFFICES ASSUME Types, [Next]_vars PROVE Types'
  OBVIOUS
<1>1. CASE Next
  BY <1>1, MethodTypes, CallStepTypes, PwmStepTypes DEF Next
<1>2. CASE UNCHANGED vars
  BY <1>2, PartsUnchanged DEF vars, Types
<1> QED BY <1>1, <1>2

LEMMA TypesInvariant == Spec => []Types
BY TypesInit, NextTypes, PTL DEF Spec

\* The state is well typed: duty cycles and frequencies in the records are ones the
\* program asked for, whatever threads do to the list meanwhile.
THEOREM TypeCorrect == Spec => []TypeOK
BY TypesInvariant, TypesGiveTypeOK, PTL
-----------------------------------------------------------------------------
(* A record that is marked running has a thread.                           *)

On(t, k) == pc[t] \in {"loop", "on", "off"} /\ p[t] = k
Driven == \A k \in live : cell[k].running => \E t \in Thread : On(t, k)

LEMMA DrivenIsRunningIsDriven == Driven => RunningIsDriven
BY DEF Driven, On, RunningIsDriven

LEMMA AppendKeeps ==
  ASSUME Types, NEW last \in Cell \cup {0}, LinkCell(last)
  PROVE  \A k \in live' : cell'[k].running => k \in live /\ cell[k].running
<1> SUFFICES ASSUME NEW k \in live', cell'[k].running PROVE k \in live /\ cell[k].running
  OBVIOUS
<1>1. PICK n \in Cell \ live :
        /\ live' = live \cup {n}
        /\ cell' = [j \in Cell |-> IF j = n THEN NewPwm(call.ch)
                                  ELSE IF j = last THEN [cell[j] EXCEPT !.next = n]
                                  ELSE cell[j]]
  BY DEF LinkCell
<1>2. k \in Cell
  BY <1>1 DEF Types, ListOK
<1>3. k # n
  BY <1>1, <1>2 DEF NewPwm
<1>4. [cell[k] EXCEPT !.next = n].running = cell[k].running
  BY <1>2 DEF Types, ListOK, Fields
<1> QED BY <1>1, <1>2, <1>3, <1>4

LEMMA CallStepDriven ==
  ASSUME Types, Driven, CallStep
  PROVE  Driven'
<1> SUFFICES ASSUME NEW k \in live', cell'[k].running PROVE \E t \in Thread : On(t, k)'
  BY DEF Driven
<1>1. cell \in [Cell -> Fields] /\ live \subseteq Cell /\ call.at \in Cell \cup {0}
  BY DEF Types, ListOK, CallOK, CallRecord
<1>2. CASE StartThread
  <2>1. PICK t \in Thread : /\ pc[t] = "none" /\ pc' = [pc EXCEPT ![t] = "loop"]
                            /\ p' = [p EXCEPT ![t] = call.at]
    BY <1>2 DEF StartThread
  <2>2. pc \in [Thread -> {"none", "loop", "on", "off", "low", "head", "scan"}]
        /\ p \in [Thread -> Cell \cup {0}]
    BY DEF Types, ThreadsOK
  <2>3. CASE k = call.at
    BY <2>1, <2>2, <2>3 DEF On
  <2>4. CASE k # call.at
    <3>1. k \in live /\ cell[k].running
      BY <1>1, <1>2, <2>4 DEF StartThread, Store
    <3>2. PICK u \in Thread : On(u, k)
      BY <3>1 DEF Driven
    <3>3. u # t
      BY <2>1, <3>2 DEF On
    <3> QED BY <2>1, <2>2, <3>2, <3>3 DEF On
  <2> QED BY <2>3, <2>4
<1>3. CASE ~StartThread
  <2>1. UNCHANGED <<pc, p>>
    BY <1>3 DEF CallStep, FindHead, FindNext, StoreValue, StartFails, AlreadyRunning, CallUsesFreed,
                threadVars
  <2>2. k \in live /\ cell[k].running
    <3>1. CASE \E last \in Cell \cup {0} : LinkCell(last)
      BY <3>1, AppendKeeps
    <3>2. CASE StoreValue
      <4>1. call.at \in Cell /\ cell[call.at] \in Fields /\ live' = live
        BY <1>1, <3>2 DEF StoreValue
      <4>2. \E field \in {"freq", "duty", "running"} :
              \E v : Store(field, v) /\ (field = "running" => v = FALSE)
        BY <3>2 DEF StoreValue
      <4>3. PICK field \in {"freq", "duty", "running"} :
              \E v : Store(field, v) /\ (field = "running" => v = FALSE)
        BY <4>2
      <4>4. PICK v : Store(field, v) /\ (field = "running" => v = FALSE)
        BY <4>3
      <4>5. [cell[call.at] EXCEPT ![field] = v].running => cell[call.at].running
        <5>1. CASE field = "freq"
          BY <4>1, <5>1 DEF Fields
        <5>2. CASE field = "duty"
          BY <4>1, <5>2 DEF Fields
        <5>3. CASE field = "running"
          BY <4>1, <4>4, <5>3 DEF Fields
        <5> QED BY <5>1, <5>2, <5>3
      <4> QED BY <1>1, <4>1, <4>4, <4>5 DEF Store
    <3>3. CASE UNCHANGED pwmVars
      BY <3>3 DEF pwmVars
    <3>4. \/ \E last \in Cell \cup {0} : LinkCell(last)
          \/ StoreValue
          \/ UNCHANGED pwmVars
      BY <1>1, <1>3 DEF CallStep, FindHead, FindNext, StartFails, AlreadyRunning, CallUsesFreed
    <3> QED BY <3>1, <3>2, <3>3, <3>4
  <2> QED BY <2>1, <2>2 DEF Driven, On
<1> QED BY <1>2, <1>3

LEMMA PwmStepDriven ==
  ASSUME Types, Driven, NEW t \in Thread, PwmStep(t)
  PROVE  Driven'
<1> SUFFICES ASSUME NEW k \in live', cell'[k].running PROVE \E u \in Thread : On(u, k)'
  BY DEF Driven
<1>1. /\ cell \in [Cell -> Fields] /\ live \subseteq Cell
      /\ pc \in [Thread -> {"none", "loop", "on", "off", "low", "head", "scan"}]
      /\ p \in [Thread -> Cell \cup {0}]
  BY DEF Types, ListOK, ThreadsOK
<1>2. k \in live /\ cell[k].running
  <2>1. CASE RemoveMatch(t)
    <3>1. k \in live /\ k # p[t] /\ k \in Cell
      BY <1>1, <2>1 DEF RemoveMatch
    <3>2. [cell[k] EXCEPT !.next = cell[p[t]].next].running = cell[k].running
      BY <1>1, <3>1 DEF Fields
    <3>3. cell'[k] = [cell[k] EXCEPT !.next = cell[p[t]].next] \/ cell'[k] = cell[k]
      BY <2>1, <3>1 DEF RemoveMatch
    <3> QED BY <3>1, <3>2, <3>3
  <2>2. CASE ~RemoveMatch(t)
    BY <2>2 DEF PwmStep, PwmLoop, PwmOn, PwmOff, PwmLow, RemoveHead, RemoveNext, PwmExit,
                PwmUsesFreed, pwmVars
  <2> QED BY <2>1, <2>2
<1>3. PICK u \in Thread : On(u, k)
  BY <1>2 DEF Driven
<1>4. CASE u # t
  <2>1. pc'[u] = pc[u] /\ p'[u] = p[u]
    BY <1>1, <1>4 DEF PwmStep, PwmLoop, PwmOn, PwmOff, PwmLow, RemoveHead, RemoveMatch, RemoveNext,
                      PwmExit, PwmUsesFreed, Goto, threadVars
  <2> QED BY <1>3, <2>1 DEF On
<1>5. CASE u = t
  <2>1. PwmLoop(t) \/ PwmOn(t) \/ PwmOff(t) \/ PwmUsesFreed(t)
    BY <1>3, <1>5 DEF PwmStep, On, PwmLow, RemoveHead, RemoveMatch, RemoveNext, PwmExit
  <2>2. p' = p /\ pc'[t] \in {"loop", "on", "off"}
    BY <1>1, <1>2, <1>3, <1>5, <2>1 DEF PwmLoop, PwmOn, PwmOff, PwmUsesFreed, Goto, threadVars, On
  <2> QED BY <1>3, <1>5, <2>2 DEF On
<1> QED BY <1>4, <1>5

LEMMA NextDriven == Types /\ Driven /\ [Next]_vars => Driven'
<1> SUFFICES ASSUME Types, Driven, [Next]_vars PROVE Driven'
  OBVIOUS
<1>1. CASE Method
  <2>1. UNCHANGED <<live, cell, pc, p>>
    BY <1>1 DEF Method, NewObject, ChangeFrequency, ChangeDutyCycle, Start, Stop, Dealloc, Call,
                pwmVars, threadVars
  <2> QED BY <2>1 DEF Driven, On
<1>2. CASE UNCHANGED vars
  BY <1>2 DEF vars, Driven, On
<1> QED BY <1>1, <1>2, CallStepDriven, PwmStepDriven DEF Next

LEMMA DrivenInvariant == Spec => []Driven
<1>1. Init => Driven
  BY DEF Init, Driven
<1> QED BY <1>1, NextDriven, TypesInvariant, PTL DEF Spec

\* Whatever the program does, between calls a record is marked running exactly while
\* a thread drives it that will go on: start never finds a mark that nobody acts on.
THEOREM RunningHasThread == Spec => []RunningIsDriven
BY DrivenInvariant, DrivenIsRunningIsDriven, PTL

-----------------------------------------------------------------------------
(* Programs that have not raced: no method overlaps a thread that ends.      *)
(* Their invariant knows the list as a sequence of cells, and where the method or  *)
(* the ending thread that walks it stands.                                   *)

\* The threads that use their record, and those past it.
Using(t) == pc[t] \in {"loop", "on", "off", "low"}
Removing(t) == pc[t] \in {"head", "scan"}

\* The list is s[1], .., s[n]: all the cells there are, one per channel.
Chain(n, s) ==
  /\ live = {s[i] : i \in 1..n}
  /\ \A i, j \in 1..n : s[i] = s[j] => i = j
  /\ \A i, j \in 1..n : cell[s[i]].gpio = cell[s[j]].gpio => i = j
  /\ head = IF n = 0 THEN 0 ELSE s[1]
  /\ \A i \in 1..n : cell[s[i]].next = IF i < n THEN s[i + 1] ELSE 0

\* find_pwm stands on a cell and has seen no match before it.
Walked(n, s) == call.phase = "walk" =>
  \E i \in 1..n : /\ call.at = s[i]
                  /\ \A j \in 1..n : j < i => cell[s[j]].gpio # call.ch

\* remove_pwm stands between two neighbours, past no record of its channel.
Between(n, s, t) ==
  \E i \in 0..n : /\ prev[t] = IF i = 0 THEN 0 ELSE s[i]
                  /\ p[t] = IF i < n THEN s[i + 1] ELSE 0
                  /\ \A j \in 1..i : cell[s[j]].gpio # owner[t]
Scanned(n, s) == \A t \in Thread : pc[t] = "scan" => Between(n, s, t)

List(n, s) == Chain(n, s) /\ Walked(n, s) /\ Scanned(n, s)
ListInv == \E n \in Nat : \E s \in [1..n -> Cell] : List(n, s)

\* A method waits for no thread to end, and what it found stays allocated.
CallInv == /\ call = NoCall \/ Settled
           /\ call.phase = "store" => call.at \in live

OneEnding == \A t, u \in Thread : Ending(t) /\ Ending(u) => t = u

UserInv == /\ \A t \in Thread : Using(t) => p[t] \in live
           /\ \A t, u \in Thread : Using(t) /\ Using(u) /\ p[t] = p[u] => t = u
           /\ \A t, u \in Thread : Removing(t) /\ Using(u) => cell[p[u]].gpio # owner[t]
           /\ \A t \in Thread : pc[t] # "scan" => prev[t] = 0

QuietInv == ~fault /\ ListInv /\ CallInv /\ OneEnding /\ UserInv
-----------------------------------------------------------------------------
(* What the list knows.                                                    *)

LEMMA ListKnows ==
  ASSUME NEW n \in Nat, NEW s \in [1..n -> Cell], Chain(n, s)
  PROVE  /\ \A k \in live : \E i \in 1..n : k = s[i]
         /\ \A i \in 1..n : s[i] \in live
         /\ \A k, l \in live : cell[k].gpio = cell[l].gpio => k = l
         /\ \A k \in live : cell[k].next # 0 => cell[k].next \in live
         /\ head # 0 => n # 0 /\ head = s[1] /\ head \in live
<1>1. \A k \in live : \E i \in 1..n : k = s[i]
  BY DEF Chain
<1>2. \A i \in 1..n : s[i] \in live
  BY DEF Chain
<1>3. \A k, l \in live : cell[k].gpio = cell[l].gpio => k = l
  BY <1>1 DEF Chain
<1>4. \A k \in live : cell[k].next # 0 => cell[k].next \in live
  <2> SUFFICES ASSUME NEW k \in live, cell[k].next # 0 PROVE cell[k].next \in live
    OBVIOUS
  <2>1. PICK i \in 1..n : k = s[i]
    BY <1>1
  <2>2. i < n /\ cell[k].next = s[i + 1]
    BY <2>1 DEF Chain
  <2> QED BY <1>2, <2>2
<1>5. head # 0 => n # 0 /\ head = s[1] /\ head \in live
  BY <1>2 DEF Chain
<1> QED BY <1>1, <1>2, <1>3, <1>4, <1>5

LEMMA ChainSame ==
  ASSUME NEW n \in Nat, NEW s \in [1..n -> Cell], Chain(n, s), UNCHANGED <<head, live>>,
         \A k \in live : cell'[k].gpio = cell[k].gpio /\ cell'[k].next = cell[k].next
  PROVE  Chain(n, s)'
<1>1. \A i \in 1..n : s[i] \in live
  BY DEF Chain
<1>2. \A i \in 1..n : cell'[s[i]].gpio = cell[s[i]].gpio /\ cell'[s[i]].next = cell[s[i]].next
  BY <1>1
<1> QED BY <1>2 DEF Chain

\* In the state that a call is made in, every thread drives a running record.
LEMMA SettledKnows ==
  ASSUME Settled, UserInv, Types
  PROVE  /\ \A t \in Thread : pc[t] = "none" \/ (Using(t) /\ p[t] \in live /\ cell[p[t]].running)
         /\ \A t \in Thread : ~Removing(t) /\ pc[t] # "scan"
<1> SUFFICES ASSUME NEW t \in Thread
             PROVE  /\ pc[t] = "none" \/ (Using(t) /\ p[t] \in live /\ cell[p[t]].running)
                    /\ ~Removing(t) /\ pc[t] # "scan"
  OBVIOUS
<1>1. pc[t] \in {"none", "loop", "on", "off", "low", "head", "scan"}
  BY DEF Types, ThreadsOK
<1>2. ~Ending(t)
  BY DEF Settled
<1> QED BY <1>1, <1>2 DEF Ending, Using, Removing, UserInv

\* Settled threads stay so, with all that is said of threads, when the records
\* they use stay and only other things change.
LEMMA StaySettled ==
  ASSUME Types, Settled, UserInv, UNCHANGED <<pc, p, prev, owner>>, live \subseteq live',
         \A k \in live : cell'[k].running = cell[k].running
  PROVE  Settled' /\ OneEnding' /\ UserInv' /\ \A n, s : Scanned(n, s)'
<1>1. Settled'
  BY SettledKnows DEF Settled, Ending, Using
<1>2. OneEnding'
  BY <1>1 DEF OneEnding, Settled
<1>3. UserInv'
  BY SettledKnows DEF UserInv, Using, Removing
<1>4. \A n, s : Scanned(n, s)'
  BY SettledKnows DEF Scanned
<1> QED BY <1>1, <1>2, <1>3, <1>4

-----------------------------------------------------------------------------
(* The methods.                                                            *)

LEMMA MethodQuiet ==
  ASSUME Types, QuietInv, Settled, Method
  PROVE  QuietInv'
<1>1. PICK kind, c, v : Call(kind, c, v)
  BY DEF Method, NewObject, ChangeFrequency, ChangeDutyCycle, Start, Stop, Dealloc
<1>2. /\ Settled /\ call'.phase = "find"
      /\ UNCHANGED <<head, live, cell, pc, p, prev, owner, fault>>
  BY <1>1 DEF Call, NoCall, pwmVars, threadVars
<1>3. PICK n \in Nat : \E s \in [1..n -> Cell] : List(n, s)
  BY DEF QuietInv, ListInv
<1>4. PICK s \in [1..n -> Cell] : List(n, s)
  BY <1>3
<1>5. Chain(n, s)'
  BY <1>2, <1>4, ChainSame DEF List
<1>6. Settled' /\ OneEnding' /\ UserInv' /\ Scanned(n, s)'
  BY <1>2, StaySettled DEF QuietInv
<1>7. Walked(n, s)'
  BY <1>2 DEF Walked
<1>8. CallInv'
  BY <1>2, <1>6 DEF CallInv
<1>9. ~fault'
  BY <1>2 DEF QuietInv
<1> QED BY <1>5, <1>6, <1>7, <1>8, <1>9 DEF QuietInv, ListInv, List
-----------------------------------------------------------------------------
(* The steps of a call.                                                    *)

\* A record for the call's channel becomes the last of the list.
LEMMA AppendQuiet ==
  ASSUME Types, UserInv, Settled, ~fault,
         NEW n \in Nat, NEW s \in [1..n -> Cell], Chain(n, s),
         \A i \in 1..n : cell[s[i]].gpio # call.ch,
         LinkCell(IF n = 0 THEN 0 ELSE s[n]),
         UNCHANGED <<pc, p, prev, owner, fault>>
  PROVE  QuietInv'
<1> DEFINE last == IF n = 0 THEN 0 ELSE s[n]
<1>1. PICK k \in Cell \ live :
        /\ live' = live \cup {k}
        /\ cell' = [j \in Cell |-> IF j = k THEN NewPwm(call.ch)
                                  ELSE IF j = last THEN [cell[j] EXCEPT !.next = k]
                                  ELSE cell[j]]
        /\ head' = IF last = 0 THEN k ELSE head
        /\ call' = [call EXCEPT !.at = k, !.phase = "store"]
  BY DEF LinkCell
<1>2. /\ cell \in [Cell -> Fields] /\ live \subseteq Cell /\ call \in CallRecord
  BY DEF Types, ListOK, CallOK
<1>3. call'.phase = "store" /\ call'.at = k
  BY <1>1, <1>2 DEF CallRecord
<1>4. cell'[k].gpio = call.ch /\ cell'[k].next = 0
  BY <1>1 DEF NewPwm
<1>5. \A j \in live : /\ j \in Cell /\ j # k
                      /\ cell'[j].gpio = cell[j].gpio /\ cell'[j].running = cell[j].running
                      /\ cell'[j].next = IF j = last THEN k ELSE cell[j].next
  <2> SUFFICES ASSUME NEW j \in live
               PROVE  /\ j \in Cell /\ j # k
                      /\ cell'[j].gpio = cell[j].gpio /\ cell'[j].running = cell[j].running
                      /\ cell'[j].next = IF j = last THEN k ELSE cell[j].next
    OBVIOUS
  <2>1. j \in Cell /\ j # k
    BY <1>1, <1>2
  <2>2. cell'[j] = IF j = last THEN [cell[j] EXCEPT !.next = k] ELSE cell[j]
    BY <1>1, <2>1
  <2>3. cell[j] \in Fields
    BY <1>2, <2>1
  <2> HIDE DEF last
  <2> QED BY <2>1, <2>2, <2>3 DEF Fields
<1>6. Settled' /\ OneEnding' /\ UserInv' /\ \A m, r : Scanned(m, r)'
  BY <1>1, <1>5, StaySettled
<1> DEFINE r == [i \in 1..(n + 1) |-> IF i <= n THEN s[i] ELSE k]
<1>7. /\ r \in [1..(n + 1) -> Cell] /\ r[n + 1] = k
      /\ \A i \in 1..n : r[i] = s[i] /\ s[i] \in live /\ s[i] # k
  <2>1. \A i \in 1..n : s[i] \in live /\ s[i] # k
    BY ListKnows, <1>5
  <2> QED BY <2>1
<1>8. \A i \in 1..(n + 1) : i = n + 1 \/ i \in 1..n
  OBVIOUS
<1>9. Chain(n + 1, r)'
  <2>1. live' = {r[i] : i \in 1..(n + 1)}
    <3>1. live = {s[i] : i \in 1..n}
      BY DEF Chain
    <3> QED BY <1>1, <1>7, <1>8, <3>1
  <2>2. \A i, j \in 1..(n + 1) : r[i] = r[j] => i = j
    BY <1>7, <1>8 DEF Chain
  <2>3. \A i \in 1..n : cell'[r[i]].gpio = cell[s[i]].gpio
    BY <1>5, <1>7
  <2>4. \A i, j \in 1..(n + 1) : cell'[r[i]].gpio = cell'[r[j]].gpio => i = j
    <3> SUFFICES ASSUME NEW i \in 1..(n + 1), NEW j \in 1..(n + 1),
                        cell'[r[i]].gpio = cell'[r[j]].gpio
                 PROVE  i = j
      OBVIOUS
    <3>1. CASE i \in 1..n /\ j \in 1..n
      BY <2>3, <3>1 DEF Chain
    <3>2. CASE i = n + 1 /\ j \in 1..n
      <4>1. cell'[r[i]].gpio = call.ch
        BY <1>4, <1>7, <3>2
      <4>2. cell'[r[j]].gpio # call.ch
        BY <2>3, <3>2
      <4> QED BY <4>1, <4>2
    <3>3. CASE i \in 1..n /\ j = n + 1
      <4>1. cell'[r[j]].gpio = call.ch
        BY <1>4, <1>7, <3>3
      <4>2. cell'[r[i]].gpio # call.ch
        BY <2>3, <3>3
      <4> QED BY <4>1, <4>2
    <3> QED BY <1>8, <3>1, <3>2, <3>3
  <2>5. head' = r[1]
    <3>1. CASE n = 0
      BY <1>1, <1>7, <3>1
    <3>2. CASE n # 0
      <4>1. last # 0 /\ head' = head
        BY <1>1, <3>2 DEF Cell
      <4> QED BY <1>7, <3>2, <4>1 DEF Chain
    <3> QED BY <3>1, <3>2
  <2>6. \A i \in 1..n : cell'[r[i]].next = r[i + 1]
    <3> SUFFICES ASSUME NEW i \in 1..n PROVE cell'[r[i]].next = r[i + 1]
      OBVIOUS
    <3>1. CASE i = n
      BY <1>5, <1>7, <3>1
    <3>2. CASE i < n
      <4>1. s[i] # last
        BY <3>2 DEF Chain
      <4>2. cell[s[i]].next = s[i + 1] /\ i + 1 \in 1..n
        BY <3>2 DEF Chain
      <4> HIDE DEF last
      <4> QED BY <1>5, <1>7, <4>1, <4>2
    <3> QED BY <3>1, <3>2
  <2>7. \A i \in 1..(n + 1) : cell'[r[i]].next = IF i < n + 1 THEN r[i + 1] ELSE 0
    <3> SUFFICES ASSUME NEW i \in 1..(n + 1)
                 PROVE  cell'[r[i]].next = IF i < n + 1 THEN r[i + 1] ELSE 0
      OBVIOUS
    <3>1. CASE i \in 1..n
      <4>1. cell'[r[i]].next = r[i + 1] /\ i < n + 1
        BY <2>6, <3>1
      <4> HIDE DEF r
      <4> QED BY <4>1
    <3>2. CASE i = n + 1
      <4> HIDE DEF r
      <4> QED BY <1>4, <1>7, <3>2
    <3> QED BY <1>8, <3>1, <3>2
  <2>8. n + 1 # 0
    OBVIOUS
  <2> HIDE DEF r
  <2> QED BY <2>1, <2>2, <2>4, <2>5, <2>7, <2>8 DEF Chain
<1>10. Walked(n + 1, r)' /\ CallInv'
  BY <1>1, <1>3, <1>6 DEF Walked, CallInv
<1>11. ListInv'
  <2>1. List(n + 1, r)' /\ n + 1 \in Nat
    BY <1>6, <1>9, <1>10 DEF List
  <2> HIDE DEF r
  <2> QED BY <1>7, <2>1 DEF ListInv
<1> QED BY <1>6, <1>10, <1>11 DEF QuietInv
\* A store into the record that was found, which leaves the list as it is.
LEMMA StoreKeepsList ==
  ASSUME Types, call.at \in live, NEW field \in {"freq", "duty", "running"}, NEW v, Store(field, v)
  PROVE  /\ \A k \in live : cell'[k].gpio = cell[k].gpio /\ cell'[k].next = cell[k].next
         /\ \A k \in live : k # call.at => cell'[k].running = cell[k].running
         /\ cell'[call.at].running = IF field = "running" THEN v ELSE cell[call.at].running
<1>1. cell \in [Cell -> Fields] /\ live \subseteq Cell
  BY DEF Types, ListOK
<1> DEFINE old == cell[call.at]
           new == [old EXCEPT ![field] = v]
<1>2. old \in Fields
  BY <1>1
<1>3. /\ new.gpio = old.gpio /\ new.next = old.next
      /\ new.running = IF field = "running" THEN v ELSE old.running
  <2>1. CASE field = "freq"
    BY <1>2, <2>1 DEF Fields
  <2>2. CASE field = "duty"
    BY <1>2, <2>2 DEF Fields
  <2>3. CASE field = "running"
    BY <1>2, <2>3 DEF Fields
  <2> QED BY <2>1, <2>2, <2>3
<1>4. cell' = [cell EXCEPT ![call.at] = new]
  BY DEF Store
<1> HIDE DEF new
<1> QED BY <1>1, <1>3, <1>4

\* A store that marks nothing.
LEMMA PlainStoreQuiet ==
  ASSUME Types, UserInv, Settled, ~fault, ListInv, call.at \in live,
         NEW field \in {"freq", "duty"}, NEW v, Store(field, v), call'.phase = "find",
         UNCHANGED <<head, live, pc, p, prev, owner, fault>>
  PROVE  QuietInv'
<1>1. /\ \A k \in live : cell'[k].gpio = cell[k].gpio /\ cell'[k].next = cell[k].next
      /\ \A k \in live : cell'[k].running = cell[k].running
  BY StoreKeepsList
<1>2. Settled' /\ OneEnding' /\ UserInv' /\ \A n, s : Scanned(n, s)'
  BY <1>1, StaySettled
<1>3. PICK n \in Nat : \E s \in [1..n -> Cell] : List(n, s)
  BY DEF ListInv
<1>4. PICK s \in [1..n -> Cell] : List(n, s)
  BY <1>3
<1>5. Chain(n, s)'
  BY <1>1, <1>4, ChainSame DEF List
<1>6. ListInv'
  BY <1>2, <1>5 DEF ListInv, List, Walked
<1> QED BY <1>2, <1>6 DEF QuietInv, CallInv

\* A record is told to stop: its thread, if it has one, is the only one that ends.
LEMMA StopQuiet ==
  ASSUME Types, UserInv, Settled, ~fault, ListInv, call.at \in live,
         Store("running", FALSE), call' = NoCall,
         UNCHANGED <<head, live, pc, p, prev, owner, fault>>
  PROVE  QuietInv'
<1>1. /\ \A k \in live : cell'[k].gpio = cell[k].gpio /\ cell'[k].next = cell[k].next
      /\ \A k \in live : k # call.at => cell'[k].running = cell[k].running
  BY StoreKeepsList
<1>2. UserInv' /\ \A n, s : Scanned(n, s)'
  BY <1>1, SettledKnows DEF UserInv, Using, Removing, Scanned
<1>3. OneEnding'
  <2> SUFFICES ASSUME NEW t \in Thread, NEW u \in Thread, Ending(t)', Ending(u)' PROVE t = u
    BY DEF OneEnding
  <2>1. \A w \in Thread : Ending(w)' => Using(w) /\ p[w] = call.at
    <3> SUFFICES ASSUME NEW w \in Thread, Ending(w)' PROVE Using(w) /\ p[w] = call.at
      OBVIOUS
    <3>1. Using(w) /\ p[w] \in live /\ cell[p[w]].running
      BY SettledKnows DEF Ending, Settled, Using
    <3>2. ~Ending(w)
      BY DEF Settled
    <3> QED BY <1>1, <3>1, <3>2 DEF Ending
  <2> QED BY <2>1 DEF UserInv
<1>4. PICK n \in Nat : \E s \in [1..n -> Cell] : List(n, s)
  BY DEF ListInv
<1>5. PICK s \in [1..n -> Cell] : List(n, s)
  BY <1>4
<1>6. Chain(n, s)'
  BY <1>1, <1>5, ChainSame DEF List
<1>7. ListInv' /\ CallInv'
  BY <1>2, <1>6, NoCallTyped DEF ListInv, List, Walked, CallInv
<1> QED BY <1>2, <1>3, <1>7 DEF QuietInv

\* A thread starts on a record that no thread uses, since it is not running.
LEMMA StartThreadQuiet ==
  ASSUME Types, UserInv, Settled, ~fault, ListInv, StartThread
  PROVE  QuietInv'
<1>1. call.at \in live /\ ~cell[call.at].running
  BY DEF StartThread, MayStart
<1>2. PICK t \in Thread : /\ pc[t] = "none" /\ pc' = [pc EXCEPT ![t] = "loop"]
                          /\ p' = [p EXCEPT ![t] = call.at]
  BY DEF StartThread
<1>3. Store("running", TRUE) /\ call' = NoCall /\ UNCHANGED <<head, live, prev, owner, fault>>
  BY DEF StartThread
<1>4. /\ \A k \in live : cell'[k].gpio = cell[k].gpio /\ cell'[k].next = cell[k].next
      /\ \A k \in live : k # call.at => cell'[k].running = cell[k].running
      /\ cell'[call.at].running
  BY <1>1, <1>3, StoreKeepsList
<1>5. /\ pc'[t] = "loop" /\ p'[t] = call.at
      /\ \A u \in Thread : u # t => pc'[u] = pc[u] /\ p'[u] = p[u]
  BY <1>2 DEF Types, ThreadsOK
<1>6. \A u \in Thread : u # t => pc[u] = "none" \/ (Using(u) /\ p[u] \in live /\ p[u] # call.at
                                                      /\ cell[p[u]].running)
  BY <1>1, SettledKnows
<1>7. \A u \in Thread : pc'[u] \notin {"head", "scan", "low"}
  <2>1. \A u \in Thread : pc[u] \notin {"head", "scan", "low"}
    BY DEF Settled, Ending
  <2> QED BY <1>5, <2>1
<1>8. Settled'
  BY <1>4, <1>5, <1>6, <1>7 DEF Settled, Ending
<1>9. UserInv'
  <2>1. \A u \in Thread : Using(u)' => p'[u] \in live'
    BY <1>1, <1>3, <1>5, <1>6 DEF Using
  <2>2. \A u, w \in Thread : Using(u)' /\ Using(w)' /\ p'[u] = p'[w] => u = w
    BY <1>5, <1>6 DEF Using, UserInv
  <2>3. \A u \in Thread : ~Removing(u)' /\ prev'[u] = 0
    BY <1>3, <1>7, SettledKnows DEF Removing, UserInv
  <2> QED BY <2>1, <2>2, <2>3 DEF UserInv
<1>10. OneEnding'
  BY <1>8 DEF OneEnding, Settled
<1>11. PICK n \in Nat : \E s \in [1..n -> Cell] : List(n, s)
  BY DEF ListInv
<1>12. PICK s \in [1..n -> Cell] : List(n, s)
  BY <1>11
<1>13. Chain(n, s)'
  BY <1>3, <1>4, <1>12, ChainSame DEF List
<1>14. ListInv' /\ CallInv'
  BY <1>3, <1>7, <1>13, NoCallTyped DEF ListInv, List, Walked, Scanned, CallInv
<1> QED BY <1>3, <1>9, <1>10, <1>14 DEF QuietInv
\* A step of a call that changes nothing but how far it has come.
LEMMA WalkQuiet ==
  ASSUME Types, QuietInv, Settled,
         NEW n \in Nat, NEW s \in [1..n -> Cell], Chain(n, s), Walked(n, s)',
         call'.phase = "store" => call'.at \in live,
         UNCHANGED <<head, live, cell, pc, p, prev, owner, fault>>
  PROVE  QuietInv'
<1>1. Settled' /\ OneEnding' /\ UserInv' /\ Scanned(n, s)'
  BY StaySettled DEF QuietInv
<1>2. Chain(n, s)'
  BY ChainSame
<1>3. ListInv'
  BY <1>1, <1>2 DEF ListInv, List
<1> QED BY <1>1, <1>3 DEF QuietInv, CallInv

LEMMA CallStepQuiet ==
  ASSUME Types, QuietInv, CallStep
  PROVE  QuietInv'
<1>1. Settled
  <2>1. call # NoCall
    BY NoCallTyped DEF CallStep, FindHead, FindNext, StoreValue, StartThread, StartFails, MayStart,
                       AlreadyRunning, CallUsesFreed
  <2> QED BY <2>1 DEF QuietInv, CallInv
<1>2. UserInv /\ ~fault /\ ListInv /\ call \in CallRecord
  BY DEF QuietInv, Types, CallOK
<1>3. PICK n \in Nat : \E s \in [1..n -> Cell] : List(n, s)
  BY <1>2 DEF ListInv
<1>4. PICK s \in [1..n -> Cell] : List(n, s)
  BY <1>3
<1>5. Chain(n, s) /\ Walked(n, s)
  BY <1>4 DEF List
<1>6. CASE FindHead
  <2>1. UNCHANGED <<pc, p, prev, owner, fault>>
    BY <1>6 DEF FindHead, threadVars
  <2>2. CASE head = 0 /\ LinkCell(0)
    <3>1. n = 0
      BY <1>5, <2>2 DEF Chain, Cell
    <3>2. LinkCell(IF n = 0 THEN 0 ELSE s[n])
      BY <2>2, <3>1
    <3>3. \A i \in 1..n : cell[s[i]].gpio # call.ch
      BY <3>1
    <3> QED BY <1>1, <1>2, <1>5, <2>1, <3>2, <3>3, AppendQuiet
  <2>3. CASE /\ head # 0 /\ call' = [call EXCEPT !.at = head, !.phase = "walk"]
             /\ UNCHANGED pwmVars
    <3>1. call'.phase = "walk" /\ call'.at = head
      BY <1>2, <2>3 DEF CallRecord
    <3>2. n # 0 /\ head = s[1]
      BY <1>5, <2>3 DEF Chain
    <3>3. Walked(n, s)'
      BY <2>3, <3>1, <3>2 DEF Walked, pwmVars
    <3> QED BY <1>1, <1>5, <2>1, <2>3, <3>1, <3>3, WalkQuiet DEF pwmVars
  <2> QED BY <1>6, <2>2, <2>3 DEF FindHead
<1>7. CASE FindNext
  <2>1. UNCHANGED <<pc, p, prev, owner, fault>> /\ call.phase = "walk"
    BY <1>7 DEF FindNext, threadVars
  <2>2. PICK i \in 1..n : /\ call.at = s[i]
                          /\ \A j \in 1..n : j < i => cell[s[j]].gpio # call.ch
    BY <1>5, <2>1 DEF Walked
  <2>3. cell[s[i]].next = IF i < n THEN s[i + 1] ELSE 0
    BY <1>5 DEF Chain
  <2>4. CASE cell[call.at].gpio = call.ch
    <3>1. call' = [call EXCEPT !.phase = "store"] /\ UNCHANGED pwmVars
      BY <1>7, <2>4 DEF FindNext
    <3>2. call'.phase = "store" /\ call'.at = call.at /\ call.at \in live
      BY <1>2, <1>7, <3>1 DEF CallRecord, FindNext
    <3>3. Walked(n, s)'
      BY <3>2 DEF Walked
    <3> QED BY <1>1, <1>5, <2>1, <3>1, <3>2, <3>3, WalkQuiet DEF pwmVars
  <2>5. CASE cell[call.at].gpio # call.ch /\ cell[call.at].next = 0
    <3>1. LinkCell(call.at)
      BY <1>7, <2>5 DEF FindNext
    <3>2. i = n
      <4>1. i < n => s[i + 1] \in Cell
        OBVIOUS
      <4> QED BY <2>2, <2>3, <2>5, <4>1 DEF Cell
    <3>3. LinkCell(IF n = 0 THEN 0 ELSE s[n])
      BY <2>2, <3>1, <3>2
    <3>4. \A j \in 1..n : cell[s[j]].gpio # call.ch
      BY <2>2, <2>5, <3>2
    <3> QED BY <1>1, <1>2, <1>5, <2>1, <3>3, <3>4, AppendQuiet
  <2>6. CASE cell[call.at].gpio # call.ch /\ cell[call.at].next # 0
    <3>1. call' = [call EXCEPT !.at = cell[call.at].next] /\ UNCHANGED pwmVars
      BY <1>7, <2>6 DEF FindNext
    <3>2. call'.phase = "walk" /\ call'.at = s[i + 1] /\ call'.ch = call.ch /\ i < n
      BY <1>2, <2>1, <2>2, <2>3, <2>6, <3>1 DEF CallRecord
    <3>3. \A j \in 1..n : j < i + 1 => cell[s[j]].gpio # call.ch
      BY <2>2, <2>6
    <3>4. Walked(n, s)'
      <4>1. i + 1 \in 1..n /\ cell' = cell
        BY <3>1, <3>2 DEF pwmVars
      <4> QED BY <3>2, <3>3, <4>1 DEF Walked
    <3> QED BY <1>1, <1>5, <2>1, <3>1, <3>2, <3>4, WalkQuiet DEF pwmVars
  <2> QED BY <2>4, <2>5, <2>6
<1>8. CASE StoreValue
  <2>1. call.at \in live /\ UNCHANGED <<head, live, pc, p, prev, owner, fault>>
    BY <1>8 DEF StoreValue, threadVars
  <2>2. CASE call.kind = "stop"
    <3>1. Store("running", FALSE) /\ call' = NoCall
      BY <1>8, <2>2 DEF StoreValue
    <3> QED BY <1>1, <1>2, <2>1, <3>1, StopQuiet
  <2>3. CASE call.kind # "stop"
    <3>1. PICK field \in {"freq", "duty"} : \E v : Store(field, v)
      BY <1>8, <2>3 DEF StoreValue
    <3>2. PICK v : Store(field, v)
      BY <3>1
    <3>3. call'.phase = "find"
      <4>1. call' = NoCall \/ call' = [NoCall EXCEPT !.kind = "start", !.ch = call.ch]
        BY <1>8 DEF StoreValue
      <4>2. [NoCall EXCEPT !.kind = "start", !.ch = call.ch].phase = "find"
        BY DEF NoCall
      <4> QED BY <4>1, <4>2, NoCallTyped
    <3> QED BY <1>1, <1>2, <2>1, <3>2, <3>3, PlainStoreQuiet
  <2> QED BY <2>2, <2>3
<1>9. CASE StartThread
  BY <1>1, <1>2, <1>9, StartThreadQuiet
<1>10. CASE StartFails \/ AlreadyRunning
  <2>1. call' = NoCall /\ UNCHANGED <<head, live, cell, pc, p, prev, owner, fault>>
    BY <1>10 DEF StartFails, AlreadyRunning, pwmVars, threadVars
  <2>2. Walked(n, s)' /\ call'.phase = "find"
    BY <2>1, NoCallTyped DEF Walked
  <2> QED BY <1>1, <1>5, <2>1, <2>2, WalkQuiet
<1>11. CASE CallUsesFreed
  <2>1. call.at \in live
    BY <1>5, <1>11, ListKnows DEF CallUsesFreed, Walked, QuietInv, CallInv
  <2> QED BY <1>11, <2>1 DEF CallUsesFreed
<1> QED BY <1>6, <1>7, <1>8, <1>9, <1>10, <1>11 DEF CallStep
-----------------------------------------------------------------------------
(* The steps of a thread.                                                  *)

\* A step in which a thread only moves on within its use of its record.
LEMMA UsingQuiet ==
  ASSUME Types, QuietInv, NEW t \in Thread, Using(t),
         NEW l \in {"loop", "on", "off", "low"}, pc' = [pc EXCEPT ![t] = l],
         l = "low" => ~cell[p[t]].running,
         UNCHANGED <<head, live, cell, p, prev, owner, call, fault>>
  PROVE  QuietInv'
<1>1. /\ \A u \in Thread : (Using(u)' <=> Using(u)) /\ (Removing(u)' <=> Removing(u))
      /\ \A u \in Thread : pc'[u] = "scan" <=> pc[u] = "scan"
      /\ \A u \in Thread : u # t => pc'[u] = pc[u]
      /\ pc'[t] = l
  BY DEF Types, ThreadsOK, Using, Removing
<1>2. \A u \in Thread : Ending(u)' => Ending(u)
  <2> SUFFICES ASSUME NEW u \in Thread, Ending(u)' PROVE Ending(u)
    OBVIOUS
  <2>1. CASE u = t
    BY <1>1, <2>1 DEF Ending, Using
  <2>2. CASE u # t
    BY <1>1, <2>2 DEF Ending
  <2> QED BY <2>1, <2>2
<1>3. UserInv'
  BY <1>1 DEF QuietInv, UserInv
<1>4. OneEnding' /\ CallInv'
  BY <1>2 DEF QuietInv, OneEnding, CallInv, Settled
<1>5. PICK n \in Nat : \E s \in [1..n -> Cell] : List(n, s)
  BY DEF QuietInv, ListInv
<1>6. PICK s \in [1..n -> Cell] : List(n, s)
  BY <1>5
<1>7. Chain(n, s)'
  BY <1>6, ChainSame DEF List
<1>8. Walked(n, s)' /\ Scanned(n, s)'
  BY <1>1, <1>6 DEF List, Walked, Scanned, Between
<1> QED BY <1>3, <1>4, <1>7, <1>8 DEF QuietInv, ListInv, List

\* While a thread ends there is no call, and the other threads use other records.
LEMMA EndingKnows ==
  ASSUME Types, QuietInv, NEW t \in Thread, Ending(t)
  PROVE  /\ call = NoCall /\ call.phase = "find"
         /\ \A u \in Thread : u # t => ~Ending(u) /\ ~Removing(u) /\ pc[u] # "low"
         /\ \A u \in Thread : u # t /\ pc[u] # "none" => Using(u) /\ cell[p[u]].running
<1>1. call = NoCall
  BY DEF QuietInv, CallInv, Settled
<1>2. \A u \in Thread : u # t => ~Ending(u)
  BY DEF QuietInv, OneEnding
<1>3. \A u \in Thread : u # t => ~Removing(u) /\ pc[u] # "low"
  BY <1>2 DEF Ending, Removing
<1>4. \A u \in Thread : u # t /\ pc[u] # "none" => Using(u) /\ cell[p[u]].running
  BY <1>2 DEF Ending, Types, ThreadsOK, Using
<1> QED BY <1>1, <1>2, <1>3, <1>4, NoCallTyped

LEMMA PwmLowQuiet ==
  ASSUME Types, QuietInv, NEW t \in Thread, PwmLow(t)
  PROVE  QuietInv'
<1>1. /\ pc[t] = "low" /\ p[t] \in live /\ Ending(t) /\ Using(t)
      /\ UNCHANGED <<head, live, cell, p, prev, call, fault>>
  BY DEF PwmLow, Ending, Using, pwmVars
<1>2. /\ pc'[t] = "head" /\ owner'[t] = cell[p[t]].gpio
      /\ \A u \in Thread : u # t => pc'[u] = pc[u] /\ owner'[u] = owner[u]
  BY DEF PwmLow, Goto, Types, ThreadsOK
<1>3. PICK n \in Nat : \E s \in [1..n -> Cell] : List(n, s)
  BY DEF QuietInv, ListInv
<1>4. PICK s \in [1..n -> Cell] : List(n, s)
  BY <1>3
<1>5. Chain(n, s) /\ Chain(n, s)'
  BY <1>1, <1>4, ChainSame DEF List
<1>6. UserInv'
  <2>1. \A u \in Thread : Using(u)' => Using(u) /\ u # t
    BY <1>2 DEF Using
  <2>2. \A u \in Thread : Removing(u)' => u = t
    BY <1>1, <1>2, EndingKnows DEF Removing
  <2>3. \A u \in Thread : Using(u)' => cell[p[u]].gpio # owner'[t]
    <3> SUFFICES ASSUME NEW u \in Thread, Using(u)' PROVE cell[p[u]].gpio # cell[p[t]].gpio
      BY <1>2
    <3>1. p[u] \in live /\ p[u] # p[t]
      BY <1>1, <2>1 DEF QuietInv, UserInv
    <3> QED BY <1>1, <1>5, <3>1, ListKnows
  <2>4. \A u \in Thread : prev'[u] = 0
    BY <1>1, EndingKnows DEF QuietInv, UserInv, Removing
  <2>5. \A u \in Thread : Using(u)' => p'[u] \in live'
    BY <1>1, <2>1 DEF QuietInv, UserInv
  <2>6. \A u, w \in Thread : Using(u)' /\ Using(w)' /\ p'[u] = p'[w] => u = w
    BY <1>1, <2>1 DEF QuietInv, UserInv
  <2> QED BY <1>1, <2>2, <2>3, <2>4, <2>5, <2>6 DEF UserInv
<1>7. OneEnding' /\ CallInv'
  <2>1. \A u \in Thread : Ending(u)' => u = t
    BY <1>1, <1>2, EndingKnows DEF Ending
  <2> QED BY <1>1, <2>1, EndingKnows DEF OneEnding, CallInv
<1>8. Walked(n, s)' /\ Scanned(n, s)'
  BY <1>1, <1>2, EndingKnows DEF Walked, Scanned, Removing
<1> QED BY <1>1, <1>5, <1>6, <1>7, <1>8 DEF QuietInv, ListInv, List
\* A step of the walk to the record to remove.
LEMMA ScanQuiet ==
  ASSUME Types, QuietInv, NEW t \in Thread, Removing(t),
         NEW n \in Nat, NEW s \in [1..n -> Cell], Chain(n, s), Between(n, s, t)',
         pc'[t] = "scan",
         \A u \in Thread : u # t => pc'[u] = pc[u] /\ p'[u] = p[u] /\ prev'[u] = prev[u],
         UNCHANGED <<head, live, cell, owner, call, fault>>
  PROVE  QuietInv'
<1>1. Ending(t) /\ ~Using(t)
  BY DEF Removing, Ending, Using
<1>2. \A u \in Thread : Using(u)' => Using(u) /\ u # t
  BY DEF Using
<1>3. \A u \in Thread : Removing(u)' => u = t
  BY <1>1, EndingKnows DEF Removing
<1>4. UserInv'
  <2>1. \A u \in Thread : Using(u)' => p'[u] \in live'
    BY <1>2 DEF QuietInv, UserInv
  <2>2. \A u, w \in Thread : Using(u)' /\ Using(w)' /\ p'[u] = p'[w] => u = w
    BY <1>2 DEF QuietInv, UserInv
  <2>3. \A u, w \in Thread : Removing(u)' /\ Using(w)' => cell'[p'[w]].gpio # owner'[u]
    BY <1>2, <1>3 DEF QuietInv, UserInv
  <2>4. \A u \in Thread : pc'[u] # "scan" => prev'[u] = 0
    BY DEF QuietInv, UserInv
  <2> QED BY <2>1, <2>2, <2>3, <2>4 DEF UserInv
<1>5. \A u \in Thread : Ending(u)' => u = t
  BY <1>1, EndingKnows DEF Ending
<1>6. OneEnding' /\ CallInv' /\ Walked(n, s)'
  BY <1>1, <1>5, EndingKnows DEF OneEnding, CallInv, Walked
<1>7. Scanned(n, s)'
  BY <1>1, EndingKnows DEF Scanned, Removing
<1>8. Chain(n, s)'
  BY ChainSame
<1> QED BY <1>4, <1>6, <1>7, <1>8 DEF QuietInv, ListInv, List

LEMMA RemoveHeadQuiet ==
  ASSUME Types, QuietInv, NEW t \in Thread, RemoveHead(t)
  PROVE  QuietInv'
<1>1. /\ pc[t] = "head" /\ Removing(t) /\ p'[t] = head /\ pc'[t] = "scan"
      /\ \A u \in Thread : u # t => pc'[u] = pc[u] /\ p'[u] = p[u]
      /\ UNCHANGED <<head, live, cell, prev, owner, call, fault>>
  BY DEF RemoveHead, Goto, pwmVars, Removing, Types, ThreadsOK
<1>2. PICK n \in Nat : \E s \in [1..n -> Cell] : List(n, s)
  BY DEF QuietInv, ListInv
<1>3. PICK s \in [1..n -> Cell] : List(n, s)
  BY <1>2
<1>4. Chain(n, s)
  BY <1>3 DEF List
<1>5. prev'[t] = 0
  BY <1>1 DEF QuietInv, UserInv
<1>6. Between(n, s, t)'
  <2>1. p'[t] = IF 0 < n THEN s[0 + 1] ELSE 0
    BY <1>1, <1>4 DEF Chain
  <2> QED BY <1>5, <2>1 DEF Between
<1> QED BY <1>1, <1>4, <1>6, ScanQuiet

\* Where the thread stands: on the cell at i + 1, which it has reached from the one
\* at i, or past the end.
LEMMA ScanStands ==
  ASSUME Types, QuietInv, NEW t \in Thread, pc[t] = "scan"
  PROVE  \E n \in Nat : \E s \in [1..n -> Cell] : Chain(n, s) /\ Between(n, s, t)
BY DEF QuietInv, ListInv, List, Scanned

LEMMA RemoveNextQuiet ==
  ASSUME Types, QuietInv, NEW t \in Thread, RemoveNext(t)
  PROVE  QuietInv'
<1>1. /\ pc[t] = "scan" /\ Removing(t) /\ p[t] \in live /\ pc' = pc
      /\ p'[t] = cell[p[t]].next /\ prev'[t] = p[t]
      /\ \A u \in Thread : u # t => p'[u] = p[u] /\ prev'[u] = prev[u]
      /\ UNCHANGED <<head, live, cell, owner, call, fault>>
  BY DEF RemoveNext, pwmVars, Removing, Types, ThreadsOK
<1>2. PICK n \in Nat : \E s \in [1..n -> Cell] : Chain(n, s) /\ Between(n, s, t)
  BY <1>1, ScanStands
<1>3. PICK s \in [1..n -> Cell] : Chain(n, s) /\ Between(n, s, t)
  BY <1>2
<1>4. PICK i \in 0..n : /\ prev[t] = IF i = 0 THEN 0 ELSE s[i]
                        /\ p[t] = IF i < n THEN s[i + 1] ELSE 0
                        /\ \A j \in 1..i : cell[s[j]].gpio # owner[t]
  BY <1>3 DEF Between
<1>5. i < n
  BY <1>1, <1>4 DEF Types, ListOK, Cell
<1>6. i + 1 \in 1..n /\ i + 1 # 0 /\ p[t] = s[i + 1]
  BY <1>4, <1>5
<1>7. p'[t] = IF i + 1 < n THEN s[(i + 1) + 1] ELSE 0
  BY <1>1, <1>3, <1>6 DEF Chain
<1>8. Between(n, s, t)'
  <2>1. i + 1 \in 0..n /\ prev'[t] = s[i + 1]
    BY <1>1, <1>6
  <2>2. \A j \in 1..(i + 1) : cell[s[j]].gpio # owner[t]
    BY <1>4, <1>6 DEF RemoveNext
  <2> QED BY <1>1, <1>6, <1>7, <2>1, <2>2 DEF Between
<1> QED BY <1>1, <1>3, <1>8, ScanQuiet

LEMMA PwmExitQuiet ==
  ASSUME Types, QuietInv, NEW t \in Thread, PwmExit(t)
  PROVE  QuietInv'
<1>1. /\ pc[t] = "scan" /\ Ending(t) /\ pc'[t] = "none" /\ prev'[t] = 0
      /\ \A u \in Thread : u # t => pc'[u] = pc[u] /\ prev'[u] = prev[u] /\ owner'[u] = owner[u]
      /\ UNCHANGED <<head, live, cell, p, call, fault>>
  BY DEF PwmExit, Goto, pwmVars, Ending, Types, ThreadsOK
<1>2. \A u \in Thread : /\ Using(u)' => Using(u) /\ u # t
                        /\ ~Removing(u)' /\ pc'[u] # "scan" /\ ~Ending(u)'
  <2> SUFFICES ASSUME NEW u \in Thread
               PROVE  /\ Using(u)' => Using(u) /\ u # t
                      /\ ~Removing(u)' /\ pc'[u] # "scan" /\ ~Ending(u)'
    OBVIOUS
  <2>1. CASE u = t
    BY <1>1, <2>1 DEF Using, Removing, Ending
  <2>2. CASE u # t
    BY <1>1, <2>2, EndingKnows DEF Using, Removing, Ending
  <2> QED BY <2>1, <2>2
<1>3. UserInv'
  BY <1>1, <1>2 DEF QuietInv, UserInv
<1>4. OneEnding' /\ CallInv'
  BY <1>1, <1>2, EndingKnows DEF OneEnding, CallInv
<1>5. PICK n \in Nat : \E s \in [1..n -> Cell] : List(n, s)
  BY DEF QuietInv, ListInv
<1>6. PICK s \in [1..n -> Cell] : List(n, s)
  BY <1>5
<1>7. Chain(n, s)'
  BY <1>1, <1>6, ChainSame DEF List
<1>8. Walked(n, s)' /\ Scanned(n, s)'
  BY <1>1, <1>2, EndingKnows DEF Walked, Scanned
<1> QED BY <1>1, <1>3, <1>4, <1>7, <1>8 DEF QuietInv, ListInv, List

\* What PwmUsesFreed describes does not happen.
LEMMA UsesLive ==
  ASSUME Types, QuietInv, NEW t \in Thread
  PROVE  ~PwmUsesFreed(t)
<1>1. pc[t] \in {"loop", "on", "off", "low"} => p[t] \in live
  BY DEF QuietInv, UserInv, Using
<1>2. CASE pc[t] = "scan"
  <2>1. PICK n \in Nat : \E s \in [1..n -> Cell] : Chain(n, s) /\ Between(n, s, t)
    BY <1>2, ScanStands
  <2>2. PICK s \in [1..n -> Cell] : Chain(n, s) /\ Between(n, s, t)
    BY <2>1
  <2>3. \A i \in 1..n : s[i] \in live
    BY <2>2, ListKnows
  <2>4. (p[t] = 0 \/ p[t] \in live) /\ (prev[t] = 0 \/ prev[t] \in live)
    <3>1. PICK i \in 0..n : /\ prev[t] = IF i = 0 THEN 0 ELSE s[i]
                            /\ p[t] = IF i < n THEN s[i + 1] ELSE 0
      BY <2>2 DEF Between
    <3>2. (i # 0 => i \in 1..n) /\ (i < n => i + 1 \in 1..n)
      OBVIOUS
    <3> QED BY <2>3, <3>1, <3>2
  <2> QED BY <1>2, <2>4 DEF PwmUsesFreed
<1>3. CASE pc[t] # "scan"
  BY <1>1, <1>3 DEF PwmUsesFreed
<1> QED BY <1>2, <1>3
\* The record of the thread leaves the list, the only one of its channel.
LEMMA RemoveMatchQuiet ==
  ASSUME Types, QuietInv, NEW t \in Thread, RemoveMatch(t)
  PROVE  QuietInv'
<1>1. /\ pc[t] = "scan" /\ Ending(t) /\ Removing(t) /\ ~Using(t)
      /\ p[t] \in live /\ cell[p[t]].gpio = owner[t]
      /\ UNCHANGED <<pc, prev, owner, call, fault>>
      /\ live' = live \ {p[t]} /\ head' = HeadAfter(t)
  BY DEF RemoveMatch, Ending, Removing, Using
<1>2. p'[t] = cell[p[t]].next /\ \A u \in Thread : u # t => p'[u] = p[u]
  BY DEF RemoveMatch, Types, ThreadsOK
<1>3. /\ cell \in [Cell -> Fields] /\ live \subseteq Cell
  BY DEF Types, ListOK
<1>4. \A k \in live : k # p[t] =>
        /\ cell'[k].gpio = cell[k].gpio /\ cell'[k].running = cell[k].running
        /\ cell'[k].next = IF k = prev[t] THEN cell[p[t]].next ELSE cell[k].next
  <2> SUFFICES ASSUME NEW k \in live, k # p[t]
               PROVE  /\ cell'[k].gpio = cell[k].gpio /\ cell'[k].running = cell[k].running
                      /\ cell'[k].next = IF k = prev[t] THEN cell[p[t]].next ELSE cell[k].next
    OBVIOUS
  <2>1. cell'[k] = IF k = prev[t] THEN [cell[k] EXCEPT !.next = cell[p[t]].next] ELSE cell[k]
    BY <1>3 DEF RemoveMatch
  <2>2. cell[k] \in Fields
    BY <1>3
  <2> QED BY <2>1, <2>2 DEF Fields
<1>5. \A u \in Thread : Using(u) => u # t /\ p[u] \in live /\ p[u] # p[t]
  BY <1>1 DEF QuietInv, UserInv
<1>6. UserInv'
  <2>1. \A u \in Thread : Using(u)' => Using(u) /\ p'[u] = p[u] /\ p'[u] \in live'
                                       /\ cell'[p[u]].gpio = cell[p[u]].gpio
    <3>1. \A u \in Thread : Using(u)' => Using(u)
      BY <1>1 DEF Using
    <3> QED BY <1>1, <1>2, <1>4, <1>5, <3>1
  <2>2. \A u \in Thread : Removing(u)' => Removing(u)
    BY <1>1 DEF Removing
  <2> QED BY <1>1, <2>1, <2>2 DEF QuietInv, UserInv
<1>7. \A u \in Thread : Ending(u)' => u = t
  <2> SUFFICES ASSUME NEW u \in Thread, u # t, Ending(u)' PROVE FALSE
    OBVIOUS
  <2>1. pc[u] # "none" => Using(u) /\ cell[p[u]].running
    BY <1>1, EndingKnows
  <2>2. pc[u] \notin {"low", "head", "scan"}
    BY <1>1, EndingKnows DEF Removing
  <2> QED BY <1>1, <1>2, <1>4, <1>5, <2>1, <2>2 DEF Ending
<1>8. OneEnding' /\ CallInv' /\ \A m, r : Walked(m, r)'
  BY <1>1, <1>7, EndingKnows DEF OneEnding, CallInv, Walked
<1>9. PICK n \in Nat : \E s \in [1..n -> Cell] : Chain(n, s) /\ Between(n, s, t)
  BY <1>1, ScanStands
<1>10. PICK s \in [1..n -> Cell] : Chain(n, s) /\ Between(n, s, t)
  BY <1>9
<1>11. PICK i \in 0..n : /\ prev[t] = IF i = 0 THEN 0 ELSE s[i]
                         /\ p[t] = IF i < n THEN s[i + 1] ELSE 0
                         /\ \A j \in 1..i : cell[s[j]].gpio # owner[t]
  BY <1>10 DEF Between
<1>12. i < n /\ p[t] = s[i + 1] /\ i + 1 \in 1..n /\ n - 1 \in Nat
  BY <1>1, <1>3, <1>11 DEF Cell
<1>13. cell[p[t]].next = IF i + 1 < n THEN s[i + 2] ELSE 0
  BY <1>10, <1>12 DEF Chain
<1> DEFINE r == [j \in 1..(n - 1) |-> IF j <= i THEN s[j] ELSE s[j + 1]]
<1>14. /\ r \in [1..(n - 1) -> Cell]
       /\ \A j \in 1..(n - 1) : /\ j <= i => r[j] = s[j] /\ j \in 1..n
                                /\ j > i => r[j] = s[j + 1] /\ j + 1 \in 1..n
  <2>1. \A j \in 1..(n - 1) : j \in 1..n /\ j + 1 \in 1..n
    BY <1>12
  <2> QED BY <2>1
<1>15. \A j \in 1..(n - 1) : \E m \in 1..n : /\ r[j] = s[m] /\ m # i + 1
                                             /\ m = IF j <= i THEN j ELSE j + 1
  <2> SUFFICES ASSUME NEW j \in 1..(n - 1)
               PROVE  \E m \in 1..n : r[j] = s[m] /\ m # i + 1 /\ m = IF j <= i THEN j ELSE j + 1
    OBVIOUS
  <2> HIDE DEF r
  <2>1. CASE j <= i
    BY <1>12, <1>14, <2>1
  <2>2. CASE j > i
    BY <1>12, <1>14, <2>2
  <2> QED BY <2>1, <2>2
<1>16. \A m \in 1..n : s[m] \in live /\ (m # i + 1 => s[m] # p[t])
  BY <1>10, <1>12, ListKnows DEF Chain
<1>17. Chain(n - 1, r)'
  <2> HIDE DEF r
  <2>1. live' = {r[j] : j \in 1..(n - 1)}
    <3>1. \A j \in 1..(n - 1) : r[j] \in live'
      BY <1>1, <1>15, <1>16
    <3>2. \A k \in live' : \E j \in 1..(n - 1) : k = r[j]
      <4> SUFFICES ASSUME NEW k \in live' PROVE \E j \in 1..(n - 1) : k = r[j]
        OBVIOUS
      <4>1. PICK m \in 1..n : k = s[m]
        BY <1>1, <1>10, ListKnows
      <4>2. m # i + 1
        BY <1>1, <1>12, <4>1
      <4>3. CASE m <= i
        <5>1. m \in 1..(n - 1)
          BY <1>12, <4>3
        <5> QED BY <1>14, <4>1, <4>3, <5>1
      <4>4. CASE m > i + 1
        <5>1. m - 1 \in 1..(n - 1) /\ m - 1 > i /\ (m - 1) + 1 = m
          BY <1>12, <4>4
        <5> QED BY <1>14, <4>1, <5>1
      <4> QED BY <4>2, <4>3, <4>4
    <3> QED BY <3>1, <3>2
  <2>2. \A j, l \in 1..(n - 1) : r[j] = r[l] => j = l
    BY <1>10, <1>15 DEF Chain
  <2>3. \A j \in 1..(n - 1) : cell'[r[j]].gpio = cell[r[j]].gpio
    BY <1>4, <1>15, <1>16
  <2>4. \A j, l \in 1..(n - 1) : cell'[r[j]].gpio = cell'[r[l]].gpio => j = l
    <3> SUFFICES ASSUME NEW j \in 1..(n - 1), NEW l \in 1..(n - 1),
                        cell'[r[j]].gpio = cell'[r[l]].gpio
                 PROVE  j = l
      OBVIOUS
    <3>1. PICK a \in 1..n : r[j] = s[a] /\ a = IF j <= i THEN j ELSE j + 1
      BY <1>15
    <3>2. PICK b \in 1..n : r[l] = s[b] /\ b = IF l <= i THEN l ELSE l + 1
      BY <1>15
    <3>3. cell[s[a]].gpio = cell[s[b]].gpio
      BY <2>3, <3>1, <3>2
    <3>4. a = b
      BY <1>10, <3>3 DEF Chain
    <3> QED BY <3>1, <3>2, <3>4
  <2>5. head' = IF n - 1 = 0 THEN 0 ELSE r[1]
    <3>1. CASE i = 0
      <4>1. head' = cell[p[t]].next
        BY <1>1, <1>11, <3>1 DEF HeadAfter
      <4> QED BY <1>12, <1>13, <1>14, <3>1, <4>1
    <3>2. CASE i # 0
      <4>1. head' = head /\ n - 1 # 0 /\ 1 \in 1..(n - 1) /\ 1 <= i
        <5>1. i \in 1..n
          BY <3>2
        <5>2. s[i] # 0
          BY <5>1 DEF Cell
        <5> QED BY <1>1, <1>11, <1>12, <3>2, <5>2 DEF HeadAfter
      <4> QED BY <1>10, <1>14, <4>1 DEF Chain
    <3> QED BY <3>1, <3>2
  <2>6. \A j \in 1..(n - 1) : cell'[r[j]].next = IF j < n - 1 THEN r[j + 1] ELSE 0
    <3> SUFFICES ASSUME NEW j \in 1..(n - 1)
                 PROVE  cell'[r[j]].next = IF j < n - 1 THEN r[j + 1] ELSE 0
      OBVIOUS
    <3>1. j < n - 1 => j + 1 \in 1..(n - 1)
      OBVIOUS
    <3>2. CASE j < i
      <4>1. r[j] = s[j] /\ j \in 1..n /\ j # i /\ j < n - 1 /\ r[j + 1] = s[j + 1]
        BY <1>12, <1>14, <3>1, <3>2
      <4>2. s[j] # prev[t]
        BY <1>10, <1>11, <4>1, <3>2 DEF Chain
      <4>3. cell[s[j]].next = s[j + 1]
        BY <1>10, <1>12, <3>2, <4>1 DEF Chain
      <4>4. s[j] \in live /\ s[j] # p[t]
        BY <1>16, <3>2, <4>1
      <4> QED BY <1>4, <4>1, <4>2, <4>3, <4>4
    <3>3. CASE j = i
      <4>1. r[j] = s[i] /\ i \in 1..n /\ prev[t] = s[i]
        BY <1>11, <1>14, <3>3
      <4>2. s[i] \in live /\ s[i] # p[t]
        BY <1>16, <4>1
      <4>3. cell'[r[j]].next = IF i + 1 < n THEN s[i + 2] ELSE 0
        BY <1>4, <1>13, <4>1, <4>2
      <4>4. i + 1 < n => r[i + 1] = s[i + 2]
        <5> SUFFICES ASSUME i + 1 < n PROVE r[i + 1] = s[i + 2]
          OBVIOUS
        <5>1. i + 1 \in 1..(n - 1) /\ i + 1 > i /\ (i + 1) + 1 = i + 2
          BY <1>12
        <5> QED BY <1>14, <5>1
      <4> QED BY <1>12, <3>3, <4>3, <4>4
    <3>4. CASE j > i
      <4>1. r[j] = s[j + 1] /\ j + 1 \in 1..n /\ j + 1 # i + 1 /\ j + 1 # i
        BY <1>14, <3>4
      <4>2. s[j + 1] \in live /\ s[j + 1] # p[t]
        BY <1>16, <4>1
      <4>3. s[j + 1] # prev[t]
        <5>1. CASE i = 0
          BY <1>11, <4>1, <5>1 DEF Cell
        <5>2. CASE i # 0
          BY <1>10, <1>11, <4>1, <5>2 DEF Chain
        <5> QED BY <5>1, <5>2
      <4>4. cell[s[j + 1]].next = IF j + 1 < n THEN s[(j + 1) + 1] ELSE 0
        BY <1>10, <4>1 DEF Chain
      <4>5. j < n - 1 => r[j + 1] = s[(j + 1) + 1]
        BY <1>14, <3>1, <3>4
      <4> QED BY <1>4, <4>1, <4>2, <4>3, <4>4, <4>5
    <3> QED BY <3>2, <3>3, <3>4
  <2> QED BY <2>1, <2>2, <2>4, <2>5, <2>6 DEF Chain
<1>18. Scanned(n - 1, r)'
  <2> HIDE DEF r
  <2>1. \A u \in Thread : pc'[u] = "scan" => u = t
    BY <1>1, EndingKnows DEF Removing
  <2>2. i \in 0..(n - 1)
    BY <1>12
  <2>3. prev'[t] = IF i = 0 THEN 0 ELSE r[i]
    <3>1. i # 0 => i \in 1..(n - 1)
      BY <2>2
    <3> QED BY <1>1, <1>11, <1>14, <3>1
  <2>4. p'[t] = IF i < n - 1 THEN r[i + 1] ELSE 0
    <3>1. CASE i < n - 1
      <4>1. i + 1 \in 1..(n - 1) /\ i + 1 > i /\ (i + 1) + 1 = i + 2 /\ i + 1 < n
        BY <1>12, <3>1
      <4> QED BY <1>2, <1>13, <1>14, <4>1, <3>1
    <3>2. CASE ~(i < n - 1)
      BY <1>2, <1>12, <1>13, <3>2
    <3> QED BY <3>1, <3>2
  <2>5. \A j \in 1..i : cell'[r[j]].gpio # owner'[t]
    <3> SUFFICES ASSUME NEW j \in 1..i PROVE cell'[r[j]].gpio # owner'[t]
      OBVIOUS
    <3>1. j \in 1..(n - 1) /\ j \in 1..n /\ j # i + 1 /\ r[j] = s[j]
      BY <1>12, <1>14
    <3> QED BY <1>1, <1>4, <1>11, <1>16, <3>1
  <2>6. Between(n - 1, r, t)'
    BY <2>2, <2>3, <2>4, <2>5 DEF Between
  <2> QED BY <2>1, <2>6 DEF Scanned
<1>19. ListInv'
  <2>1. List(n - 1, r)'
    BY <1>8, <1>17, <1>18 DEF List
  <2> HIDE DEF r
  <2> QED BY <1>12, <1>14, <2>1 DEF ListInv
<1> QED BY <1>1, <1>6, <1>8, <1>19 DEF QuietInv
LEMMA PwmStepQuiet ==
  ASSUME Types, QuietInv, NEW t \in Thread, PwmStep(t)
  PROVE  QuietInv'
<1>1. CASE PwmLoop(t)
  <2>1. /\ Using(t) /\ UNCHANGED <<head, live, cell, p, prev, owner, call, fault>>
        /\ \/ pc' = [pc EXCEPT ![t] = "on"]
           \/ pc' = [pc EXCEPT ![t] = "low"] /\ ~cell[p[t]].running
    BY <1>1 DEF PwmLoop, Goto, Using, pwmVars
  <2> QED BY <2>1, UsingQuiet
<1>2. CASE PwmOn(t)
  <2>1. /\ Using(t) /\ UNCHANGED <<head, live, cell, p, prev, owner, call, fault>>
        /\ pc' = [pc EXCEPT ![t] = "off"]
    BY <1>2 DEF PwmOn, Goto, Using, pwmVars
  <2> QED BY <2>1, UsingQuiet
<1>3. CASE PwmOff(t)
  <2>1. /\ Using(t) /\ UNCHANGED <<head, live, cell, p, prev, owner, call, fault>>
        /\ pc' = [pc EXCEPT ![t] = "loop"]
    BY <1>3 DEF PwmOff, Goto, Using, pwmVars
  <2> QED BY <2>1, UsingQuiet
<1> QED BY <1>1, <1>2, <1>3, PwmLowQuiet, RemoveHeadQuiet, RemoveMatchQuiet, RemoveNextQuiet,
           PwmExitQuiet, UsesLive DEF PwmStep

-----------------------------------------------------------------------------
(* The theorems.                                                           *)

LEMMA QuietInit == Init => QuietInv
<1> SUFFICES ASSUME Init PROVE QuietInv
  OBVIOUS
<1> DEFINE s == [i \in 1..0 |-> 0]
<1>1. Chain(0, s) /\ s \in [1..0 -> Cell]
  BY DEF Init, Chain
<1>2. Walked(0, s) /\ Scanned(0, s)
  BY NoCallTyped DEF Init, Walked, Scanned
<1>3. ListInv
  <2> HIDE DEF s
  <2> QED BY <1>1, <1>2 DEF ListInv, List
<1>4. CallInv /\ OneEnding /\ UserInv
  BY NoCallTyped DEF Init, CallInv, OneEnding, Ending, UserInv, Using, Removing
<1> QED BY <1>3, <1>4 DEF Init, QuietInv

\* A method that makes no race is called while no thread ends.
LEMMA CalledSettled ==
  ASSUME Method, ~Race'
  PROVE  Settled
<1>1. \E kind \in {"frequency", "duty", "dutyAndStart", "stop"} : \E c, v : Call(kind, c, v)
  BY DEF Method, NewObject, ChangeFrequency, ChangeDutyCycle, Start, Stop, Dealloc
<1>2. PICK kind \in {"frequency", "duty", "dutyAndStart", "stop"} : \E c, v : Call(kind, c, v)
  BY <1>1
<1>3. UNCHANGED <<cell, pc, p>> /\ call'.kind = kind
  BY <1>2 DEF Call, NoCall, pwmVars, threadVars
<1>4. call' # NoCall
  BY <1>3 DEF NoCall
<1> QED BY <1>3, <1>4 DEF Race, Settled, Ending

\* What holds until the program has raced.
Unraced == ~raced => QuietInv

\* Nothing changes.
LEMMA QuietStutters ==
  ASSUME QuietInv, UNCHANGED <<head, live, cell, pc, p, prev, owner, call, fault>>
  PROVE  QuietInv'
<1>1. PICK n \in Nat : \E s \in [1..n -> Cell] : List(n, s)
  BY DEF QuietInv, ListInv
<1>2. PICK s \in [1..n -> Cell] : List(n, s)
  BY <1>1
<1>3. List(n, s)'
  BY <1>2, ChainSame DEF List, Walked, Scanned, Between
<1>4. ListInv'
  BY <1>3 DEF ListInv
<1>5. CallInv' /\ OneEnding'
  BY DEF QuietInv, CallInv, Settled, OneEnding, Ending
<1>6. UserInv'
  BY DEF QuietInv, UserInv, Using, Removing
<1> QED BY <1>4, <1>5, <1>6 DEF QuietInv

LEMMA QuietNext ==
  ASSUME Types, QuietInv, [Next]_vars, ~Race'
  PROVE  QuietInv'
<1>1. CASE Next
  BY <1>1, CalledSettled, MethodQuiet, CallStepQuiet, PwmStepQuiet DEF Next
<1>2. CASE UNCHANGED vars
  BY <1>2, QuietStutters DEF vars
<1> QED BY <1>1, <1>2

\* The history variable changes nothing.
LEMMA RacesImplementSpec == RaceSpec => Spec
<1>1. RaceInit => Init
  BY DEF RaceInit
<1>2. [RaceNext]_<<vars, raced>> => [Next]_vars
  BY DEF RaceNext, vars
<1> QED BY <1>1, <1>2, PTL DEF RaceSpec, Spec

LEMMA UnracedInvariant == RaceSpec => []Unraced
<1>1. RaceInit => Unraced
  BY QuietInit DEF RaceInit, Unraced
<1>2. Types /\ Unraced /\ [RaceNext]_<<vars, raced>> => Unraced'
  <2> SUFFICES ASSUME Types, QuietInv, [RaceNext]_<<vars, raced>>, ~raced' PROVE QuietInv'
    BY DEF Unraced, RaceNext
  <2>1. CASE RaceNext
    BY <2>1, QuietNext DEF RaceNext
  <2>2. CASE UNCHANGED <<vars, raced>>
    BY <2>2, QuietStutters DEF vars
  <2> QED BY <2>1, <2>2
<1> QED BY <1>1, <1>2, RacesImplementSpec, TypesInvariant, PTL DEF RaceSpec

\* Whatever the program, and whatever interleaves: a freed or NULL record is used only
\* after a method overlapped a thread that was told to end.  No failing call, no
\* number of threads that run on and no order of the methods is another way to it.
THEOREM OnlyRacesFault == RaceSpec => []FaultsAreRaces
<1>1. Unraced => FaultsAreRaces
  BY DEF Unraced, QuietInv, FaultsAreRaces
<1> QED BY <1>1, UnracedInvariant, PTL

\* Nor is a channel toggled by two threads before that.
THEOREM OneDriverUntilThen == RaceSpec => []OneDriverUntilRace
<1>1. Unraced => OneDriverUntilRace
  <2> SUFFICES ASSUME QuietInv, NEW c \in Channel, NEW t \in Thread, NEW u \in Thread,
                      Drives(t, c), Drives(u, c)
               PROVE  t = u
    BY DEF Unraced, OneDriverUntilRace
  <2>1. PICK n \in Nat : \E s \in [1..n -> Cell] : Chain(n, s)
    BY DEF QuietInv, ListInv, List
  <2>2. p[t] = p[u]
    BY <2>1, ListKnows DEF Drives
  <2> QED BY <2>2 DEF QuietInv, UserInv, Drives, Using
<1> QED BY <1>1, UnracedInvariant, PTL

-----------------------------------------------------------------------------
(* What was started is driven, at the frequency asked for.                 *)

RecordsOf(c) == {k \in live : cell[k].gpio = c}
Runs(c) == \E k \in RecordsOf(c) : cell[k].running

\* The record of a stopped channel, which its thread has yet to free.
Doomed(k) ==
  \E t \in Thread : \/ Using(t) /\ p[t] = k /\ (pc[t] = "low" \/ ~cell[k].running)
                    \/ Removing(t) /\ owner[t] = cell[k].gpio

\* The record that a method looks up has the frequency of the object, or will be
\* made with it.
Ready(c) == /\ \A k \in RecordsOf(c) : cell[k].freq = object[c].freq
            /\ RecordsOf(c) = {} => object[c].freq = Default

\* ... once the ending threads are gone.
Waiting(c) ==
  \/ /\ object[c].freq = Default
     /\ \A k \in RecordsOf(c) : Doomed(k) \/ cell[k].freq = Default
  \/ \E k \in RecordsOf(c) : ~Doomed(k) /\ cell[k].freq = object[c].freq

\* A channel that no method in progress is about.
Kept(c) ==
  /\ Runs(c) => object[c].started
  /\ object[c].started =>
       \E k \in RecordsOf(c) : cell[k].running /\ cell[k].freq = object[c].freq
  /\ ~object[c].started /\ object[c].freq # 0 => Waiting(c)

\* What the method in progress has still to do for its channel.
Pending(c) ==
  /\ call.phase = "store" => cell[call.at].gpio = c
  /\ call.kind = "duty" => Kept(c)
  /\ call.kind = "frequency" => (Runs(c) <=> object[c].started) /\ object[c].freq = call.val
  /\ call.kind \in {"dutyAndStart", "start"} => object[c].started /\ Ready(c)
  /\ call.kind = "stop" =>
       /\ ~object[c].started
       /\ object[c].freq # 0 => IF Runs(c) THEN object[c].freq = Default ELSE Ready(c)

ObjectInv ==
  /\ \A k \in live : cell[k].gpio \in Channel
  /\ \A k \in live : Doomed(k) => ~cell[k].running
  /\ call # NoCall => call.ch \in Channel
  /\ \A c \in Channel : IF c = call.ch THEN Pending(c) ELSE Kept(c)

LEMMA OneRecord ==
  ASSUME QuietInv
  PROVE  \A k, l \in live : cell[k].gpio = cell[l].gpio => k = l
<1>1. PICK n \in Nat : \E s \in [1..n -> Cell] : Chain(n, s)
  BY DEF QuietInv, ListInv, List
<1> QED BY <1>1, ListKnows

LEMMA SettledDooms ==
  ASSUME Types, UserInv, Settled
  PROVE  \A k : ~Doomed(k)
<1>1. \A t \in Thread : pc[t] # "low"
  BY DEF Settled, Ending
<1> QED BY <1>1, SettledKnows DEF Doomed, Using

LEMMA NoCallFacts ==
  /\ NoCall.ch = NoChannel /\ NoChannel \notin Channel
  /\ NoCall.kind = "idle" /\ NoCall.phase = "find"
BY Parameters DEF NoCall

\* In the state that a method is called in, its record is ready.
LEMMA KeptIsReady ==
  ASSUME Types, QuietInv, Settled, NEW c \in Channel, Kept(c), object[c] # NoObject
  PROVE  Ready(c) /\ (Runs(c) <=> object[c].started) /\ object[c].freq # 0
<1>1. \A k : ~Doomed(k)
  BY SettledDooms DEF QuietInv
<1>2. \A k, l \in RecordsOf(c) : k = l
  BY OneRecord DEF RecordsOf
<1>3. Runs(c) <=> object[c].started
  BY DEF Kept, Runs
<1>4. CASE object[c].started
  <2>1. PICK k \in RecordsOf(c) : cell[k].running /\ cell[k].freq = object[c].freq
    BY <1>4 DEF Kept
  <2>2. Ready(c)
    BY <1>2, <2>1 DEF Ready
  <2>3. cell[k].freq \in Freqs \cup {Default}
    BY <2>1 DEF RecordsOf, Types, ListOK, Fields
  <2> QED BY <1>3, <2>1, <2>2, <2>3, Parameters
<1>5. CASE ~object[c].started
  <2>1. object[c].freq # 0
    BY <1>5 DEF NoObject, Types, ObjectOK
  <2>2. Waiting(c)
    BY <1>5, <2>1 DEF Kept
  <2>3. Ready(c)
    BY <1>1, <1>2, <2>2 DEF Waiting, Ready
  <2> QED BY <1>3, <2>1, <2>3
<1> QED BY <1>4, <1>5

\* Nothing is different for c.
LEMMA KeptStays ==
  ASSUME NEW c \in Channel, Kept(c), RecordsOf(c)' = RecordsOf(c), object'[c] = object[c],
         \A k \in RecordsOf(c) : /\ cell'[k].running = cell[k].running
                                 /\ cell'[k].freq = cell[k].freq /\ (Doomed(k)' <=> Doomed(k))
  PROVE  Kept(c)'
<1>1. Runs(c)' <=> Runs(c)
  BY DEF Runs
<1>2. Waiting(c) => Waiting(c)'
  BY DEF Waiting
<1> QED BY <1>1, <1>2 DEF Kept

\* A method is called, which gives the object its state at once.
LEMMA MethodObjects ==
  ASSUME Types, QuietInv, ObjectInv, Settled, Method
  PROVE  ObjectInv'
<1>1. PICK c \in program.channels :
        \/ \E f \in Freqs : NewObject(c, f) \/ ChangeFrequency(c, f)
        \/ \E d \in Duties : ChangeDutyCycle(c, d) \/ Start(c, d)
        \/ Stop(c) \/ Dealloc(c)
  BY DEF Method
<1>2. c \in Channel
  BY <1>1, Parameters DEF Types, OthersOK
<1>3. PICK kind, v : Call(kind, c, v)
  BY <1>1 DEF NewObject, ChangeFrequency, ChangeDutyCycle, Start, Stop, Dealloc
<1>4. /\ call = NoCall /\ Settled /\ UNCHANGED <<live, cell, pc, p, owner>>
      /\ call' = [kind |-> kind, ch |-> c, val |-> v, at |-> 0, phase |-> "find"]
  BY <1>3 DEF Call, NoCall, pwmVars, threadVars
<1>5. object \in [Channel -> [freq : Freqs \cup {0, Default}, started : BOOLEAN]]
  BY DEF Types, ObjectOK
<1>6. \A d \in Channel \ {c} : object'[d] = object[d]
  BY <1>1, <1>5 DEF NewObject, ChangeFrequency, ChangeDutyCycle, Start, Stop, Dealloc
<1>7. \A d : RecordsOf(d)' = RecordsOf(d)
  BY <1>4 DEF RecordsOf
<1>8. \A d : Runs(d)' = Runs(d)
  BY <1>4, <1>7 DEF Runs
<1>9. \A k : Doomed(k)' <=> Doomed(k)
  BY <1>4 DEF Doomed, Using, Removing
<1>10. \A d \in Channel : Kept(d)
  BY <1>4, NoCallFacts DEF ObjectInv
<1>11. \A d \in Channel \ {c} : Kept(d)'
  BY <1>4, <1>6, <1>7, <1>9, <1>10, KeptStays
<1>12. ASSUME object[c] # NoObject
       PROVE  Ready(c) /\ (Runs(c) <=> object[c].started) /\ object[c].freq # 0
  BY <1>2, <1>4, <1>10, <1>12, KeptIsReady
<1>13. ASSUME UNCHANGED object[c].freq, Ready(c) PROVE Ready(c)'
  BY <1>4, <1>7, <1>13 DEF Ready
<1>14. ASSUME NEW k, NEW w, Call(k, c, w) PROVE kind = k /\ v = w
  <2>1. call' = [kind |-> k, ch |-> c, val |-> w, at |-> 0, phase |-> "find"]
    BY <1>14 DEF Call, NoCall
  <2> QED BY <1>4, <2>1
<1>15. \A k \in live' : cell'[k].gpio \in Channel
  BY <1>4 DEF ObjectInv
<1>16. \A k \in live' : Doomed(k)' => ~cell'[k].running
  BY <1>4, <1>9 DEF ObjectInv
<1>17. call'.ch = c
  BY <1>4
<1>18. Pending(c)'
  <2>1. ASSUME NEW f \in Freqs, NewObject(c, f) PROVE Pending(c)'
    <3>1. object[c] = NoObject /\ object'[c].freq = f /\ object'[c].started = object[c].started
      BY <1>2, <1>5, <2>1 DEF NewObject
    <3>2. ~Runs(c) /\ ~object[c].started
      BY <1>2, <1>10, <3>1 DEF Kept, NoObject
    <3>3. kind = "frequency" /\ v = f
      BY <1>14, <2>1 DEF NewObject
    <3> QED BY <1>4, <1>8, <3>1, <3>2, <3>3 DEF Pending
  <2>2. ASSUME NEW f \in Freqs, ChangeFrequency(c, f) PROVE Pending(c)'
    <3>1. object[c] # NoObject /\ object'[c].freq = f /\ object'[c].started = object[c].started
      BY <1>2, <1>5, <2>2 DEF ChangeFrequency, Has
    <3>2. kind = "frequency" /\ v = f
      BY <1>14, <2>2 DEF ChangeFrequency
    <3> QED BY <1>4, <1>8, <1>12, <3>1, <3>2 DEF Pending
  <2>3. ASSUME NEW d \in Duties, ChangeDutyCycle(c, d) PROVE Pending(c)'
    <3>1. object' = object /\ kind = "duty"
      BY <1>14, <2>3 DEF ChangeDutyCycle
    <3>2. Kept(c)'
      BY <1>2, <1>4, <1>7, <1>9, <1>10, <3>1, KeptStays
    <3> QED BY <1>4, <3>1, <3>2 DEF Pending
  <2>4. ASSUME NEW d \in Duties, Start(c, d) PROVE Pending(c)'
    <3>1. object[c] # NoObject /\ object'[c].freq = object[c].freq /\ object'[c].started
      BY <1>2, <1>5, <2>4 DEF Start, Has
    <3>2. kind = "dutyAndStart"
      BY <1>14, <2>4 DEF Start
    <3> QED BY <1>4, <1>12, <1>13, <3>1, <3>2 DEF Pending
  <2>5. CASE Stop(c)
    <3>1. /\ object[c] # NoObject /\ ~object'[c].started
          /\ object'[c].freq = IF object[c].started THEN Default ELSE object[c].freq
      BY <1>2, <1>5, <2>5 DEF Stop, Has
    <3>2. kind = "stop"
      BY <1>14, <2>5 DEF Stop
    <3> QED BY <1>4, <1>8, <1>12, <1>13, <3>1, <3>2 DEF Pending
  <2>6. CASE Dealloc(c)
    <3>1. ~object'[c].started /\ object'[c].freq = 0
      BY <1>2, <1>5, <2>6 DEF Dealloc, NoObject
    <3>2. kind = "stop"
      BY <1>14, <2>6 DEF Dealloc
    <3> QED BY <1>4, <3>1, <3>2 DEF Pending
  <2> QED BY <1>1, <2>1, <2>2, <2>3, <2>4, <2>5, <2>6
<1> QED BY <1>2, <1>11, <1>15, <1>16, <1>17, <1>18 DEF ObjectInv

\* A step of find_pwm that changes no record.
LEMMA WalkObjects ==
  ASSUME ObjectInv, call # NoCall, NEW at, NEW phase,
         call' = [call EXCEPT !.at = at, !.phase = phase], call \in CallRecord,
         phase = "store" => cell[at].gpio = call.ch,
         UNCHANGED <<live, cell, pc, p, owner, object>>
  PROVE  ObjectInv'
<1>1. /\ call'.kind = call.kind /\ call'.ch = call.ch /\ call'.val = call.val
      /\ call'.at = at /\ call'.phase = phase
  BY DEF CallRecord
<1>2. \A c : RecordsOf(c)' = RecordsOf(c)
  BY DEF RecordsOf
<1>3. \A k : Doomed(k)' <=> Doomed(k)
  BY DEF Doomed, Using, Removing
<1>4. \A c \in Channel : Kept(c) => Kept(c)'
  BY <1>2, <1>3, KeptStays
<1>5. \A c \in Channel : Runs(c)' = Runs(c) /\ Ready(c)' = Ready(c)
  BY <1>2 DEF Runs, Ready
<1>6. ASSUME NEW c \in Channel, c = call.ch, Pending(c) PROVE Pending(c)'
  <2>1. call'.phase = "store" => cell'[call'.at].gpio = c
    BY <1>1, <1>6
  <2> QED BY <1>1, <1>4, <1>5, <1>6, <2>1 DEF Pending
<1> QED BY <1>1, <1>3, <1>4, <1>6 DEF ObjectInv

\* A new record is at the default frequency and not running, which is right for a
\* channel without one.
LEMMA AppendObjects ==
  ASSUME Types, QuietInv, Settled, ObjectInv, call # NoCall, NEW last \in Cell \cup {0}, LinkCell(last),
         RecordsOf(call.ch) = {}, UNCHANGED <<pc, p, owner, object>>
  PROVE  ObjectInv'
<1>1. PICK n \in Cell \ live :
        /\ live' = live \cup {n}
        /\ cell' = [j \in Cell |-> IF j = n THEN NewPwm(call.ch)
                                  ELSE IF j = last THEN [cell[j] EXCEPT !.next = n]
                                  ELSE cell[j]]
        /\ call' = [call EXCEPT !.at = n, !.phase = "store"]
  BY DEF LinkCell
<1>2. PICK c \in Channel : c = call.ch /\ Pending(c)
  BY DEF ObjectInv
<1>3. cell \in [Cell -> Fields] /\ live \subseteq Cell /\ call \in CallRecord
  BY DEF Types, ListOK, CallOK
<1>4. /\ call'.kind = call.kind /\ call'.ch = c /\ call'.val = call.val
      /\ call'.at = n /\ call'.phase = "store"
  BY <1>1, <1>2, <1>3 DEF CallRecord
<1>5. cell'[n].gpio = c /\ cell'[n].freq = Default /\ ~cell'[n].running
  BY <1>1, <1>2 DEF NewPwm
<1>6. ASSUME NEW k \in live
      PROVE  /\ k # n /\ cell'[k].gpio = cell[k].gpio
             /\ cell'[k].freq = cell[k].freq /\ cell'[k].running = cell[k].running
  <2>1. k \in Cell /\ k # n
    BY <1>1, <1>3
  <2>2. cell'[k] = IF k = last THEN [cell[k] EXCEPT !.next = n] ELSE cell[k]
    BY <1>1, <2>1
  <2>3. cell[k] \in Fields
    BY <1>3, <2>1
  <2> QED BY <2>1, <2>2, <2>3 DEF Fields
<1>7. /\ RecordsOf(c) = {} /\ RecordsOf(c)' = {n}
      /\ \A d : d # c => RecordsOf(d)' = RecordsOf(d)
  BY <1>1, <1>2, <1>5, <1>6 DEF RecordsOf
<1>8. \A k : ~Doomed(k) /\ ~Doomed(k)'
  <2>1. \A k : ~Doomed(k)
    BY SettledDooms DEF QuietInv
  <2>2. \A t \in Thread : pc[t] # "none" => Using(t) /\ p[t] \in live /\ cell[p[t]].running /\ pc[t] # "low"
    BY SettledKnows DEF QuietInv, Settled, Ending
  <2>3. \A t \in Thread : ~Removing(t)'
    BY SettledKnows DEF QuietInv, Removing
  <2>4. \A t \in Thread : Using(t)' => pc'[t] # "low" /\ cell'[p'[t]].running
    BY <1>6, <2>2 DEF Using
  <2> QED BY <2>1, <2>3, <2>4 DEF Doomed
<1>9. ASSUME NEW d \in Channel, d # c PROVE Kept(d)'
  <2>1. Kept(d)
    BY <1>2, <1>9 DEF ObjectInv
  <2> QED BY <1>6, <1>7, <1>8, <1>9, <2>1, KeptStays DEF RecordsOf
<1>10. ~Runs(c) /\ ~Runs(c)'
  BY <1>5, <1>7 DEF Runs
<1>11. Ready(c) => Ready(c)'
  BY <1>5, <1>7 DEF Ready
<1>12. Kept(c) => Kept(c)'
  <2> SUFFICES ASSUME Kept(c) PROVE Kept(c)'
    OBVIOUS
  <2>1. ~object[c].started
    BY <1>7 DEF Kept
  <2>2. Waiting(c) => Waiting(c)'
    BY <1>5, <1>7 DEF Waiting
  <2> QED BY <1>10, <2>1, <2>2 DEF Kept
<1>13. Pending(c)'
  BY <1>2, <1>4, <1>5, <1>10, <1>11, <1>12 DEF Pending
<1>14. \A k \in live' : cell'[k].gpio \in Channel
  BY <1>1, <1>5, <1>6 DEF ObjectInv
<1> QED BY <1>4, <1>8, <1>9, <1>13, <1>14 DEF ObjectInv

LEMMA StoreFields ==
  ASSUME Types, call.at \in live, NEW field \in {"freq", "duty", "running"}, NEW v, Store(field, v)
  PROVE  /\ \A k \in live : k # call.at => cell'[k] = cell[k]
         /\ cell'[call.at].gpio = cell[call.at].gpio
         /\ cell'[call.at].freq = IF field = "freq" THEN v ELSE cell[call.at].freq
         /\ cell'[call.at].running = IF field = "running" THEN v ELSE cell[call.at].running
<1>1. cell \in [Cell -> Fields] /\ live \subseteq Cell
  BY DEF Types, ListOK
<1> DEFINE old == cell[call.at]
           new == [old EXCEPT ![field] = v]
<1>2. old \in Fields
  BY <1>1
<1>3. /\ new.gpio = old.gpio
      /\ new.freq = IF field = "freq" THEN v ELSE old.freq
      /\ new.running = IF field = "running" THEN v ELSE old.running
  <2> HIDE DEF old
  <2> QED BY <1>2 DEF Fields
<1>4. cell' = [cell EXCEPT ![call.at] = new]
  BY DEF Store
<1> HIDE DEF new
<1> QED BY <1>1, <1>3, <1>4

\* The record found is the only one of the call's channel.
LEMMA FoundRecord ==
  ASSUME QuietInv, ObjectInv, NEW c \in Channel, call.ch = c, call.phase = "store", call.at \in live
  PROVE  Pending(c) /\ RecordsOf(c) = {call.at}
<1>1. Pending(c) /\ cell[call.at].gpio = c
  BY DEF ObjectInv, Pending
<1> QED BY <1>1, OneRecord DEF RecordsOf

\* What a store into the record of channel c leaves of the other channels.
LEMMA StoreSpares ==
  ASSUME QuietInv, ObjectInv, NEW c \in Channel, call.ch = c, call.at \in live, RecordsOf(c) = {call.at},
         \A k \in live : k # call.at => cell'[k] = cell[k], cell'[call.at].gpio = cell[call.at].gpio,
         \A k : ~Doomed(k), \A k : k # call.at => ~Doomed(k)', UNCHANGED <<live, object>>
  PROVE  /\ \A d : RecordsOf(d)' = RecordsOf(d)
         /\ \A d \in Channel \ {c} : Kept(d)'
         /\ \A k \in live' : cell'[k].gpio \in Channel
<1>1. \A d : RecordsOf(d)' = RecordsOf(d)
  BY DEF RecordsOf
<1>2. ASSUME NEW d \in Channel, d # c PROVE Kept(d)'
  <2>1. Kept(d) /\ \A k \in RecordsOf(d) : k \in live /\ k # call.at
    BY <1>2 DEF ObjectInv, RecordsOf
  <2> QED BY <1>1, <2>1, KeptStays
<1> QED BY <1>1, <1>2 DEF ObjectInv

\* When a call is over and c was what it was about.
LEMMA CallIsOver ==
  ASSUME NEW c \in Channel, call' = NoCall, Kept(c)', \A d \in Channel \ {c} : Kept(d)',
         \A k \in live' : cell'[k].gpio \in Channel, \A k \in live' : Doomed(k)' => ~cell'[k].running
  PROVE  ObjectInv'
BY NoCallFacts DEF ObjectInv

\* pwm_set_frequency, pwm_set_duty_cycle and pwm_stop have their effect.
LEMMA StoreObjects ==
  ASSUME Types, QuietInv, Driven, Settled, ObjectInv, call # NoCall, StoreValue
  PROVE  ObjectInv'
<1>1. PICK c \in Channel : c = call.ch
  BY DEF ObjectInv
<1>2. PICK k \in live : k = call.at
  BY DEF StoreValue
<1>3. Pending(c) /\ RecordsOf(c) = {k} /\ call.phase = "store"
  BY <1>1, <1>2, FoundRecord DEF StoreValue
<1>4. UNCHANGED <<live, pc, p, owner, object>>
  BY DEF StoreValue, threadVars
<1>5. \A j : ~Doomed(j)
  BY SettledDooms DEF QuietInv
<1>6. \A t \in Thread : pc[t] # "none" => Using(t) /\ p[t] \in live /\ cell[p[t]].running /\ pc[t] # "low"
  BY SettledKnows DEF QuietInv, Settled, Ending
<1>7. PICK field \in {"freq", "duty", "running"} : \E v : Store(field, v)
  BY DEF StoreValue
<1>8. PICK v : Store(field, v)
  BY <1>7
<1>9. /\ \A j \in live : j # k => cell'[j] = cell[j]
      /\ cell'[k].gpio = cell[k].gpio
      /\ cell'[k].freq = IF field = "freq" THEN v ELSE cell[k].freq
      /\ cell'[k].running = IF field = "running" THEN v ELSE cell[k].running
  BY <1>2, <1>8, StoreFields
<1>10. \A j : Doomed(j)' <=> \E t \in Thread : Using(t) /\ p[t] = j /\ ~cell'[j].running
  <2>1. \A t \in Thread : ~Removing(t)' /\ pc'[t] # "low" /\ (Using(t)' <=> Using(t))
    BY <1>4, <1>6, SettledKnows DEF QuietInv, Removing, Using
  <2> QED BY <1>4, <2>1 DEF Doomed
<1>11. \A j : j # k => ~Doomed(j)'
  BY <1>6, <1>9, <1>10 DEF Using
<1>12. /\ \A d : RecordsOf(d)' = RecordsOf(d)
       /\ \A d \in Channel \ {c} : Kept(d)'
       /\ \A j \in live' : cell'[j].gpio \in Channel
  BY <1>1, <1>2, <1>3, <1>4, <1>5, <1>9, <1>11, StoreSpares
<1>13. \A j \in live' : Doomed(j)' => ~cell'[j].running
  BY <1>10
<1>14. CASE call.kind # "stop"
  <2>1. cell'[k].running = cell[k].running /\ ~Doomed(k)'
    <3>1. cell'[k].running = cell[k].running
      <4>1. \E w : Store("freq", w) \/ Store("duty", w)
        BY <1>14 DEF StoreValue
      <4> QED BY <1>2, <4>1, StoreFields
    <3> QED BY <1>6, <1>10, <3>1 DEF Using
  <2>2. Runs(c)' <=> Runs(c)
    BY <1>3, <1>12, <2>1 DEF Runs
  <2>3. CASE call.kind = "frequency"
    <3>1. Store("freq", call.val) /\ call' = NoCall
      BY <2>3 DEF StoreValue
    <3>2. cell'[k].freq = object[c].freq
      BY <1>2, <1>3, <2>3, <3>1, StoreFields DEF Pending
    <3>3. Runs(c)' <=> object[c].started
      BY <1>3, <2>2, <2>3 DEF Pending
    <3>4. Kept(c)'
      BY <1>3, <1>4, <1>12, <2>1, <3>2, <3>3 DEF Kept, Waiting, Runs
    <3> QED BY <1>12, <1>13, <3>1, <3>4, CallIsOver
  <2>4. CASE call.kind = "duty"
    <3>1. Store("duty", call.val) /\ call' = NoCall
      BY <2>4 DEF StoreValue
    <3>2. cell'[k].freq = cell[k].freq
      BY <1>2, <3>1, StoreFields
    <3>3. Kept(c)'
      BY <1>3, <1>4, <1>5, <1>12, <2>1, <2>4, <3>2, KeptStays DEF Pending
    <3> QED BY <1>12, <1>13, <3>1, <3>3, CallIsOver
  <2>5. CASE call.kind = "dutyAndStart"
    <3>1. Store("duty", call.val) /\ call' = [NoCall EXCEPT !.kind = "start", !.ch = c]
      BY <1>1, <2>5 DEF StoreValue
    <3>2. cell'[k].freq = cell[k].freq
      BY <1>2, <3>1, StoreFields
    <3>3. call'.kind = "start" /\ call'.ch = c /\ call'.phase = "find"
      BY <3>1 DEF NoCall
    <3>4. Pending(c)'
      BY <1>3, <1>4, <1>12, <2>5, <3>2, <3>3 DEF Pending, Ready
    <3> QED BY <1>12, <1>13, <3>3, <3>4 DEF ObjectInv
  <2> QED BY <1>14, <2>3, <2>4, <2>5 DEF StoreValue
<1>15. CASE call.kind = "stop"
  <2>1. Store("running", FALSE) /\ call' = NoCall
    BY <1>15 DEF StoreValue
  <2>2. ~cell'[k].running /\ cell'[k].freq = cell[k].freq
    BY <1>2, <2>1, StoreFields
  <2>3. ~Runs(c)' /\ ~object[c].started
    BY <1>3, <1>12, <1>15, <2>2 DEF Runs, Pending
  <2>4. ASSUME object[c].freq # 0 PROVE Waiting(c)'
    <3>1. CASE Runs(c)
      <4>1. cell[k].running /\ object[c].freq = Default
        BY <1>3, <1>15, <2>4, <3>1 DEF Runs, Pending
      <4>2. Doomed(k)'
        BY <1>10, <2>2, <4>1 DEF Driven, On, Using
      <4> QED BY <1>3, <1>4, <1>12, <4>1, <4>2 DEF Waiting
    <3>2. CASE ~Runs(c)
      <4>1. ~cell[k].running /\ cell[k].freq = object[c].freq
        BY <1>3, <1>15, <2>4, <3>2 DEF Runs, Pending, Ready
      <4>2. ~Doomed(k)'
        BY <1>6, <1>10, <4>1 DEF Using
      <4> QED BY <1>3, <1>4, <1>12, <2>2, <4>1, <4>2 DEF Waiting
    <3> QED BY <3>1, <3>2
  <2>5. Kept(c)'
    BY <1>4, <2>3, <2>4 DEF Kept
  <2> QED BY <1>12, <1>13, <2>1, <2>5, CallIsOver
<1> QED BY <1>14, <1>15

\* pwm_start creates the thread.
LEMMA StartThreadObjects ==
  ASSUME Types, QuietInv, Settled, ObjectInv, StartThread
  PROVE  ObjectInv'
<1>1. call.kind = "start" /\ call.phase = "store" /\ call.at \in live /\ ~cell[call.at].running
  BY DEF StartThread, MayStart
<1>2. PICK c \in Channel : c = call.ch
  BY <1>1, NoCallFacts DEF ObjectInv
<1>3. PICK k \in live : k = call.at
  BY <1>1
<1>4. RecordsOf(c) = {k} /\ object[c].started /\ cell[k].freq = object[c].freq
  <2>1. Pending(c) /\ RecordsOf(c) = {k}
    BY <1>1, <1>2, <1>3, FoundRecord
  <2> QED BY <1>1, <2>1 DEF Pending, Ready
<1>5. Store("running", TRUE) /\ call' = NoCall /\ UNCHANGED <<live, owner, object>>
  BY DEF StartThread
<1>6. /\ \A j \in live : j # k => cell'[j] = cell[j]
      /\ cell'[k].gpio = cell[k].gpio /\ cell'[k].freq = cell[k].freq /\ cell'[k].running
  BY <1>1, <1>3, <1>5, StoreFields
<1>7. PICK t \in Thread : /\ pc[t] = "none" /\ pc' = [pc EXCEPT ![t] = "loop"]
                          /\ p' = [p EXCEPT ![t] = k]
  BY <1>3 DEF StartThread
<1>8. \A j : ~Doomed(j)
  BY SettledDooms DEF QuietInv
<1>9. \A j : ~Doomed(j)'
  <2>1. \A u \in Thread : u # t => pc'[u] = pc[u] /\ p'[u] = p[u]
    BY <1>7 DEF Types, ThreadsOK
  <2>2. pc'[t] = "loop" /\ p'[t] = k
    BY <1>7 DEF Types, ThreadsOK
  <2>3. \A u \in Thread : pc'[u] \notin {"low", "head", "scan"}
    BY <2>1, <2>2 DEF Settled, Ending
  <2>4. \A u \in Thread : Using(u)' => cell'[p'[u]].running
    <3>1. \A u \in Thread : u # t /\ Using(u) => p[u] \in live /\ cell[p[u]].running
      BY SettledKnows DEF QuietInv, Using
    <3> QED BY <1>1, <1>3, <1>6, <2>1, <2>2, <3>1 DEF Using
  <2> QED BY <2>3, <2>4 DEF Doomed, Removing
<1>10. /\ \A d : RecordsOf(d)' = RecordsOf(d)
       /\ \A d \in Channel \ {c} : Kept(d)'
       /\ \A j \in live' : cell'[j].gpio \in Channel
  BY <1>2, <1>3, <1>4, <1>5, <1>6, <1>8, <1>9, StoreSpares
<1>11. Kept(c)'
  BY <1>4, <1>5, <1>6, <1>10 DEF Kept, Runs
<1> QED BY <1>5, <1>9, <1>10, <1>11, CallIsOver

\* A channel that is about to start has no thread, so with a slot for each channel
\* there is one left.
ThreadPerChannel == /\ IsFiniteSet(Channel) /\ IsFiniteSet(Thread)
                    /\ Cardinality(Channel) <= Cardinality(Thread)

LEMMA ThreadIsFree ==
  ASSUME ThreadPerChannel, Types, QuietInv, Settled, ObjectInv, MayStart
  PROVE  \E t \in Thread : pc[t] = "none"
<1> SUFFICES ASSUME \A t \in Thread : pc[t] # "none" PROVE FALSE
  OBVIOUS
<1>1. call.kind = "start" /\ call.phase = "store" /\ call.at \in live /\ ~cell[call.at].running
  BY DEF MayStart
<1>2. PICK c \in Channel : c = call.ch
  BY <1>1, NoCallFacts DEF ObjectInv
<1>3. RecordsOf(c) = {call.at}
  BY <1>1, <1>2, FoundRecord
<1>4. \A t \in Thread : Using(t) /\ p[t] \in live /\ cell[p[t]].running
  BY SettledKnows DEF QuietInv
<1> DEFINE f == [t \in Thread |-> cell[p[t]].gpio]
<1>5. f \in [Thread -> Channel \ {c}]
  <2>1. \A t \in Thread : p[t] # call.at /\ p[t] \notin RecordsOf(c)
    BY <1>1, <1>3, <1>4
  <2>2. \A t \in Thread : cell[p[t]].gpio \in Channel \ {c}
    BY <1>4, <2>1 DEF RecordsOf, ObjectInv
  <2> QED BY <2>2
<1>6. \A t, u \in Thread : f[t] = f[u] => t = u
  BY <1>4, OneRecord DEF QuietInv, UserInv
<1>7. /\ IsFiniteSet(Channel \ {c}) /\ Cardinality(Channel \ {c}) = Cardinality(Channel) - 1
      /\ Cardinality(Channel) \in Nat /\ Cardinality(Thread) \in Nat
  BY FS_RemoveElement, FS_CardinalityType DEF ThreadPerChannel
<1>8. Cardinality(Channel \ {c}) < Cardinality(Thread)
  BY <1>7 DEF ThreadPerChannel
<1> HIDE DEF f
<1> QED BY <1>5, <1>6, <1>7, <1>8, FS_PigeonHole DEF ThreadPerChannel

LEMMA AlreadyRunningObjects ==
  ASSUME Types, QuietInv, Settled, ObjectInv, AlreadyRunning
  PROVE  ObjectInv'
<1>1. call.kind = "start" /\ call.phase = "store" /\ call.at \in live /\ cell[call.at].running
  BY DEF AlreadyRunning
<1>2. PICK c \in Channel : c = call.ch
  BY <1>1, NoCallFacts DEF ObjectInv
<1>3. Pending(c) /\ RecordsOf(c) = {call.at}
  BY <1>1, <1>2, FoundRecord
<1>4. call' = NoCall /\ UNCHANGED <<live, cell, pc, p, owner, object>>
  BY DEF AlreadyRunning, pwmVars, threadVars
<1>5. \A d : RecordsOf(d)' = RecordsOf(d)
  BY <1>4 DEF RecordsOf
<1>6. \A j : Doomed(j)' <=> Doomed(j)
  BY <1>4 DEF Doomed, Using, Removing
<1>7. Kept(c)
  BY <1>1, <1>3 DEF Pending, Ready, Kept
<1>8. \A d \in Channel : Kept(d)
  BY <1>2, <1>7 DEF ObjectInv
<1>9. \A d \in Channel : Kept(d)'
  BY <1>4, <1>5, <1>6, <1>8, KeptStays
<1>10. /\ \A j \in live' : cell'[j].gpio \in Channel
       /\ \A j \in live' : Doomed(j)' => ~cell'[j].running
  BY <1>4, <1>6 DEF ObjectInv
<1> QED BY <1>4, <1>9, <1>10, CallIsOver

\* find_pwm walks, and appends only for a channel without a record.
LEMMA FindObjects ==
  ASSUME Types, QuietInv, Settled, ObjectInv, FindHead \/ FindNext
  PROVE  ObjectInv'
<1>1. call # NoCall /\ call \in CallRecord /\ UNCHANGED <<pc, p, owner, object>>
  BY NoCallFacts DEF FindHead, FindNext, threadVars, Types, CallOK
<1>2. PICK n \in Nat : \E s \in [1..n -> Cell] : List(n, s)
  BY DEF QuietInv, ListInv
<1>3. PICK s \in [1..n -> Cell] : Chain(n, s) /\ Walked(n, s)
  BY <1>2 DEF List
<1>4. \A i \in 1..n : s[i] \in Cell /\ s[i] # 0
  BY DEF Cell
<1>5. ASSUME \A i \in 1..n : cell[s[i]].gpio # call.ch PROVE RecordsOf(call.ch) = {}
  BY <1>3, <1>5, ListKnows DEF RecordsOf
<1>6. CASE FindHead
  <2>1. CASE head = 0 /\ LinkCell(0)
    <3>1. n = 0
      BY <1>3, <1>4, <2>1 DEF Chain
    <3>2. RecordsOf(call.ch) = {}
      BY <1>5, <3>1
    <3> QED BY <1>1, <2>1, <3>2, AppendObjects
  <2>2. CASE call' = [call EXCEPT !.at = head, !.phase = "walk"] /\ UNCHANGED pwmVars
    BY <1>1, <2>2, WalkObjects DEF pwmVars
  <2> QED BY <1>6, <2>1, <2>2 DEF FindHead
<1>7. CASE FindNext
  <2>1. PICK i \in 1..n : /\ call.at = s[i]
                          /\ \A j \in 1..n : j < i => cell[s[j]].gpio # call.ch
    BY <1>3, <1>7 DEF FindNext, Walked
  <2>2. cell[s[i]].next = IF i < n THEN s[i + 1] ELSE 0
    BY <1>3 DEF Chain
  <2>3. CASE /\ cell[call.at].gpio = call.ch
             /\ call' = [call EXCEPT !.phase = "store"] /\ UNCHANGED pwmVars
    <3>1. call' = [call EXCEPT !.at = call.at, !.phase = "store"]
      BY <1>1, <2>3 DEF CallRecord
    <3> QED BY <1>1, <2>3, <3>1, WalkObjects DEF pwmVars
  <2>4. CASE cell[call.at].gpio # call.ch /\ cell[call.at].next = 0 /\ LinkCell(call.at)
    <3>1. i = n
      BY <1>4, <2>1, <2>2, <2>4
    <3>2. RecordsOf(call.ch) = {}
      BY <1>5, <2>1, <2>4, <3>1
    <3> QED BY <1>1, <1>4, <2>1, <2>4, <3>2, AppendObjects
  <2>5. CASE call' = [call EXCEPT !.at = cell[call.at].next] /\ UNCHANGED pwmVars
    <3>1. call.phase = "walk"
      BY <1>7 DEF FindNext
    <3>2. call' = [call EXCEPT !.at = cell[call.at].next, !.phase = "walk"]
      BY <1>1, <2>5, <3>1 DEF CallRecord
    <3> QED BY <1>1, <2>5, <3>2, WalkObjects DEF pwmVars
  <2> QED BY <1>7, <2>3, <2>4, <2>5 DEF FindNext
<1> QED BY <1>6, <1>7

LEMMA CallStepObjects ==
  ASSUME ThreadPerChannel, Types, QuietInv, Driven, ObjectInv, CallStep
  PROVE  ObjectInv'
<1>1. call # NoCall
  BY NoCallTyped DEF CallStep, FindHead, FindNext, StoreValue, StartThread, StartFails, MayStart,
                     AlreadyRunning, CallUsesFreed
<1>2. Settled
  BY <1>1 DEF QuietInv, CallInv
<1>3. ~StartFails
  BY <1>2, ThreadIsFree DEF StartFails
<1>4. ~CallUsesFreed
  <2>1. PICK n \in Nat : \E s \in [1..n -> Cell] : List(n, s)
    BY DEF QuietInv, ListInv
  <2> QED BY <2>1, ListKnows DEF List, CallUsesFreed, Walked, QuietInv, CallInv
<1> QED BY <1>1, <1>2, <1>3, <1>4, FindObjects, StoreObjects, StartThreadObjects,
           AlreadyRunningObjects DEF CallStep

\* A step of a thread frees at most a doomed record, and dooms none.
LEMMA ThreadObjects ==
  ASSUME ObjectInv, UNCHANGED <<object, call>>, live' \subseteq live, call = NoCall \/ live' = live,
         call.phase = "store" => call.at \in live,
         \A k \in live' : /\ cell'[k].gpio = cell[k].gpio /\ cell'[k].freq = cell[k].freq
                          /\ cell'[k].running = cell[k].running /\ (Doomed(k)' <=> Doomed(k)),
         \A k \in live : k \notin live' => Doomed(k)
  PROVE  ObjectInv'
<1>1. \A c : \A k \in RecordsOf(c)' : k \in RecordsOf(c) /\ k \in live'
  BY DEF RecordsOf
<1>2. \A c : \A k \in RecordsOf(c) : (~Doomed(k) \/ cell[k].running) => k \in RecordsOf(c)'
  BY DEF RecordsOf, ObjectInv
<1>3. \A c : Runs(c)' <=> Runs(c)
  BY <1>1, <1>2 DEF Runs
<1>4. ASSUME NEW c \in Channel, Kept(c) PROVE Kept(c)'
  <2>1. object[c].started => \E k \in RecordsOf(c)' : cell'[k].running /\ cell'[k].freq = object[c].freq
    BY <1>1, <1>2, <1>4 DEF Kept
  <2>2. Waiting(c) => Waiting(c)'
    <3>1. CASE \E k \in RecordsOf(c) : ~Doomed(k) /\ cell[k].freq = object[c].freq
      BY <1>1, <1>2, <3>1 DEF Waiting
    <3>2. CASE object[c].freq = Default /\ \A k \in RecordsOf(c) : Doomed(k) \/ cell[k].freq = Default
      BY <1>1, <3>2 DEF Waiting
    <3> QED BY <3>1, <3>2 DEF Waiting
  <2> QED BY <1>3, <1>4, <2>1, <2>2 DEF Kept
<1>5. ASSUME NEW c \in Channel, c = call.ch, Pending(c) PROVE Pending(c)'
  <2>1. live' = live
    BY <1>5, NoCallFacts
  <2>2. RecordsOf(c)' = RecordsOf(c)
    BY <2>1 DEF RecordsOf
  <2>3. Ready(c) => Ready(c)'
    BY <1>1, <2>2 DEF Ready
  <2>4. call.phase = "store" => cell'[call.at].gpio = cell[call.at].gpio
    BY <2>1
  <2> QED BY <1>3, <1>4, <1>5, <2>3, <2>4 DEF Pending
<1> QED BY <1>4, <1>5 DEF ObjectInv

\* A step that changes no record but dooms or spares none either.
LEMMA ThreadOnlyObjects ==
  ASSUME QuietInv, ObjectInv, UNCHANGED <<live, cell, object, call>>,
         \A k \in live : Doomed(k)' <=> Doomed(k)
  PROVE  ObjectInv'
BY ThreadObjects DEF QuietInv, CallInv

LEMMA PwmStepObjects ==
  ASSUME Types, QuietInv, ObjectInv, NEW t \in Thread, PwmStep(t)
  PROVE  ObjectInv'
<1>1. /\ pc \in [Thread -> {"none", "loop", "on", "off", "low", "head", "scan"}]
      /\ p \in [Thread -> Cell \cup {0}] /\ owner \in [Thread -> Channel \cup {NoChannel}]
  BY DEF Types, ThreadsOK
<1>2. CASE PwmLoop(t) \/ PwmOn(t) \/ PwmOff(t)
  <2>1. /\ UNCHANGED <<live, cell, object, call, p, owner>>
        /\ \A u \in Thread : u # t => pc'[u] = pc[u]
        /\ pc[t] \in {"loop", "on", "off"} /\ pc'[t] \in {"loop", "on", "off", "low"}
        /\ pc'[t] = "low" => ~cell[p[t]].running
    BY <1>1, <1>2 DEF PwmLoop, PwmOn, PwmOff, Goto, pwmVars
  <2>2. \A k : Doomed(k)' <=> Doomed(k)
    BY <2>1 DEF Doomed, Using, Removing
  <2> QED BY <2>1, <2>2, ThreadOnlyObjects
<1>3. CASE PwmLow(t)
  <2>1. /\ UNCHANGED <<live, cell, object, call, p>> /\ p[t] \in live
        /\ \A u \in Thread : u # t => pc'[u] = pc[u] /\ owner'[u] = owner[u]
        /\ pc[t] = "low" /\ pc'[t] = "head" /\ owner'[t] = cell[p[t]].gpio
    BY <1>1, <1>3 DEF PwmLow, Goto, pwmVars
  <2>2. \A k \in live : p[t] = k <=> owner'[t] = cell[k].gpio
    BY <2>1, OneRecord
  <2>3. \A k \in live : Doomed(k)' <=> Doomed(k)
    BY <2>1, <2>2 DEF Doomed, Using, Removing
  <2> QED BY <2>1, <2>3, ThreadOnlyObjects
<1>4. CASE RemoveHead(t) \/ RemoveNext(t)
  <2>1. /\ UNCHANGED <<live, cell, object, call, owner>>
        /\ \A u \in Thread : u # t => pc'[u] = pc[u] /\ p'[u] = p[u]
        /\ pc[t] \in {"head", "scan"} /\ pc'[t] = "scan"
    BY <1>1, <1>4 DEF RemoveHead, RemoveNext, Goto, pwmVars
  <2>2. \A k : Doomed(k)' <=> Doomed(k)
    BY <2>1 DEF Doomed, Using, Removing
  <2> QED BY <2>1, <2>2, ThreadOnlyObjects
<1>5. CASE RemoveMatch(t)
  <2>1. /\ pc[t] = "scan" /\ Ending(t) /\ Removing(t) /\ p[t] \in live /\ cell[p[t]].gpio = owner[t]
        /\ UNCHANGED <<pc, owner, call, object>> /\ live' = live \ {p[t]}
        /\ \A u \in Thread : u # t => p'[u] = p[u]
    BY <1>1, <1>5 DEF RemoveMatch, Ending, Removing
  <2>2. \A k \in live' : /\ cell'[k].gpio = cell[k].gpio /\ cell'[k].freq = cell[k].freq
                         /\ cell'[k].running = cell[k].running
    <3>1. \A k \in live' : \/ cell'[k] = [cell[k] EXCEPT !.next = cell[p[t]].next]
                           \/ cell'[k] = cell[k]
      BY <1>5, <2>1 DEF RemoveMatch, Types, ListOK
    <3>2. \A k \in live' : cell[k] \in Fields
      BY <2>1 DEF Types, ListOK
    <3> QED BY <3>1, <3>2 DEF Fields
  <2>3. call = NoCall /\ call.phase = "find"
    BY <2>1, EndingKnows
  <2>4. Doomed(p[t])
    BY <2>1 DEF Doomed
  <2>5. \A k \in live' : Doomed(k)' <=> Doomed(k)
    BY <2>1, <2>2 DEF Doomed, Using, Removing
  <2> QED BY <2>1, <2>2, <2>3, <2>4, <2>5, ThreadObjects
<1>6. CASE PwmExit(t)
  <2>1. /\ UNCHANGED <<live, cell, object, call, p>> /\ p[t] = 0 /\ pc[t] = "scan" /\ pc'[t] = "none"
        /\ \A u \in Thread : u # t => pc'[u] = pc[u] /\ owner'[u] = owner[u]
    BY <1>1, <1>6 DEF PwmExit, Goto, pwmVars
  <2>2. PICK n \in Nat : \E s \in [1..n -> Cell] : Chain(n, s) /\ Between(n, s, t)
    BY <2>1, ScanStands
  <2>3. PICK s \in [1..n -> Cell] : Chain(n, s) /\ Between(n, s, t)
    BY <2>2
  <2>4. PICK i \in 0..n : /\ p[t] = IF i < n THEN s[i + 1] ELSE 0
                          /\ \A j \in 1..i : cell[s[j]].gpio # owner[t]
    BY <2>3 DEF Between
  <2>5. i = n
    <3>1. i < n => s[i + 1] \in Cell
      OBVIOUS
    <3> QED BY <2>1, <2>4, <3>1 DEF Cell
  <2>6. \A k \in live : cell[k].gpio # owner[t]
    BY <2>3, <2>4, <2>5, ListKnows
  <2>7. \A k \in live : Doomed(k)' <=> Doomed(k)
    BY <2>1, <2>6 DEF Doomed, Using, Removing
  <2> QED BY <2>1, <2>7, ThreadOnlyObjects
<1> QED BY <1>2, <1>3, <1>4, <1>5, <1>6, UsesLive DEF PwmStep

UnracedObjects == ~raced => ObjectInv

LEMMA ObjectsInit == Init => UnracedObjects
<1> SUFFICES ASSUME Init PROVE ObjectInv
  BY DEF UnracedObjects
<1>1. \A c \in Channel : Kept(c)
  BY DEF Init, Kept, Runs, RecordsOf, NoObject
<1> QED BY <1>1, NoCallFacts DEF Init, ObjectInv

LEMMA ObjectsNext ==
  ASSUME ThreadPerChannel, Types, Driven, QuietInv, ObjectInv, [Next]_vars, ~Race'
  PROVE  ObjectInv'
<1>1. CASE Next
  BY <1>1, CalledSettled, MethodObjects, CallStepObjects, PwmStepObjects DEF Next
<1>2. CASE UNCHANGED vars
  BY <1>2, ThreadOnlyObjects DEF vars, Doomed, Using, Removing
<1> QED BY <1>1, <1>2

\* With a thread slot for each channel, so that no pthread_create fails, and until the
\* program has raced, a channel that was started and has not been stopped since has a
\* thread, on a record that is allocated and has the frequency that the object was given
\* last or, since a stop, the default one.
THEOREM StartedHasThread == ASSUME ThreadPerChannel PROVE RaceSpec => []StartedIsDriven
<1>1. Types /\ Driven /\ Unraced /\ UnracedObjects => StartedIsDriven
  <2> SUFFICES ASSUME Types, Driven, ObjectInv, call = NoCall, NEW c \in Channel, object[c].started
               PROVE  \E t \in Thread : /\ Drives(t, c) /\ cell[p[t]].running
                                        /\ cell[p[t]].freq = object[c].freq
    BY DEF StartedIsDriven, Unraced, UnracedObjects
  <2>1. Kept(c)
    BY NoCallFacts DEF ObjectInv
  <2>2. PICK k \in live : cell[k].gpio = c /\ cell[k].running /\ cell[k].freq = object[c].freq
    BY <2>1 DEF Kept, RecordsOf
  <2>3. PICK t \in Thread : On(t, k)
    BY <2>2 DEF Driven
  <2> QED BY <2>2, <2>3 DEF On, Drives
<1>2. Types /\ Driven /\ Unraced /\ UnracedObjects /\ [RaceNext]_<<vars, raced>> => UnracedObjects'
  <2> SUFFICES ASSUME Types, Driven, QuietInv, ObjectInv, [RaceNext]_<<vars, raced>>, ~raced'
               PROVE  ObjectInv'
    BY DEF Unraced, UnracedObjects, RaceNext
  <2>1. CASE RaceNext
    BY <2>1, ObjectsNext DEF RaceNext
  <2>2. CASE UNCHANGED <<vars, raced>>
    BY <2>2, ThreadOnlyObjects DEF vars, Doomed, Using, Removing
  <2> QED BY <2>1, <2>2
<1>3. RaceInit => UnracedObjects
  BY ObjectsInit DEF RaceInit
<1> QED BY <1>1, <1>2, <1>3, RacesImplementSpec, TypesInvariant, DrivenInvariant, UnracedInvariant, PTL
        DEF RaceSpec

-----------------------------------------------------------------------------
(* Arithmetic of the registers.                                            *)

LEMMA MinusInWord ==
  ASSUME NEW a \in Word, NEW b \in Word
  PROVE  Minus(a, b) \in Word /\ Minus(a, Minus(a, b)) = b
BY HwParameters DEF Word, Minus

LEMMA Division ==
  ASSUME NEW a \in Int, NEW b \in Int, b > 0
  PROVE  a \div b \in Int /\ a % b \in 0..(b - 1) /\ a = b * (a \div b) + (a % b)
OBVIOUS

LEMMA Quotient ==
  ASSUME NEW a \in Nat, NEW b \in Nat, b > 0
  PROVE  /\ a \div b \in Nat /\ a \div b <= a
         /\ (a \div b) * b <= a /\ a < ((a \div b) + 1) * b
<1>1. PICK n \in Int : n = a \div b
  BY Division
<1>2. PICK m \in 0..(b - 1) : a = b * n + m
  BY Division, <1>1
<1>3. n >= 0
  BY <1>2
<1>4. b * n = n * b /\ (n + 1) * b = n * b + b
  OBVIOUS
<1>5. n <= n * b
  BY <1>3
<1> QED BY <1>1, <1>2, <1>3, <1>4, <1>5

-----------------------------------------------------------------------------
(* What a word will hold once the accesses still to be made are made.       *)

Touches(a, w, q) == a.word = w /\ a.pin = q

\* After the accesses ws the word w of pin q, which holds cur, holds v.
EndsAs(cur, ws, w, q, v) ==
  \/ \E i \in 1..Len(ws) : /\ Touches(ws[i], w, q) /\ ws[i].val = v
                           /\ \A j \in 1..Len(ws) : j > i => ~Touches(ws[j], w, q)
  \/ cur = v /\ \A i \in 1..Len(ws) : ~Touches(ws[i], w, q)

LEMMA EndsNow ==
  ASSUME NEW cur, NEW w, NEW q, NEW v, NEW ws, ws = <<>>
  PROVE  EndsAs(cur, ws, w, q, v) <=> v = cur
<1>1. Len(ws) = 0
  OBVIOUS
<1> QED BY <1>1 DEF EndsAs

\* One access more at the end.
LEMMA EndsAppend ==
  ASSUME NEW S, NEW s \in Seq(S), NEW a \in S, NEW cur, NEW w, NEW q, NEW v,
         EndsAs(cur, Append(s, a), w, q, v)
  PROVE  IF Touches(a, w, q) THEN v = a.val ELSE EndsAs(cur, s, w, q, v)
<1> DEFINE t == Append(s, a)
<1>1. /\ t \in Seq(S) /\ Len(t) = Len(s) + 1 /\ t[Len(s) + 1] = a /\ Len(s) \in Nat
      /\ \A i \in 1..Len(s) : t[i] = s[i]
  <2>1. t \in Seq(S) /\ Len(t) = Len(s) + 1 /\ Len(s) \in Nat
    OBVIOUS
  <2>2. t[Len(s) + 1] = a
    BY <2>1
  <2>3. \A i \in 1..Len(s) : t[i] = s[i]
    BY <2>1
  <2> QED BY <2>1, <2>2, <2>3
<1> HIDE DEF t
<1>2. EndsAs(cur, t, w, q, v)
  BY DEF t
<1>3. CASE Touches(a, w, q)
  <2>1. PICK i \in 1..Len(t) : /\ t[i].val = v
                               /\ \A j \in 1..Len(t) : j > i => ~Touches(t[j], w, q)
    BY <1>1, <1>2, <1>3 DEF EndsAs
  <2>2. i = Len(s) + 1
    BY <2>1, <1>1, <1>3
  <2> QED BY <2>1, <2>2, <1>1, <1>3
<1>4. CASE ~Touches(a, w, q)
  <2>1. CASE cur = v /\ \A i \in 1..Len(t) : ~Touches(t[i], w, q)
    <3>1. \A i \in 1..Len(s) : ~Touches(s[i], w, q)
      BY <2>1, <1>1
    <3> QED BY <3>1, <2>1, <1>4 DEF EndsAs
  <2>2. CASE \E i \in 1..Len(t) : /\ Touches(t[i], w, q) /\ t[i].val = v
                                  /\ \A j \in 1..Len(t) : j > i => ~Touches(t[j], w, q)
    <3>1. PICK i \in 1..Len(t) : /\ Touches(t[i], w, q) /\ t[i].val = v
                                 /\ \A j \in 1..Len(t) : j > i => ~Touches(t[j], w, q)
      BY <2>2
    <3>2. i \in 1..Len(s)
      BY <3>1, <1>1, <1>4
    <3>3. s[i] = t[i] /\ \A j \in 1..Len(s) : j > i => ~Touches(s[j], w, q)
      BY <3>1, <3>2, <1>1
    <3> QED BY <3>1, <3>2, <3>3, <1>4 DEF EndsAs
  <2> QED BY <2>1, <2>2, <1>2 DEF EndsAs
<1> QED BY <1>3, <1>4

\* An access is made.
LEMMA EndsStep ==
  ASSUME NEW ws \in Seq(Accesses), ws # <<>>, NEW word \in [PwmPin -> Word],
         NEW w, NEW q \in PwmPin, NEW v,
         EndsAs(Written(word, w, Head(ws), Head(ws).val)[q], Tail(ws), w, q, v)
  PROVE  EndsAs(word[q], ws, w, q, v)
<1> DEFINE t == Tail(ws)
           a == Head(ws)
           cur == Written(word, w, a, a.val)[q]
<1>1. /\ t \in Seq(Accesses) /\ Len(ws) = Len(t) + 1 /\ Len(t) \in Nat
      /\ \A i \in 1..Len(t) : t[i] = ws[i + 1]
      /\ a = ws[1] /\ a \in Accesses
  OBVIOUS
<1>2. a.pin \in PwmPin
  BY <1>1 DEF Accesses
<1>3. cur = IF Touches(a, w, q) THEN a.val ELSE word[q]
  BY <1>2 DEF Written, Touches
<1>4. EndsAs(cur, t, w, q, v)
  OBVIOUS
<1> HIDE DEF t, a, cur
<1>5. CASE cur = v /\ \A i \in 1..Len(t) : ~Touches(t[i], w, q)
  <2>1. \A j \in 1..Len(ws) : j > 1 => ~Touches(ws[j], w, q)
    <3> SUFFICES ASSUME NEW j \in 1..Len(ws), j > 1 PROVE ~Touches(ws[j], w, q)
      OBVIOUS
    <3>1. j - 1 \in 1..Len(t)
      BY <1>1
    <3>2. PICK i \in 1..Len(t) : i = j - 1
      BY <3>1
    <3>3. t[i] = ws[j]
      BY <1>1, <3>2
    <3> QED BY <3>3, <3>2, <1>5
  <2>2. CASE Touches(a, w, q)
    <3>1. 1 \in 1..Len(ws) /\ Touches(ws[1], w, q) /\ ws[1].val = v
      BY <2>2, <1>1, <1>3, <1>5
    <3> QED BY <3>1, <2>1 DEF EndsAs
  <2>3. CASE ~Touches(a, w, q)
    <3>1. \A j \in 1..Len(ws) : ~Touches(ws[j], w, q)
      BY <2>1, <2>3, <1>1
    <3> QED BY <3>1, <2>3, <1>3, <1>5 DEF EndsAs
  <2> QED BY <2>2, <2>3
<1>6. CASE \E i \in 1..Len(t) : /\ Touches(t[i], w, q) /\ t[i].val = v
                                /\ \A j \in 1..Len(t) : j > i => ~Touches(t[j], w, q)
  <2>1. PICK i \in 1..Len(t) : /\ Touches(t[i], w, q) /\ t[i].val = v
                               /\ \A j \in 1..Len(t) : j > i => ~Touches(t[j], w, q)
    BY <1>6
  <2>2. PICK k \in 1..Len(ws) : k = i + 1
    BY <1>1
  <2>3. Touches(ws[k], w, q) /\ ws[k].val = v
    BY <2>1, <2>2, <1>1
  <2>4. ASSUME NEW j \in 1..Len(ws), j > k
        PROVE  ~Touches(ws[j], w, q)
    <3>1. PICK m \in 1..Len(t) : m = j - 1
      BY <1>1, <2>2, <2>4
    <3>2. t[m] = ws[j] /\ m > i
      BY <3>1, <2>2, <2>4, <1>1
    <3> QED BY <3>1, <3>2, <2>1
  <2> QED BY <2>3, <2>4 DEF EndsAs
<1> QED BY <1>4, <1>5, <1>6 DEF EndsAs

-----------------------------------------------------------------------------
(* The lists of accesses of wiringTB.c.                                    *)

Registers == {"period", "low", "half"}

LEMMA WordSize == Size \in Nat /\ Size > 1024 /\ 0 \in Word /\ 1 \in Word
BY HwParameters DEF Word

LEMMA AccessType ==
  ASSUME NEW k \in PwmPin, NEW w \in Registers \cup {"on"}, NEW v \in Word
  PROVE  /\ Access(k, w, v) \in Accesses /\ Access(k, w, v).val = v
         /\ \A x, q : Touches(Access(k, w, v), x, q) <=> w = x /\ k = q
BY DEF Access, Accesses, Registers, Touches

LEMMA ThreeMore ==
  ASSUME NEW S, NEW s \in Seq(S), NEW a \in S, NEW b \in S, NEW c \in S
  PROVE  s \o <<a, b, c>> = Append(Append(Append(s, a), b), c)
<1> DEFINE l == s \o <<a, b, c>>
           r == Append(Append(Append(s, a), b), c)
<1>1. l \in Seq(S) /\ Len(l) = Len(s) + 3 /\ Len(s) \in Nat
  OBVIOUS
<1>2. /\ Append(s, a) \in Seq(S) /\ Append(Append(s, a), b) \in Seq(S)
      /\ r \in Seq(S) /\ Len(r) = Len(s) + 3
  BY AppendProperties
<1>3. \A i \in 1..Len(l) : l[i] = r[i]
  OBVIOUS
<1> HIDE DEF l, r
<1>4. l = r
  BY <1>1, <1>2, <1>3, SeqEqual
<1> QED BY <1>4 DEF l, r

LEMMA GuardedList ==
  ASSUME NEW k \in PwmPin, NEW w \in Registers, NEW v \in Word
  PROVE  Guarded(k, w, v) \in Seq(Accesses)
BY AccessType, WordSize DEF Guarded

LEMMA EndsGuarded ==
  ASSUME NEW s \in Seq(Accesses), NEW k \in PwmPin, NEW w \in Registers,
         NEW v \in Word, NEW cur, NEW x \in Registers, NEW q, NEW y,
         EndsAs(cur, s \o Guarded(k, w, v), x, q, y)
  PROVE  IF x = w /\ q = k THEN y = v ELSE EndsAs(cur, s, x, q, y)
<1> DEFINE a == Access(k, "on", 0)
           b == Access(k, w, v)
           c == Access(k, "on", 1)
           s1 == Append(s, a)
           s2 == Append(s1, b)
           s3 == Append(s2, c)
<1>1. a \in Accesses /\ b \in Accesses /\ c \in Accesses
  BY AccessType, WordSize
<1>2. ~Touches(a, x, q) /\ ~Touches(c, x, q)
  BY AccessType, WordSize DEF Registers
<1>3. b.val = v /\ (Touches(b, x, q) <=> x = w /\ q = k)
  BY AccessType
<1>4. s \o Guarded(k, w, v) = s3
  BY <1>1, ThreeMore DEF Guarded
<1> HIDE DEF a, b, c
<1>5. s1 \in Seq(Accesses) /\ s2 \in Seq(Accesses)
  BY <1>1, AppendProperties
<1> HIDE DEF s1, s2, s3
<1>6. EndsAs(cur, s3, x, q, y)
  BY <1>4
<1>7. EndsAs(cur, s2, x, q, y)
  BY <1>1, <1>2, <1>5, <1>6, EndsAppend DEF s3
<1>8. IF Touches(b, x, q) THEN y = b.val ELSE EndsAs(cur, s1, x, q, y)
  BY <1>1, <1>5, <1>7, EndsAppend DEF s2
<1>9. EndsAs(cur, s1, x, q, y) => EndsAs(cur, s, x, q, y)
  BY <1>1, <1>2, EndsAppend DEF s1
<1> QED BY <1>3, <1>8, <1>9

LEMMA EndsGuardedOnly ==
  ASSUME NEW k \in PwmPin, NEW w \in Registers,
         NEW v \in Word, NEW cur, NEW x \in Registers, NEW q, NEW y,
         EndsAs(cur, Guarded(k, w, v), x, q, y)
  PROVE  IF x = w /\ q = k THEN y = v ELSE y = cur
<1>1. PICK s \in Seq(Accesses) : s = <<>>
  BY EmptySeq
<1>2. s \o Guarded(k, w, v) = Guarded(k, w, v)
  BY <1>1, GuardedList
<1>3. EndsAs(cur, s \o Guarded(k, w, v), x, q, y)
  BY <1>2
<1>4. IF x = w /\ q = k THEN y = v ELSE EndsAs(cur, s, x, q, y)
  BY <1>3, EndsGuarded
<1> QED BY <1>1, <1>4, EndsNow

\* asus_pwm_write.
LEMMA WriteIsGuarded ==
  ASSUME NEW k \in PwmPin, NEW r \in Word, NEW v \in Word
  PROVE  /\ "low" \in Registers /\ Minus(r, v) \in Word
         /\ PwmWrite(k, r, v) = Guarded(k, "low", Minus(r, v))
         /\ PwmWrite(k, r, v) \in Seq(Accesses)
<1>1. "low" \in Registers /\ Minus(r, v) \in Word
  BY MinusInWord DEF Registers
<1>2. PwmWrite(k, r, v) = Guarded(k, "low", Minus(r, v))
  BY DEF PwmWrite
<1> QED BY <1>1, <1>2, GuardedList

LEMMA EndsWrite ==
  ASSUME NEW k \in PwmPin, NEW r \in Word, NEW v \in Word,
         NEW cur, NEW x \in Registers, NEW q, NEW y,
         EndsAs(cur, PwmWrite(k, r, v), x, q, y)
  PROVE  IF x = "low" /\ q = k THEN y = Minus(r, v) ELSE y = cur
<1>1. PICK l \in Word : l = Minus(r, v)
  BY MinusInWord
<1>2. PICK w \in Registers : w = "low"
  BY DEF Registers
<1>3. EndsAs(cur, Guarded(k, w, l), x, q, y)
  BY <1>1, <1>2, WriteIsGuarded
<1> QED BY <1>1, <1>2, <1>3, EndsGuardedOnly

LEMMA EndsWriteAfter ==
  ASSUME NEW k \in PwmPin, NEW r \in Word, NEW v \in Word,
         NEW cur, NEW x \in Registers, NEW q, NEW y, NEW s \in Seq(Accesses),
         EndsAs(cur, s \o PwmWrite(k, r, v), x, q, y)
  PROVE  IF x = "low" /\ q = k THEN y = Minus(r, v) ELSE EndsAs(cur, s, x, q, y)
<1>1. PICK l \in Word : l = Minus(r, v)
  BY MinusInWord
<1>2. PICK w \in Registers : w = "low"
  BY DEF Registers
<1>3. EndsAs(cur, s \o Guarded(k, w, l), x, q, y)
  BY <1>1, <1>2, WriteIsGuarded
<1> QED BY <1>1, <1>2, <1>3, EndsGuarded

\* asus_set_pwmPeriod.
LEMMA EndsPeriod ==
  ASSUME NEW k \in PwmPin, NEW r \in Word, NEW v \in Word,
         NEW cur, NEW x \in Registers, NEW q, NEW y
  PROVE  /\ SetPeriod(k, r, v) \in Seq(Accesses)
         /\ EndsAs(cur, SetPeriod(k, r, v), x, q, y) =>
              IF x = "period" /\ q = k THEN y = r
              ELSE IF x = "low" /\ q = k /\ v # Size - 1 THEN y = Minus(r, v)
              ELSE y = cur
<1>1. PICK w \in Registers : w = "period"
  BY DEF Registers
<1>2. PICK g \in Seq(Accesses) : g = Guarded(k, w, r)
  BY GuardedList
<1>3. EndsAs(cur, g, x, q, y) => IF x = w /\ q = k THEN y = r ELSE y = cur
  BY <1>2, EndsGuardedOnly
<1>4. CASE v = Size - 1
  <2>1. SetPeriod(k, r, v) = g
    BY <1>1, <1>2, <1>4 DEF SetPeriod
  <2> QED BY <1>1, <1>3, <1>4, <2>1
<1>5. CASE v # Size - 1
  <2>1. SetPeriod(k, r, v) = g \o PwmWrite(k, r, v)
    BY <1>1, <1>2, <1>5 DEF SetPeriod
  <2>2. PwmWrite(k, r, v) \in Seq(Accesses)
    BY WriteIsGuarded
  <2>3. SetPeriod(k, r, v) \in Seq(Accesses)
    BY <2>1, <2>2
  <2>4. EndsAs(cur, g \o PwmWrite(k, r, v), x, q, y) =>
          IF x = "low" /\ q = k THEN y = Minus(r, v) ELSE EndsAs(cur, g, x, q, y)
    BY EndsWriteAfter
  <2> QED BY <1>1, <1>3, <1>5, <2>1, <2>3, <2>4
<1> QED BY <1>4, <1>5

\* The divider field takes what fits it.
HalfFits(ws) == \A i \in 1..Len(ws) : ws[i].word = "half" => ws[i].val \in 0..128

LEMMA HalfGuarded ==
  ASSUME NEW k \in PwmPin, NEW w \in Registers, NEW v \in Word,
         w = "half" => v \in 0..128
  PROVE  HalfFits(Guarded(k, w, v))
BY DEF Guarded, Access, HalfFits, Registers

LEMMA HalfConcat ==
  ASSUME NEW S, NEW s \in Seq(S), NEW t \in Seq(S), HalfFits(s), HalfFits(t)
  PROVE  HalfFits(s \o t)
<1> SUFFICES ASSUME NEW i \in 1..Len(s \o t), (s \o t)[i].word = "half"
             PROVE  (s \o t)[i].val \in 0..128
  BY DEF HalfFits
<1>1. Len(s) \in Nat /\ Len(t) \in Nat /\ Len(s \o t) = Len(s) + Len(t)
  OBVIOUS
<1>2. CASE i \in 1..Len(s)
  <2>1. (s \o t)[i] = s[i]
    BY <1>2
  <2> QED BY <1>2, <2>1 DEF HalfFits
<1>3. CASE i \notin 1..Len(s)
  <2>1. PICK j \in 1..Len(t) : j = i - Len(s)
    BY <1>1, <1>3
  <2>2. (s \o t)[i] = t[j]
    BY <1>1, <1>3, <2>1
  <2> QED BY <2>1, <2>2 DEF HalfFits
<1> QED BY <1>2, <1>3

LEMMA HalfLists ==
  ASSUME NEW k \in PwmPin, NEW r \in Word, NEW v \in Word
  PROVE  HalfFits(PwmWrite(k, r, v)) /\ HalfFits(SetPeriod(k, r, v))
<1>1. PICK l \in Word : l = Minus(r, v)
  BY MinusInWord
<1>2. PICK w \in Registers : w = "low"
  BY DEF Registers
<1>3. PICK x \in Registers : x = "period"
  BY DEF Registers
<1>4. PICK g \in Seq(Accesses) : g = Guarded(k, w, l)
  BY GuardedList
<1>5. PICK h \in Seq(Accesses) : h = Guarded(k, x, r)
  BY GuardedList
<1>6. HalfFits(g) /\ HalfFits(h)
  BY <1>2, <1>3, <1>4, <1>5, HalfGuarded
<1>7. PwmWrite(k, r, v) = g
  BY <1>1, <1>2, <1>4 DEF PwmWrite
<1>8. HalfFits(h \o g)
  BY <1>6, HalfConcat
<1>9. SetPeriod(k, r, v) = h \/ SetPeriod(k, r, v) = h \o g
  <2>1. CASE v # Size - 1
    BY <2>1, <1>3, <1>5, <1>7 DEF SetPeriod
  <2>2. CASE v = Size - 1
    BY <2>2, <1>3, <1>5 DEF SetPeriod
  <2> QED BY <2>1, <2>2
<1> QED BY <1>6, <1>7, <1>8, <1>9

\* asus_set_pwmFrequency.
LEMMA EndsFrequency ==
  ASSUME NEW k \in PwmPin, NEW d \in Nat
  PROVE  /\ SetFrequency(k, d) \in Seq(Accesses) /\ HalfFits(SetFrequency(k, d))
         /\ \A x \in Registers : \A cur, q, y : EndsAs(cur, SetFrequency(k, d), x, q, y) =>
              IF x = "half" /\ q = k THEN y = Clamp(d) \div 2 ELSE y = cur
<1>1. PICK c \in 2..256 : c = Clamp(d)
  BY DEF Clamp
<1>2. PICK v \in 0..128 : v = c \div 2
  OBVIOUS
<1>3. v \in Word
  BY WordSize DEF Word
<1>4. PICK w \in Registers : w = "half"
  BY DEF Registers
<1>5. SetFrequency(k, d) = Guarded(k, w, v)
  BY <1>1, <1>2, <1>4 DEF SetFrequency
<1>6. SetFrequency(k, d) \in Seq(Accesses) /\ HalfFits(SetFrequency(k, d))
  BY <1>3, <1>5, GuardedList, HalfGuarded
<1>7. \A x \in Registers : \A cur, q, y : EndsAs(cur, Guarded(k, w, v), x, q, y) =>
         IF x = w /\ q = k THEN y = v ELSE y = cur
  BY <1>3, EndsGuardedOnly
<1> QED BY <1>1, <1>2, <1>4, <1>5, <1>6, <1>7

\* The period of a tone fits its register, and so does half of it.
LEMMA DivisorType ==
  ASSUME NEW h \in 0..128
  PROVE  (IF h = 0 THEN 512 ELSE 2 * h) \in Nat /\ (IF h = 0 THEN 512 ELSE 2 * h) > 0
OBVIOUS

LEMMA TonePeriodType ==
  ASSUME NEW k, half[k] \in 0..128, NEW f \in Nat
  PROVE  /\ f # 0 => TonePeriod(k, f) \in Word
         /\ ToneHigh(k, f) \in Word
<1>1. PICK d \in Nat : d > 0 /\ d = Divisor(k)
  BY DivisorType DEF Divisor
<1>2. PICK c \in Nat : c = Clock \div d /\ c <= Clock
  BY HwParameters, <1>1, Quotient
<1>3. CASE f = 0
  BY <1>3, WordSize DEF ToneHigh
<1>4. CASE f # 0
  <2>1. PICK t \in Nat : t = c \div f /\ t <= c
    BY <1>4, Quotient
  <2>2. t = TonePeriod(k, f)
    BY <1>1, <1>2, <2>1 DEF TonePeriod
  <2>3. PICK h \in Nat : h = t \div 2 /\ h <= t
    BY Quotient
  <2>4. t \in Word /\ h \in Word
    BY HwParameters, <1>2, <2>1, <2>3 DEF Word
  <2>5. h = ToneHigh(k, f)
    BY <1>4, <2>2, <2>3 DEF ToneHigh
  <2> QED BY <1>4, <2>2, <2>4, <2>5
<1> QED BY <1>3, <1>4

\* asus_pwmToneWrite: no word but the period and the low time of its pin.
LEMMA EndsTone ==
  ASSUME NEW k \in PwmPin, half[k] \in 0..128, NEW f \in Nat,
         period[k] \in Word, low[k] \in Word
  PROVE  /\ ToneWrite(k, f) \in Seq(Accesses) /\ HalfFits(ToneWrite(k, f))
         /\ \A x \in Registers : \A cur, q, y : EndsAs(cur, ToneWrite(k, f), x, q, y) =>
              IF q = k /\ x = "period" THEN IF f # 0 THEN y = TonePeriod(k, f) ELSE y = cur
              ELSE IF q = k /\ x = "low"
                THEN y = Minus(IF f # 0 THEN TonePeriod(k, f) ELSE period[k], ToneHigh(k, f))
              ELSE y = cur
<1>1. CASE f = 0
  <2>1. PICK r \in Word : r = period[k]
    OBVIOUS
  <2>2. PICK z \in Word : z = 0
    BY WordSize
  <2>3. ToneWrite(k, f) = PwmWrite(k, r, z)
    BY <1>1, <2>1, <2>2 DEF ToneWrite
  <2>4. ToneHigh(k, f) = z
    BY <1>1, <2>2 DEF ToneHigh
  <2>5. PwmWrite(k, r, z) \in Seq(Accesses) /\ HalfFits(PwmWrite(k, r, z))
    BY WriteIsGuarded, HalfLists
  <2>6. \A x \in Registers : \A cur, q, y : EndsAs(cur, PwmWrite(k, r, z), x, q, y) =>
          IF x = "low" /\ q = k THEN y = Minus(r, z) ELSE y = cur
    BY EndsWrite
  <2> QED BY <1>1, <2>1, <2>3, <2>4, <2>5, <2>6
<1>2. CASE f # 0
  <2>1. PICK t \in Word : t = TonePeriod(k, f)
    BY <1>2, TonePeriodType
  <2>2. PICK h \in Word : h = ToneHigh(k, f)
    BY TonePeriodType
  <2>3. PICK v \in Word : v = HighTime(k)
    BY MinusInWord DEF HighTime
  <2>4. ToneWrite(k, f) = SetPeriod(k, t, v) \o PwmWrite(k, t, h)
    BY <1>2, <2>1, <2>2, <2>3 DEF ToneWrite
  <2>5. PICK s \in Seq(Accesses) : s = SetPeriod(k, t, v)
    BY EndsPeriod DEF Registers
  <2>6. PICK w \in Seq(Accesses) : w = PwmWrite(k, t, h)
    BY WriteIsGuarded
  <2>7. HalfFits(s) /\ HalfFits(w)
    BY <2>5, <2>6, HalfLists
  <2>8. s \o w \in Seq(Accesses) /\ HalfFits(s \o w)
    BY <2>7, HalfConcat
  <2>9. \A x \in Registers : \A cur, q, y : EndsAs(cur, s \o w, x, q, y) =>
          IF x = "low" /\ q = k THEN y = Minus(t, h) ELSE EndsAs(cur, s, x, q, y)
    BY <2>6, EndsWriteAfter
  <2>10. \A x \in Registers : \A cur, q, y : EndsAs(cur, s, x, q, y) =>
           IF x = "period" /\ q = k THEN y = t
           ELSE IF x = "low" /\ q = k /\ v # Size - 1 THEN y = Minus(t, v)
           ELSE y = cur
    BY <2>5, EndsPeriod
  <2>11. \A x \in Registers : \A cur, q, y : EndsAs(cur, s \o w, x, q, y) =>
           IF q = k /\ x = "period" THEN y = t
           ELSE IF q = k /\ x = "low" THEN y = Minus(t, h) ELSE y = cur
    BY <2>9, <2>10
  <2> QED BY <1>2, <2>1, <2>2, <2>4, <2>5, <2>6, <2>8, <2>11
<1> QED BY <1>1, <1>2

-----------------------------------------------------------------------------
(* Types of the hardware PWM.                                              *)

\* A function to call is given a value of its kind.
Item == {i \in Functions : /\ i.fn \in {"write", "period", "range"} => i.val \in Word
                           /\ i.fn = "tone" => i.val \in Tones}

PinsOK == /\ library \in {"python", "wiringPi"}
          /\ direction \in [Pin -> {"none", "INPUT", "OUTPUT", "PWM_OUTPUT"}]
          /\ function \subseteq PwmPin /\ drive \in [Pin -> 0..3]
WordsOK == /\ period \in [PwmPin -> Word] /\ low \in [PwmPin -> Word]
           /\ half \in [PwmPin -> 0..128] /\ on \in [PwmPin -> BOOLEAN]
RestOK == rest \in Seq(Item)
WritesOK == writes \in Seq(Accesses) /\ HalfFits(writes)
HistoryOK == asked \in [PwmPin -> Word] /\ tone \in [PwmPin -> Tones \cup {0}]

HwTypes == PinsOK /\ WordsOK /\ RestOK /\ WritesOK /\ HistoryOK

LEMMA HwTypesGiveTypeOK == HwTypes => HwTypeOK
<1> SUFFICES ASSUME HwTypes PROVE HwTypeOK
  OBVIOUS
<1>1. \A i \in 1..Len(rest) : rest[i] \in Functions
  BY DEF HwTypes, RestOK, Item
<1>2. rest \in Seq(Functions)
  BY <1>1 DEF HwTypes, RestOK
<1> QED BY <1>2 DEF HwTypes, PinsOK, WordsOK, WritesOK, HistoryOK, HwTypeOK

LEMMA HwTypesInit == HwInit => HwTypes
<1> SUFFICES ASSUME HwInit PROVE HwTypes
  OBVIOUS
<1>1. 0 \in Word
  BY WordSize
<1>2. HalfFits(<<>>)
  BY DEF HalfFits
<1>3. RestOK /\ WritesOK
  BY <1>2 DEF HwInit, RestOK, WritesOK
<1>4. PinsOK /\ WordsOK /\ HistoryOK
  BY <1>1 DEF HwInit, PinsOK, WordsOK, HistoryOK
<1> QED BY <1>3, <1>4 DEF HwTypes

Names == {"write", "tone", "period", "range", "frequency", "clock"}
Fits(fn, v) == /\ v \in Nat
               /\ fn \in {"write", "period", "range"} => v \in Word
               /\ fn = "tone" => v \in Tones

\* The functions of a call for the pins ps.
LEMMA EachType ==
  ASSUME NEW fn \in Names, NEW ps \in Seq(Pin), NEW vs,
         \A i \in 1..Len(ps) : Fits(fn, vs[i]),
         NEW cs, cs = Each(fn, ps, vs)
  PROVE  cs \in Seq(Item) /\ \A i \in 1..Len(cs) : cs[i].fn = fn
<1> DEFINE item(i) == [fn |-> fn, pin |-> ps[i], val |-> vs[i]]
           e == [i \in 1..Len(ps) |-> item(i)]
<1>1. DOMAIN ps = 1..Len(ps) /\ Len(ps) \in Nat
  OBVIOUS
<1>2. \A i \in 1..Len(ps) : item(i) \in Item
  <2> SUFFICES ASSUME NEW i \in 1..Len(ps) PROVE item(i) \in Item
    OBVIOUS
  <2>1. ps[i] \in Pin /\ Fits(fn, vs[i])
    BY <1>1
  <2> QED BY <2>1 DEF Item, Fits, Names, Functions
<1>3. e \in Seq(Item)
  <2> HIDE DEF item
  <2> QED BY <1>1, <1>2, IsASeq
<1>4. cs = e
  BY <1>1 DEF Each
<1>5. Len(e) = Len(ps) /\ \A i \in 1..Len(ps) : e[i].fn = fn
  BY <1>1
<1> QED BY <1>3, <1>4, <1>5

LEMMA SilenceStep ==
  ASSUME HistoryOK, NEW ps, Silence(ps), UNCHANGED asked
  PROVE  /\ HistoryOK' /\ \A q \in PwmPin : tone'[q] \in {0, tone[q]}
         /\ \A q \in PwmPin \cap ps : tone'[q] = 0
BY DEF HistoryOK, Silence

\* A step of a call that writes no register and asks for nothing.
QuietStep == /\ UNCHANGED <<period, low, half, on, writes, asked>>
             /\ \A q \in PwmPin : tone'[q] \in {0, tone[q]}

LEMMA QuietTypes ==
  ASSUME HwTypes, UNCHANGED <<period, low, half, on, writes, asked>>
  PROVE  /\ WordsOK' /\ WritesOK'
         /\ UNCHANGED tone => HistoryOK' /\ \A q \in PwmPin : tone'[q] \in {0, tone[q]}
         /\ UNCHANGED rest => RestOK'
         /\ UNCHANGED <<library, direction, function, drive>> => PinsOK'
BY DEF HwTypes, WordsOK, WritesOK, HistoryOK, RestOK, PinsOK, HalfFits

LEMMA WithStep ==
  ASSUME HwTypes, NEW lib, With(lib)
  PROVE  UNCHANGED <<period, low, half, on, writes, asked, library>> /\ rest = <<>> /\ writes = <<>>
BY DEF With, Idle, words

LEMMA BeginStep ==
  ASSUME HwTypes, NEW lib, NEW cs \in Seq(Item), Begin(lib, cs),
         \/ UNCHANGED tone
         \/ \E ps : Silence(ps)
  PROVE  /\ HwTypes' /\ QuietStep /\ rest' = cs
         /\ UNCHANGED function
<1>1. With(lib) /\ rest' = cs /\ UNCHANGED <<direction, function, drive>>
  BY DEF Begin
<1>2. UNCHANGED <<period, low, half, on, writes, asked, library>>
  BY <1>1, WithStep
<1>3. WordsOK' /\ WritesOK' /\ PinsOK'
  BY <1>1, <1>2, QuietTypes
<1>4. RestOK'
  BY <1>1 DEF RestOK
<1>5. HistoryOK' /\ \A q \in PwmPin : tone'[q] \in {0, tone[q]}
  BY <1>2, QuietTypes, SilenceStep DEF HwTypes
<1> QED BY <1>1, <1>2, <1>3, <1>4, <1>5 DEF HwTypes, QuietStep

LEMMA LeaveStep ==
  ASSUME HwTypes, NEW lib, NEW k \in Pin, NEW d \in {"none", "INPUT", "OUTPUT"},
         With(lib), Leave(k), \/ UNCHANGED direction
                              \/ direction' = [direction EXCEPT ![k] = d]
  PROVE  /\ HwTypes' /\ QuietStep /\ rest' = <<>>
<1>1. UNCHANGED <<period, low, half, on, writes, asked, library>> /\ rest = <<>>
  BY WithStep
<1>2. /\ function' = function \ {k} /\ UNCHANGED <<drive, rest>>
      /\ Silence({k})
  BY DEF Leave
<1>3. WordsOK' /\ WritesOK' /\ RestOK'
  BY <1>1, <1>2, QuietTypes
<1>4. HistoryOK' /\ \A q \in PwmPin : tone'[q] \in {0, tone[q]}
  BY <1>1, <1>2, SilenceStep DEF HwTypes
<1>5. PinsOK'
  BY <1>1, <1>2 DEF HwTypes, PinsOK
<1> QED BY <1>1, <1>2, <1>3, <1>4, <1>5 DEF HwTypes, QuietStep

-----------------------------------------------------------------------------
(* The calls.                                                              *)

\* A call that sets the range or the clock of the channels writes no tone, and
\* replaces the tones of the channels it reaches.
RestInv ==
  \A i, j \in 1..Len(rest) : rest[i].fn \in {"range", "clock"} =>
    /\ rest[j].fn # "tone"
    /\ rest[i].pin \in function => tone[rest[i].pin] = 0

LEMMA RestOfOne ==
  ASSUME NEW cs, rest' = cs, \A i \in 1..Len(cs) : cs[i].fn \notin {"range", "clock"}
  PROVE  RestInv'
BY DEF RestInv

LEMMA RestOfAll ==
  ASSUME NEW cs, rest' = cs, \A i \in 1..Len(cs) : cs[i].fn # "tone",
         \A q \in function' : tone'[q] = 0
  PROVE  RestInv'
BY DEF RestInv

\* A function for one pin, and for all channels.
One(fn, k, v) == Each(fn, <<k>>, <<v>>)
All(fn, v) == Each(fn, Channels, [i \in DOMAIN Channels |-> v])

LEMMA OneEach ==
  ASSUME NEW fn \in Names, NEW k \in Pin, NEW v, Fits(fn, v),
         NEW cs, cs = One(fn, k, v)
  PROVE  cs \in Seq(Item) /\ \A i \in 1..Len(cs) : cs[i].fn = fn
<1>1. <<k>> \in Seq(Pin) /\ Len(<<k>>) = 1
  OBVIOUS
<1>2. PICK ps \in Seq(Pin) : ps = <<k>> /\ Len(ps) = 1
  BY <1>1
<1>3. PICK vs : vs = <<v>>
  OBVIOUS
<1>4. \A i \in 1..Len(ps) : Fits(fn, vs[i])
  BY <1>2, <1>3
<1>5. PICK es : es = Each(fn, ps, vs)
  OBVIOUS
<1>6. ps \in Seq(Pin)
  BY <1>2
<1>7. es \in Seq(Item) /\ \A i \in 1..Len(es) : es[i].fn = fn
  BY <1>4, <1>5, <1>6, EachType
<1>8. cs = es
  BY <1>2, <1>3, <1>5 DEF One
<1> QED BY <1>7, <1>8

LEMMA ChannelsEach ==
  ASSUME NEW fn \in Names, NEW v, Fits(fn, v),
         NEW cs, cs = All(fn, v)
  PROVE  cs \in Seq(Item) /\ \A i \in 1..Len(cs) : cs[i].fn = fn
<1>1. Channels \in Seq(PwmPin) /\ PwmPin \subseteq Pin
  BY HwParameters DEF PwmPin, Pin
<1>2. PICK ps \in Seq(Pin) : ps = Channels
  BY <1>1, SeqMonotonic
<1>3. PICK vs : vs = [i \in DOMAIN Channels |-> v]
  OBVIOUS
<1>4. \A i \in 1..Len(ps) : Fits(fn, vs[i])
  BY <1>2, <1>3
<1>5. cs = Each(fn, ps, vs)
  BY <1>2, <1>3 DEF All
<1> QED BY <1>2, <1>4, <1>5, EachType

LEMMA TwoLists ==
  ASSUME NEW s \in Seq(Item), NEW t \in Seq(Item), NEW F,
         \A i \in 1..Len(s) : s[i].fn \in F, \A i \in 1..Len(t) : t[i].fn \in F,
         NEW cs, cs = s \o t
  PROVE  cs \in Seq(Item) /\ \A i \in 1..Len(cs) : cs[i].fn \in F
<1>1. /\ Len(s) \in Nat /\ Len(t) \in Nat /\ Len(cs) = Len(s) + Len(t)
      /\ cs \in Seq(Item)
  OBVIOUS
<1>2. ASSUME NEW i \in 1..Len(cs) PROVE cs[i].fn \in F
  <2>1. CASE i \in 1..Len(s)
    <3>1. cs[i] = s[i]
      BY <2>1
    <3> QED BY <2>1, <3>1
  <2>2. CASE i \notin 1..Len(s)
    <3>1. i - Len(s) \in 1..Len(t)
      BY <1>1, <2>2
    <3>2. PICK j \in 1..Len(t) : j = i - Len(s)
      BY <3>1
    <3>3. cs[i] = t[j]
      BY <1>1, <2>2, <3>2
    <3> QED BY <3>3
  <2> QED BY <2>1, <2>2
<1> QED BY <1>1, <1>2

\* The calls of the Python library.
LEMMA ListCall ==
  ASSUME HwTypes, NEW fn \in Names, fn \notin {"range", "clock"}, NEW ps \in Seq(Pin), NEW vs,
         \A i \in 1..Len(ps) : Fits(fn, vs[i]),
         NEW lib, Begin(lib, Each(fn, ps, vs)), UNCHANGED tone
  PROVE  HwTypes' /\ QuietStep /\ RestInv'
<1>1. PICK cs : cs = Each(fn, ps, vs)
  OBVIOUS
<1>2. cs \in Seq(Item) /\ \A i \in 1..Len(cs) : cs[i].fn = fn
  BY <1>1, EachType
<1>3. HwTypes' /\ QuietStep /\ rest' = cs
  BY <1>1, <1>2, BeginStep
<1>4. \A i \in 1..Len(cs) : cs[i].fn \notin {"range", "clock"}
  BY <1>2
<1> QED BY <1>3, <1>4, RestOfOne

LEMMA ValuesFit ==
  ASSUME NEW ps \in Seq(Pin), NEW fn \in Names, NEW S, NEW vs \in For(ps, S),
         \A v \in S : Fits(fn, v)
  PROVE  \A i \in 1..Len(ps) : Fits(fn, vs[i])
<1>1. DOMAIN ps = 1..Len(ps)
  OBVIOUS
<1> QED BY <1>1 DEF For

LEMMA ArgumentsFit ==
  /\ \A v \in Values : Fits("write", v)
  /\ \A v \in Tones : Fits("tone", v)
  /\ \A v \in Periods : Fits("period", v) /\ Fits("range", v)
  /\ \A v \in Divisors : Fits("frequency", v)
  /\ \A v \in Nat : Fits("frequency", v) /\ Fits("clock", v)
BY HwParameters DEF Word, Fits

LEMMA ListArguments ==
  /\ Lists \subseteq Seq(Pin) /\ PwmPin \subseteq Pin
  /\ Values \subseteq Word /\ Periods \subseteq Word /\ Divisors \subseteq Word
  /\ Values \in SUBSET Nat /\ Periods \in SUBSET Nat /\ Divisors \in SUBSET Nat
  /\ Tones \in SUBSET Nat /\ Word \subseteq Nat
BY HwParameters DEF Word, Pin

LEMMA PyCallStep ==
  ASSUME HwTypes, PyCall
  PROVE  HwTypes' /\ QuietStep /\ RestInv'
<1> USE ListArguments
<1>1. ASSUME NEW k \in Pin, NEW d \in Directions, Setup(k, d)
      PROVE  HwTypes' /\ QuietStep /\ RestInv'
  <2>1. /\ With("python") /\ direction' = [direction EXCEPT ![k] = d] /\ Leave(k)
        /\ d \in {"none", "INPUT", "OUTPUT"}
    BY HwParameters, <1>1 DEF Setup
  <2>2. HwTypes' /\ QuietStep /\ rest' = <<>>
    BY <2>1, LeaveStep
  <2> QED BY <2>2, RestOfOne
<1>2. ASSUME NEW k \in Pin, Cleanup(k)
      PROVE  HwTypes' /\ QuietStep /\ RestInv'
  <2>1. /\ With("python") /\ direction' = [direction EXCEPT ![k] = "none"] /\ Leave(k)
    BY <1>2 DEF Cleanup
  <2>2. HwTypes' /\ QuietStep /\ rest' = <<>>
    BY <2>1, LeaveStep
  <2> QED BY <2>2, RestOfOne
<1>3. ASSUME NEW k \in Pin, SetupPwm(k)
      PROVE  HwTypes' /\ QuietStep /\ RestInv'
  <2>1. /\ With("python") /\ direction' = [direction EXCEPT ![k] = "PWM_OUTPUT"]
        /\ function' = AsPwm(k) /\ UNCHANGED <<drive, tone>>
        /\ rest' = Each("frequency", <<k>>, <<124>>) \o Each("period", <<k>>, <<1024>>)
    BY <1>3 DEF SetupPwm
  <2>2. UNCHANGED <<period, low, half, on, writes, asked, library>>
    BY <2>1, WithStep
  <2>3. PICK s : s = One("frequency", k, 124)
    OBVIOUS
  <2>4. Fits("frequency", 124) /\ Fits("period", 1024)
    BY HwParameters DEF Word, Fits
  <2>5. PICK t : t = One("period", k, 1024)
    OBVIOUS
  <2>6. s \o t \in Seq(Item) /\ \A i \in 1..Len(s \o t) : (s \o t)[i].fn \in {"frequency", "period"}
    <3>1. s \in Seq(Item) /\ \A i \in 1..Len(s) : s[i].fn = "frequency"
      BY <2>3, <2>4, OneEach DEF Names
    <3>2. t \in Seq(Item) /\ \A i \in 1..Len(t) : t[i].fn = "period"
      BY <2>4, <2>5, OneEach DEF Names
    <3>3. PICK F : F = {"frequency", "period"}
      OBVIOUS
    <3>4. (\A i \in 1..Len(s) : s[i].fn \in F) /\ \A i \in 1..Len(t) : t[i].fn \in F
      BY <3>1, <3>2, <3>3
    <3> QED BY <3>1, <3>2, <3>3, <3>4, TwoLists
  <2>7. \A i \in 1..Len(s \o t) : (s \o t)[i].fn \notin {"range", "clock"}
    BY <2>6
  <2>8. rest' = s \o t
    BY <2>1, <2>3, <2>5 DEF One
  <2>9. RestInv' /\ RestOK'
    BY <2>6, <2>7, <2>8, RestOfOne DEF RestOK
  <2>10. WordsOK' /\ WritesOK' /\ HistoryOK' /\ QuietStep
    BY <2>1, <2>2, QuietTypes DEF QuietStep
  <2>11. PinsOK'
    BY <2>1, <2>2 DEF HwTypes, PinsOK, AsPwm
  <2> QED BY <2>9, <2>10, <2>11 DEF HwTypes
<1>4. ASSUME NEW k \in DrivePins, NEW v \in Strengths, PySetGpioDrive(k, v)
      PROVE  HwTypes' /\ QuietStep /\ RestInv'
  <2>1. /\ With("python") /\ drive' = [drive EXCEPT ![k] = v % 4]
        /\ UNCHANGED <<direction, function, rest, tone>>
    BY <1>4 DEF PySetGpioDrive
  <2>2. UNCHANGED <<period, low, half, on, writes, asked, library>> /\ rest = <<>>
    BY <2>1, WithStep
  <2>3. WordsOK' /\ WritesOK' /\ HistoryOK' /\ RestOK' /\ QuietStep
    BY <2>1, <2>2, QuietTypes DEF QuietStep
  <2>4. v % 4 \in 0..3 /\ k \in Pin
    BY HwParameters, Division
  <2>5. PinsOK'
    BY <2>1, <2>2, <2>4 DEF HwTypes, PinsOK
  <2>6. rest' = <<>>
    BY <2>1, <2>2
  <2> QED BY <2>3, <2>5, <2>6, RestOfOne DEF HwTypes
<1>5. ASSUME NEW ps \in Lists, NEW vs \in For(ps, Values), PyPwmWrite(ps, vs)
      PROVE  HwTypes' /\ QuietStep /\ RestInv'
  <2>1. ps \in Seq(Pin) /\ "write" \in Names
    BY DEF Names
  <2>2. \A i \in 1..Len(ps) : Fits("write", vs[i])
    BY <2>1, ArgumentsFit, ValuesFit
  <2>3. Begin("python", Each("write", ps, vs)) /\ UNCHANGED tone
    BY <1>5 DEF PyPwmWrite
  <2> QED BY <2>1, <2>2, <2>3, ListCall DEF Names
<1>6. ASSUME NEW ps \in Lists, NEW vs \in For(ps, Tones), PyPwmToneWrite(ps, vs)
      PROVE  HwTypes' /\ QuietStep /\ RestInv'
  <2>1. ps \in Seq(Pin) /\ "tone" \in Names
    BY DEF Names
  <2>2. \A i \in 1..Len(ps) : Fits("tone", vs[i])
    BY <2>1, ArgumentsFit, ValuesFit
  <2>3. Begin("python", Each("tone", ps, vs)) /\ UNCHANGED tone
    BY <1>6 DEF PyPwmToneWrite
  <2> QED BY <2>1, <2>2, <2>3, ListCall DEF Names
<1>7. ASSUME NEW ps \in Lists, NEW vs \in For(ps, Divisors), PyPwmSetFrequency(ps, vs)
      PROVE  HwTypes' /\ QuietStep /\ RestInv'
  <2>1. ps \in Seq(Pin) /\ "frequency" \in Names
    BY DEF Names
  <2>2. \A i \in 1..Len(ps) : Fits("frequency", vs[i])
    BY <2>1, ArgumentsFit, ValuesFit
  <2>3. Begin("python", Each("frequency", ps, vs)) /\ UNCHANGED tone
    BY <1>7 DEF PyPwmSetFrequency
  <2> QED BY <2>1, <2>2, <2>3, ListCall DEF Names
<1>8. ASSUME NEW ps \in Lists, NEW vs \in For(ps, Periods), PyPwmSetPeriod(ps, vs)
      PROVE  HwTypes' /\ QuietStep /\ RestInv'
  <2>1. ps \in Seq(Pin) /\ "period" \in Names
    BY DEF Names
  <2>2. \A i \in 1..Len(ps) : Fits("period", vs[i])
    BY <2>1, ArgumentsFit, ValuesFit
  <2>3. Begin("python", Each("period", ps, vs)) /\ UNCHANGED tone
    BY <1>8 DEF PyPwmSetPeriod
  <2> QED BY <2>1, <2>2, <2>3, ListCall DEF Names
<1> QED BY <1>1, <1>2, <1>3, <1>4, <1>5, <1>6, <1>7, <1>8 DEF PyCall

\* The calls of wiringPi.
LEMMA OneCall ==
  ASSUME HwTypes, NEW fn \in Names, fn \notin {"range", "clock"}, NEW k \in Pin, NEW v, Fits(fn, v),
         NEW lib, Begin(lib, One(fn, k, v)), UNCHANGED tone
  PROVE  HwTypes' /\ QuietStep /\ RestInv'
<1>1. PICK cs : cs = One(fn, k, v)
  OBVIOUS
<1>2. cs \in Seq(Item) /\ \A i \in 1..Len(cs) : cs[i].fn = fn
  BY <1>1, OneEach
<1>3. HwTypes' /\ QuietStep /\ rest' = cs
  BY <1>1, <1>2, BeginStep
<1>4. \A i \in 1..Len(cs) : cs[i].fn \notin {"range", "clock"}
  BY <1>2
<1> QED BY <1>3, <1>4, RestOfOne

LEMMA AllCall ==
  ASSUME HwTypes, NEW fn \in Names, fn \in {"range", "clock"}, NEW v, Fits(fn, v),
         NEW lib, Begin(lib, All(fn, v)),
         Silence(function)
  PROVE  HwTypes' /\ QuietStep /\ RestInv'
<1>1. PICK cs : cs = All(fn, v)
  OBVIOUS
<1>2. cs \in Seq(Item) /\ \A i \in 1..Len(cs) : cs[i].fn = fn
  BY <1>1, ChannelsEach
<1>3. HwTypes' /\ QuietStep /\ rest' = cs /\ UNCHANGED function
  BY <1>1, <1>2, BeginStep
<1>4. \A i \in 1..Len(cs) : cs[i].fn # "tone"
  BY <1>2
<1>5. \A q \in function' : tone'[q] = 0
  BY <1>3 DEF Silence, HwTypes, PinsOK
<1> QED BY <1>3, <1>4, <1>5, RestOfAll

LEMMA PinModePwmStep ==
  ASSUME HwTypes, NEW k \in Pin, PinModePwm(k)
  PROVE  HwTypes' /\ QuietStep /\ (Alone => RestInv')
<1>1. /\ With("wiringPi") /\ (Alone => function \subseteq {k})
      /\ function' = AsPwm(k)
      /\ rest' = SetRange(1024) \o SetClock(124)
      /\ Silence({k}) /\ UNCHANGED <<direction, drive>>
  BY DEF PinModePwm
<1>2. UNCHANGED <<period, low, half, on, writes, asked, library>>
  BY <1>1, WithStep
<1>3. Fits("range", 1024) /\ Fits("clock", 124) /\ "range" \in Names /\ "clock" \in Names
  BY HwParameters DEF Word, Fits, Names
<1>4. PICK s : s = All("range", 1024)
  OBVIOUS
<1>5. PICK t : t = All("clock", 124)
  OBVIOUS
<1>6. s \in Seq(Item) /\ \A i \in 1..Len(s) : s[i].fn = "range"
  BY <1>3, <1>4, ChannelsEach
<1>7. t \in Seq(Item) /\ \A i \in 1..Len(t) : t[i].fn = "clock"
  BY <1>3, <1>5, ChannelsEach
<1>8. PICK cs : cs = s \o t
  OBVIOUS
<1>9. cs \in Seq(Item) /\ \A i \in 1..Len(cs) : cs[i].fn # "tone"
  <2>1. PICK F : F = {"range", "clock"}
    OBVIOUS
  <2>2. (\A i \in 1..Len(s) : s[i].fn \in F) /\ \A i \in 1..Len(t) : t[i].fn \in F
    BY <1>6, <1>7, <2>1
  <2>3. cs \in Seq(Item) /\ \A i \in 1..Len(cs) : cs[i].fn \in F
    BY <1>6, <1>7, <1>8, <2>2, TwoLists
  <2> QED BY <2>1, <2>3
<1>10. rest' = cs
  BY <1>1, <1>4, <1>5, <1>8 DEF SetRange, SetClock, All
<1>11. HistoryOK' /\ \A q \in PwmPin : tone'[q] \in {0, tone[q]}
  BY <1>1, <1>2, SilenceStep DEF HwTypes
<1>12. Alone => RestInv'
  <2> SUFFICES ASSUME Alone PROVE RestInv'
    OBVIOUS
  <2>1. \A q \in function' : tone'[q] = 0
    BY <1>1 DEF AsPwm, Silence, HwTypes, PinsOK
  <2> QED BY <1>9, <1>10, <2>1, RestOfAll
<1>13. RestOK'
  BY <1>9, <1>10 DEF RestOK
<1>14. PinsOK'
  BY <1>1, <1>2 DEF HwTypes, PinsOK, AsPwm
<1>15. WordsOK' /\ WritesOK'
  BY <1>2, QuietTypes
<1> QED BY <1>2, <1>11, <1>12, <1>13, <1>14, <1>15 DEF HwTypes, QuietStep

LEMMA WpiCallStep ==
  ASSUME HwTypes, WpiCall
  PROVE  HwTypes' /\ QuietStep /\ (Alone => RestInv')
<1> USE ListArguments
<1>1. ASSUME NEW k \in Pin, PinMode(k)
      PROVE  HwTypes' /\ QuietStep /\ RestInv'
  <2>1. With("wiringPi") /\ Leave(k) /\ UNCHANGED direction
    BY <1>1 DEF PinMode
  <2>2. HwTypes' /\ QuietStep /\ rest' = <<>>
    BY <2>1, LeaveStep
  <2> QED BY <2>2, RestOfOne
<1>2. ASSUME NEW k \in PwmPin, NEW v \in Values, WpiPwmWrite(k, v)
      PROVE  HwTypes' /\ QuietStep /\ RestInv'
  <2>1. Begin("wiringPi", One("write", k, v)) /\ UNCHANGED tone
    BY <1>2 DEF WpiPwmWrite, One
  <2>2. Fits("write", v) /\ "write" \in Names
    BY ArgumentsFit DEF Names
  <2> QED BY <2>1, <2>2, OneCall
<1>3. ASSUME NEW k \in PwmPin, NEW f \in Tones, WpiPwmToneWrite(k, f)
      PROVE  HwTypes' /\ QuietStep /\ RestInv'
  <2>1. Begin("wiringPi", One("tone", k, f)) /\ UNCHANGED tone
    BY <1>3 DEF WpiPwmToneWrite, One
  <2>2. Fits("tone", f) /\ "tone" \in Names
    BY ArgumentsFit DEF Names
  <2> QED BY <2>1, <2>2, OneCall
<1>4. ASSUME NEW k \in PwmPin, NEW r \in Periods, SetPwmPeriod(k, r)
      PROVE  HwTypes' /\ QuietStep /\ RestInv'
  <2>1. Begin("wiringPi", One("period", k, r)) /\ UNCHANGED tone
    BY <1>4 DEF SetPwmPeriod, One
  <2>2. Fits("period", r) /\ "period" \in Names
    BY ArgumentsFit DEF Names
  <2> QED BY <2>1, <2>2, OneCall
<1>5. ASSUME NEW k \in PwmPin, NEW d \in Divisors, SetPwmFrequency(k, d)
      PROVE  HwTypes' /\ QuietStep /\ RestInv'
  <2>1. PICK v \in Nat : v = d % 256
    BY Division
  <2>2. Begin("wiringPi", One("frequency", k, v)) /\ UNCHANGED tone
    BY <1>5, <2>1 DEF SetPwmFrequency, One
  <2>3. Fits("frequency", v) /\ "frequency" \in Names
    BY ArgumentsFit DEF Names
  <2> QED BY <2>2, <2>3, OneCall
<1>6. ASSUME NEW r \in Periods, PwmSetRange(r)
      PROVE  HwTypes' /\ QuietStep /\ RestInv'
  <2>1. /\ Begin("wiringPi", All("range", r))
        /\ Silence(function)
    BY <1>6 DEF PwmSetRange, SetRange, All
  <2>2. Fits("range", r) /\ "range" \in Names
    BY ArgumentsFit DEF Names
  <2> QED BY <2>1, <2>2, AllCall
<1>7. ASSUME NEW d \in Divisors, PwmSetClock(d)
      PROVE  HwTypes' /\ QuietStep /\ RestInv'
  <2>1. PICK v \in Nat : v = d % 256
    BY Division
  <2>2. /\ Begin("wiringPi", All("clock", v))
        /\ Silence(function)
    BY <1>7, <2>1 DEF PwmSetClock, SetClock, All
  <2>3. Fits("clock", v) /\ "clock" \in Names
    BY ArgumentsFit DEF Names
  <2> QED BY <2>2, <2>3, AllCall
<1> QED BY <1>1, <1>2, <1>3, <1>4, <1>5, <1>6, <1>7, PinModePwmStep DEF WpiCall

-----------------------------------------------------------------------------
(* The functions of a call, and their accesses.                            *)

LEMMA NowStep ==
  ASSUME HwTypes, NEW fns, Now(fns)
  PROVE  /\ writes = <<>> /\ Head(rest) \in Item /\ Head(rest).fn \in fns /\ Head(rest).pin \in Pin
         /\ 1 \in 1..Len(rest) /\ rest[1] = Head(rest)
         /\ RestOK' /\ PinsOK' /\ UNCHANGED <<period, low, half, on, function>>
         /\ \A i \in 1..Len(rest') : i + 1 \in 1..Len(rest) /\ rest'[i] = rest[i + 1]
<1>1. /\ writes = <<>> /\ rest # <<>> /\ Head(rest).fn \in fns /\ rest' = Tail(rest)
      /\ UNCHANGED <<library, direction, function, drive>> /\ UNCHANGED <<period, low, half, on>>
  BY DEF Now, words
<1>2. rest \in Seq(Item)
  BY DEF HwTypes, RestOK
<1>3. /\ Head(rest) \in Item /\ rest' \in Seq(Item) /\ Len(rest) \in Nat /\ Len(rest) > 0
      /\ rest[1] = Head(rest) /\ Len(rest') = Len(rest) - 1
  BY <1>1, <1>2
<1>4. \A i \in 1..Len(rest') : i + 1 \in 1..Len(rest) /\ rest'[i] = rest[i + 1]
  BY <1>1, <1>2, <1>3
<1>5. PinsOK' /\ RestOK'
  BY <1>1, <1>3 DEF HwTypes, PinsOK, RestOK
<1>6. Head(rest).pin \in Pin
  BY <1>3 DEF Item, Functions
<1> QED BY <1>1, <1>3, <1>4, <1>5, <1>6

LEMMA MakeTypes ==
  ASSUME HwTypes, NEW fns, Now(fns), NEW k, NEW accesses \in Seq(Accesses), HalfFits(accesses),
         NEW v \in Word, NEW f \in Tones \cup {0}, Make(k, accesses, v, f)
  PROVE  HwTypes'
<1>1. /\ k \in function /\ writes' = accesses /\ asked' = [asked EXCEPT ![k] = v]
      /\ tone' = [tone EXCEPT ![k] = f]
  BY DEF Make
<1>2. RestOK' /\ PinsOK' /\ UNCHANGED <<period, low, half, on>>
  BY NowStep
<1>3. WordsOK'
  BY <1>2 DEF HwTypes, WordsOK
<1>4. WritesOK'
  BY <1>1 DEF WritesOK, HalfFits
<1>5. HistoryOK'
  BY <1>1 DEF HwTypes, HistoryOK
<1> QED BY <1>2, <1>3, <1>4, <1>5 DEF HwTypes

\* The accesses are to words of pin k.
OnlyOf(k, ws) == \A x \in Registers : \A cur, q, y : q # k /\ EndsAs(cur, ws, x, q, y) => y = cur

\* What a step of a call makes happen: the accesses acc to pin k.
Made(k, acc, v, f) ==
  /\ HwTypes' /\ k \in PwmPin /\ writes = <<>> /\ OnlyOf(k, acc)
  /\ UNCHANGED <<period, low, half>> /\ writes' = acc
  /\ asked' = [asked EXCEPT ![k] = v] /\ tone' = [tone EXCEPT ![k] = f]

LEMMA MakeIsMade ==
  ASSUME HwTypes, NEW fns, Now(fns), NEW k, NEW acc \in Seq(Accesses), HalfFits(acc),
         OnlyOf(k, acc), NEW v \in Word, NEW f \in Tones \cup {0}, Make(k, acc, v, f)
  PROVE  Made(k, acc, v, f)
<1>1. HwTypes'
  BY MakeTypes
<1>2. writes = <<>> /\ UNCHANGED <<period, low, half>>
  BY NowStep
<1>3. k \in PwmPin
  BY DEF HwTypes, PinsOK, Make
<1> QED BY <1>1, <1>2, <1>3 DEF Made, Make

LEMMA WordsTyped ==
  ASSUME HwTypes, NEW k \in PwmPin
  PROVE  /\ period[k] \in Word /\ low[k] \in Word /\ half[k] \in 0..128 /\ half[k] \in Word
         /\ HighTime(k) \in Word /\ asked[k] \in Word /\ tone[k] \in Tones \cup {0}
<1>1. period[k] \in Word /\ low[k] \in Word /\ half[k] \in 0..128
  BY DEF HwTypes, WordsOK
<1>2. \A h \in 0..128 : h \in Word
  BY WordSize DEF Word
<1>3. HighTime(k) \in Word
  BY <1>1, MinusInWord DEF HighTime
<1>4. asked[k] \in Word /\ tone[k] \in Tones \cup {0}
  BY DEF HwTypes, HistoryOK
<1> QED BY <1>1, <1>2, <1>3, <1>4

\* The pin of the function that is called, when it is a PWM.
LEMMA PresentItem ==
  ASSUME HwTypes, NEW fns, Now(fns), NEW k, k = Head(rest).pin, k \in function
  PROVE  /\ k \in PwmPin /\ Head(rest).val \in Nat
         /\ Head(rest).fn \in {"write", "period", "range"} => Head(rest).val \in Word
         /\ Head(rest).fn = "tone" => Head(rest).val \in Tones
<1>1. Head(rest) \in Item
  BY NowStep
<1>2. k \in PwmPin
  BY DEF HwTypes, PinsOK
<1> QED BY <1>1, <1>2 DEF Item, Functions

LEMMA MakeWriteStep ==
  ASSUME HwTypes, MakeWrite
  PROVE  \E k \in PwmPin : \E v \in Word :
           Made(k, PwmWrite(k, period[k], v), v, 0) /\ Now({"write"}) /\ k = Head(rest).pin
<1>1. PICK k : k = Head(rest).pin
  OBVIOUS
<1>2. PICK v : v = Head(rest).val
  OBVIOUS
<1>3. Now({"write"}) /\ Make(k, PwmWrite(k, period[k], v), v, 0)
  BY <1>1, <1>2 DEF MakeWrite
<1>4. k \in function /\ Head(rest).fn = "write"
  BY <1>3, NowStep DEF Make
<1>5. k \in PwmPin /\ v \in Word
  BY <1>1, <1>2, <1>3, <1>4, PresentItem
<1>6. PICK r \in Word : r = period[k]
  BY <1>5, WordsTyped
<1>7. PICK acc \in Seq(Accesses) : acc = PwmWrite(k, r, v)
  BY <1>5, WriteIsGuarded
<1>8. HalfFits(acc) /\ OnlyOf(k, acc)
  BY <1>5, <1>7, HalfLists, EndsWrite DEF OnlyOf
<1>9. PICK f \in Tones \cup {0} : f = 0
  OBVIOUS
<1>10. Make(k, acc, v, f)
  BY <1>3, <1>6, <1>7, <1>9
<1>11. Made(k, acc, v, f)
  BY <1>3, <1>5, <1>8, <1>10, MakeIsMade
<1> QED BY <1>1, <1>3, <1>5, <1>6, <1>7, <1>9, <1>11

LEMMA MakeToneStep ==
  ASSUME HwTypes, MakeTone
  PROVE  \E k \in PwmPin : \E f \in Tones :
           Made(k, ToneWrite(k, f), ToneHigh(k, f), f) /\ Now({"tone"}) /\ k = Head(rest).pin
<1>1. PICK k : k = Head(rest).pin
  OBVIOUS
<1>2. PICK f : f = Head(rest).val
  OBVIOUS
<1>3. Now({"tone"}) /\ Make(k, ToneWrite(k, f), ToneHigh(k, f), f)
  BY <1>1, <1>2 DEF MakeTone
<1>4. k \in function /\ Head(rest).fn = "tone"
  BY <1>3, NowStep DEF Make
<1>5. k \in PwmPin /\ f \in Tones /\ f \in Nat
  BY <1>1, <1>2, <1>3, <1>4, PresentItem
<1>6. period[k] \in Word /\ low[k] \in Word /\ half[k] \in 0..128
  BY <1>5, WordsTyped
<1>7. PICK acc \in Seq(Accesses) : acc = ToneWrite(k, f)
  BY <1>5, <1>6, EndsTone
<1>8. HalfFits(acc) /\ OnlyOf(k, acc)
  BY <1>5, <1>6, <1>7, EndsTone DEF OnlyOf
<1>9. PICK v \in Word : v = ToneHigh(k, f)
  BY <1>5, <1>6, TonePeriodType
<1>10. Make(k, acc, v, f) /\ f \in Tones \cup {0}
  BY <1>3, <1>5, <1>7, <1>9
<1>11. Made(k, acc, v, f)
  BY <1>3, <1>5, <1>8, <1>10, MakeIsMade
<1> QED BY <1>1, <1>3, <1>5, <1>7, <1>9, <1>11

LEMMA MakePeriodStep ==
  ASSUME HwTypes, MakePeriod
  PROVE  \E k \in PwmPin : \E r \in Word :
           /\ Made(k, SetPeriod(k, r, HighTime(k)), asked[k],
                   IF Head(rest).fn = "range" THEN tone[k] ELSE 0)
           /\ Now({"period", "range"}) /\ k = Head(rest).pin /\ k \in function
<1>1. PICK k : k = Head(rest).pin
  OBVIOUS
<1>2. PICK r : r = Head(rest).val
  OBVIOUS
<1>3. /\ Now({"period", "range"})
      /\ Make(k, SetPeriod(k, r, HighTime(k)), asked[k],
                 IF Head(rest).fn = "range" THEN tone[k] ELSE 0)
  BY <1>1, <1>2 DEF MakePeriod
<1>4. k \in function /\ Head(rest).fn \in {"period", "range"}
  BY <1>3, NowStep DEF Make
<1>5. k \in PwmPin /\ r \in Word
  BY <1>1, <1>2, <1>3, <1>4, PresentItem
<1>6. PICK v \in Word : v = HighTime(k)
  BY <1>5, WordsTyped
<1>7. PICK acc \in Seq(Accesses) : acc = SetPeriod(k, r, v)
  BY <1>5, EndsPeriod DEF Registers
<1>8. HalfFits(acc) /\ OnlyOf(k, acc)
  BY <1>5, <1>7, HalfLists, EndsPeriod DEF OnlyOf
<1>9. PICK a \in Word : a = asked[k]
  BY <1>5, WordsTyped
<1>10. PICK f \in Tones \cup {0} : f = IF Head(rest).fn = "range" THEN tone[k] ELSE 0
  BY <1>5, WordsTyped
<1>11. Make(k, acc, a, f)
  BY <1>3, <1>6, <1>7, <1>9, <1>10
<1>12. Made(k, acc, a, f)
  BY <1>3, <1>5, <1>8, <1>11, MakeIsMade
<1> QED BY <1>1, <1>3, <1>4, <1>5, <1>6, <1>7, <1>9, <1>10, <1>12

LEMMA MakeFrequencyStep ==
  ASSUME HwTypes, MakeFrequency
  PROVE  \E k \in PwmPin : \E d \in Nat :
           /\ Made(k, SetFrequency(k, d), asked[k], IF Head(rest).fn = "clock" THEN tone[k] ELSE 0)
           /\ Now({"frequency", "clock"}) /\ k = Head(rest).pin /\ k \in function
<1>1. PICK k : k = Head(rest).pin
  OBVIOUS
<1>2. PICK d : d = Head(rest).val
  OBVIOUS
<1>3. /\ Now({"frequency", "clock"})
      /\ Make(k, SetFrequency(k, d), asked[k], IF Head(rest).fn = "clock" THEN tone[k] ELSE 0)
  BY <1>1, <1>2 DEF MakeFrequency
<1>4. k \in function
  BY <1>3 DEF Make
<1>5. k \in PwmPin /\ d \in Nat
  BY <1>1, <1>2, <1>3, <1>4, PresentItem
<1>6. PICK acc \in Seq(Accesses) : acc = SetFrequency(k, d)
  BY <1>5, EndsFrequency
<1>7. HalfFits(acc) /\ OnlyOf(k, acc)
  BY <1>5, <1>6, EndsFrequency DEF OnlyOf
<1>8. PICK a \in Word : a = asked[k]
  BY <1>5, WordsTyped
<1>9. PICK f \in Tones \cup {0} : f = IF Head(rest).fn = "clock" THEN tone[k] ELSE 0
  BY <1>5, WordsTyped
<1>10. Make(k, acc, a, f)
  BY <1>3, <1>6, <1>8, <1>9
<1>11. Made(k, acc, a, f)
  BY <1>3, <1>5, <1>7, <1>10, MakeIsMade
<1> QED BY <1>1, <1>3, <1>4, <1>5, <1>6, <1>8, <1>9, <1>11

LEMMA WrittenType ==
  ASSUME NEW D, NEW R, NEW word \in [D -> R], NEW w, NEW a, a.pin \in D, NEW v, a.word = w => v \in R
  PROVE  Written(word, w, a, v) \in [D -> R]
BY DEF Written

\* An access: the first one is made, the others remain.
LEMMA DoAccessStep ==
  ASSUME HwTypes, DoAccess
  PROVE  /\ writes # <<>> /\ writes \in Seq(Accesses)
         /\ period' = Written(period, "period", Head(writes), Head(writes).val)
         /\ low' = Written(low, "low", Head(writes), Head(writes).val)
         /\ half' = Written(half, "half", Head(writes), Head(writes).val)
         /\ writes' = Tail(writes) /\ UNCHANGED <<function, rest, asked, tone>>
         /\ HwTypes'
<1>1. PICK a : a = Head(writes)
  OBVIOUS
<1>2. /\ writes # <<>>
      /\ period' = Written(period, "period", a, a.val)
      /\ low' = Written(low, "low", a, a.val)
      /\ half' = Written(half, "half", a, a.val)
      /\ on' = Written(on, "on", a, a.val = 1)
      /\ writes' = Tail(writes)
      /\ UNCHANGED <<library, direction, function, drive, rest, asked, tone>>
  BY <1>1 DEF DoAccess
<1>3. writes \in Seq(Accesses) /\ HalfFits(writes)
  BY DEF HwTypes, WritesOK
<1>4. /\ a \in Accesses /\ a = writes[1] /\ 1 \in 1..Len(writes)
      /\ writes' \in Seq(Accesses) /\ Len(writes') = Len(writes) - 1
  BY <1>1, <1>2, <1>3
<1>5. a.pin \in PwmPin /\ a.val \in Word
  BY <1>4 DEF Accesses
<1>6. a.word = "half" => a.val \in 0..128
  BY <1>3, <1>4 DEF HalfFits
<1>7. WordsOK'
  <2>1. /\ period \in [PwmPin -> Word] /\ low \in [PwmPin -> Word]
        /\ half \in [PwmPin -> 0..128] /\ on \in [PwmPin -> BOOLEAN]
    BY DEF HwTypes, WordsOK
  <2>2. period' \in [PwmPin -> Word] /\ low' \in [PwmPin -> Word]
    BY <1>2, <1>5, <2>1, WrittenType
  <2>3. half' \in [PwmPin -> 0..128]
    BY <1>2, <1>5, <1>6, <2>1, WrittenType
  <2>4. PICK b \in BOOLEAN : b = (a.val = 1)
    OBVIOUS
  <2>5. on' = Written(on, "on", a, b)
    BY <1>2, <2>4
  <2>6. on' \in [PwmPin -> BOOLEAN]
    BY <1>5, <2>1, <2>5, WrittenType
  <2> QED BY <2>2, <2>3, <2>6 DEF WordsOK
<1>8. HalfFits(writes)'
  <2> SUFFICES ASSUME NEW i \in 1..Len(writes'), writes'[i].word = "half"
               PROVE  writes'[i].val \in 0..128
    BY DEF HalfFits
  <2>1. Len(writes) \in Nat
    BY <1>3
  <2>2. PICK j \in 1..Len(writes) : j = i + 1
    BY <1>4, <2>1
  <2>3. writes'[i] = writes[j]
    BY <1>2, <1>3, <1>4, <2>2
  <2> QED BY <1>3, <2>2, <2>3 DEF HalfFits
<1>9. WritesOK'
  BY <1>4, <1>8 DEF WritesOK
<1>10. PinsOK' /\ RestOK' /\ HistoryOK'
  BY <1>2 DEF HwTypes, PinsOK, RestOK, HistoryOK
<1> QED BY <1>1, <1>2, <1>3, <1>7, <1>9, <1>10 DEF HwTypes

\* What the words will hold does not change with an access.
LEMMA EndsKept ==
  ASSUME HwTypes, DoAccess, NEW q \in PwmPin, NEW v
  PROVE  /\ EndsAs(period'[q], writes', "period", q, v) => EndsAs(period[q], writes, "period", q, v)
         /\ EndsAs(low'[q], writes', "low", q, v) => EndsAs(low[q], writes, "low", q, v)
         /\ EndsAs(half'[q], writes', "half", q, v) => EndsAs(half[q], writes, "half", q, v)
<1>1. /\ writes # <<>> /\ writes \in Seq(Accesses)
      /\ period' = Written(period, "period", Head(writes), Head(writes).val)
      /\ low' = Written(low, "low", Head(writes), Head(writes).val)
      /\ half' = Written(half, "half", Head(writes), Head(writes).val)
      /\ writes' = Tail(writes)
  BY DoAccessStep
<1>2. period \in [PwmPin -> Word] /\ low \in [PwmPin -> Word]
  BY DEF HwTypes, WordsOK
<1>3. half \in [PwmPin -> Word]
  <2>1. half \in [PwmPin -> 0..128]
    BY DEF HwTypes, WordsOK
  <2>2. \A h \in 0..128 : h \in Word
    BY WordSize DEF Word
  <2> QED BY <2>1, <2>2
<1> QED BY <1>1, <1>2, <1>3, EndsStep

-----------------------------------------------------------------------------
(* The types and the calls are invariant.                                  *)

LEMMA RaiseStep ==
  ASSUME HwTypes, Raise
  PROVE  HwTypes' /\ QuietStep /\ RestInv'
<1>1. /\ rest' = <<>> /\ UNCHANGED <<library, direction, function, drive, writes, asked, tone>>
      /\ UNCHANGED <<period, low, half, on>>
  BY DEF Raise, words
<1>2. /\ WordsOK' /\ WritesOK' /\ HistoryOK' /\ PinsOK'
      /\ \A q \in PwmPin : tone'[q] \in {0, tone[q]}
  BY <1>1, QuietTypes
<1>3. RestOK'
  BY <1>1 DEF RestOK
<1> QED BY <1>1, <1>2, <1>3, RestOfOne DEF HwTypes, QuietStep

LEMMA RestShrinks ==
  ASSUME HwTypes, RestInv, NEW fns, Now(fns),
         \/ Head(rest).fn = "tone"
         \/ \A q \in function : tone'[q] \in {0, tone[q]}
  PROVE  RestInv'
<1>1. /\ 1 \in 1..Len(rest) /\ rest[1] = Head(rest) /\ UNCHANGED function
      /\ \A i \in 1..Len(rest') : i + 1 \in 1..Len(rest) /\ rest'[i] = rest[i + 1]
  BY NowStep
<1> SUFFICES ASSUME NEW i \in 1..Len(rest'), NEW j \in 1..Len(rest'), rest'[i].fn \in {"range", "clock"}
             PROVE  rest'[j].fn # "tone" /\ (rest'[i].pin \in function' => tone'[rest'[i].pin] = 0)
  BY DEF RestInv
<1>2. PICK m \in 1..Len(rest) : m = i + 1
  BY <1>1
<1>3. PICK n \in 1..Len(rest) : n = j + 1
  BY <1>1
<1>4. rest'[i] = rest[m] /\ rest'[j] = rest[n]
  BY <1>1, <1>2, <1>3
<1>5. rest[n].fn # "tone" /\ rest[1].fn # "tone"
  BY <1>1, <1>4 DEF RestInv
<1>6. rest[m].pin \in function => tone[rest[m].pin] = 0
  BY <1>1, <1>4 DEF RestInv
<1> QED BY <1>1, <1>4, <1>5, <1>6

LEMMA IgnoreStep ==
  ASSUME HwTypes, Ignore
  PROVE  HwTypes' /\ QuietStep /\ (RestInv => RestInv')
<1>1. Now(Names) /\ UNCHANGED <<writes, asked, tone>>
  BY DEF Ignore, Names
<1>2. RestOK' /\ PinsOK' /\ UNCHANGED <<period, low, half, on>>
  BY <1>1, NowStep
<1>3. WordsOK' /\ WritesOK' /\ HistoryOK' /\ \A q \in PwmPin : tone'[q] \in {0, tone[q]}
  BY <1>1, <1>2, QuietTypes
<1>4. RestInv => RestInv'
  BY <1>1, <1>3, RestShrinks DEF HwTypes, PinsOK
<1> QED BY <1>1, <1>2, <1>3, <1>4 DEF HwTypes, QuietStep

LEMMA UnchangedStep ==
  ASSUME HwTypes, UNCHANGED hwVars
  PROVE  HwTypes' /\ QuietStep /\ (RestInv => RestInv')
<1>1. UNCHANGED <<library, direction, function, period, low, half, on, drive, rest, writes, asked, tone>>
  BY DEF hwVars
<1>2. HwTypes' /\ QuietStep
  BY <1>1, QuietTypes DEF HwTypes, QuietStep
<1>3. RestInv => RestInv'
  BY <1>1 DEF RestInv
<1> QED BY <1>2, <1>3

\* Every step is quiet, makes a function of wiringTB.c begin, or makes an access.
LEMMA Steps ==
  ASSUME HwTypes, [HwNext]_hwVars
  PROVE  \/ HwTypes' /\ QuietStep /\ (Alone /\ RestInv => RestInv')
         \/ MakeWrite \/ MakeTone \/ MakePeriod \/ MakeFrequency
         \/ DoAccess
<1>1. ASSUME PyCall PROVE HwTypes' /\ QuietStep /\ (Alone /\ RestInv => RestInv')
  BY <1>1, PyCallStep
<1>2. ASSUME WpiCall PROVE HwTypes' /\ QuietStep /\ (Alone /\ RestInv => RestInv')
  BY <1>2, WpiCallStep
<1>3. ASSUME Raise PROVE HwTypes' /\ QuietStep /\ (Alone /\ RestInv => RestInv')
  BY <1>3, RaiseStep
<1>4. ASSUME Ignore PROVE HwTypes' /\ QuietStep /\ (Alone /\ RestInv => RestInv')
  BY <1>4, IgnoreStep
<1>5. ASSUME UNCHANGED hwVars PROVE HwTypes' /\ QuietStep /\ (Alone /\ RestInv => RestInv')
  BY <1>5, UnchangedStep
<1> QED BY <1>1, <1>2, <1>3, <1>4, <1>5 DEF HwNext, FunctionStep

LEMMA HwTypesStep ==
  ASSUME HwTypes, [HwNext]_hwVars
  PROVE  HwTypes'
<1>1. ASSUME MakeWrite PROVE HwTypes'
  BY <1>1, MakeWriteStep DEF Made
<1>2. ASSUME MakeTone PROVE HwTypes'
  BY <1>2, MakeToneStep DEF Made
<1>3. ASSUME MakePeriod PROVE HwTypes'
  BY <1>3, MakePeriodStep DEF Made
<1>4. ASSUME MakeFrequency PROVE HwTypes'
  BY <1>4, MakeFrequencyStep DEF Made
<1>5. ASSUME DoAccess PROVE HwTypes'
  BY <1>5, DoAccessStep
<1> QED BY <1>1, <1>2, <1>3, <1>4, <1>5, Steps

-----------------------------------------------------------------------------
(* The high times.                                                         *)

\* Once the accesses that remain are made, the high time is the one asked for.
HighInv ==
  \A q \in PwmPin : \A r, l \in Word :
    /\ EndsAs(period[q], writes, "period", q, r) /\ EndsAs(low[q], writes, "low", q, l)
    /\ asked[q] # Size - 1
    => Minus(r, l) = asked[q]

LEMMA HighMade ==
  ASSUME HighInv, NEW k, NEW acc, NEW v, NEW f, HwTypes, Made(k, acc, v, f),
         \A r, l \in Word :
           /\ EndsAs(period[k], acc, "period", k, r) /\ EndsAs(low[k], acc, "low", k, l)
           /\ v # Size - 1
           => Minus(r, l) = v
  PROVE  HighInv'
<1> SUFFICES ASSUME NEW q \in PwmPin, NEW r \in Word, NEW l \in Word,
                    EndsAs(period'[q], writes', "period", q, r), EndsAs(low'[q], writes', "low", q, l),
                    asked'[q] # Size - 1
             PROVE  Minus(r, l) = asked'[q]
  BY DEF HighInv
<1>1. /\ k \in PwmPin /\ writes = <<>> /\ OnlyOf(k, acc) /\ UNCHANGED <<period, low>>
      /\ writes' = acc /\ asked' = [asked EXCEPT ![k] = v]
  BY DEF Made
<1>2. asked'[q] = IF q = k THEN v ELSE asked[q]
  BY <1>1 DEF HwTypes, HistoryOK
<1>3. EndsAs(period[q], acc, "period", q, r) /\ EndsAs(low[q], acc, "low", q, l)
  BY <1>1
<1>4. CASE q = k
  BY <1>2, <1>3, <1>4
<1>5. CASE q # k
  <2>1. "period" \in Registers /\ "low" \in Registers
    BY DEF Registers
  <2>2. r = period[q] /\ l = low[q]
    BY <1>1, <1>3, <1>5, <2>1 DEF OnlyOf
  <2>3. EndsAs(period[q], writes, "period", q, r) /\ EndsAs(low[q], writes, "low", q, l)
    BY <1>1, <2>2, EndsNow
  <2> QED BY <1>2, <1>5, <2>3 DEF HighInv
<1> QED BY <1>4, <1>5

LEMMA HighQuiet ==
  ASSUME HighInv, UNCHANGED <<period, low, writes, asked>>
  PROVE  HighInv'
BY DEF HighInv

\* Between two functions of a call the words hold what is asked for.
LEMMA HighNow ==
  ASSUME HwTypes, HighInv, writes = <<>>, NEW k \in PwmPin, asked[k] # Size - 1
  PROVE  HighTime(k) = asked[k]
<1>1. period[k] \in Word /\ low[k] \in Word
  BY WordsTyped
<1>2. EndsAs(period[k], writes, "period", k, period[k]) /\ EndsAs(low[k], writes, "low", k, low[k])
  BY EndsNow
<1> QED BY <1>1, <1>2 DEF HighInv, HighTime

LEMMA HighStep ==
  ASSUME HwTypes, HighInv, [HwNext]_hwVars
  PROVE  HighInv'
<1>1. "period" \in Registers /\ "low" \in Registers /\ "half" # "low" /\ "period" # "low"
      /\ "half" # "period"
  BY DEF Registers
<1>2. CASE QuietStep
  BY <1>2, HighQuiet DEF QuietStep
<1>3. CASE MakeWrite
  <2>1. PICK k \in PwmPin, v \in Word : Made(k, PwmWrite(k, period[k], v), v, 0)
    BY <1>3, MakeWriteStep
  <2>2. PICK p0 \in Word : p0 = period[k]
    BY WordsTyped
  <2>3. ASSUME NEW r \in Word, NEW l \in Word,
               EndsAs(period[k], PwmWrite(k, period[k], v), "period", k, r),
               EndsAs(low[k], PwmWrite(k, period[k], v), "low", k, l)
        PROVE  Minus(r, l) = v
    <3>1. r = p0
      BY <1>1, <2>2, <2>3, EndsWrite
    <3>2. l = Minus(p0, v)
      BY <1>1, <2>2, <2>3, EndsWrite
    <3> QED BY <3>1, <3>2, MinusInWord
  <2> QED BY <2>1, <2>3, HighMade
<1>4. CASE MakeTone
  <2>1. PICK k \in PwmPin, f \in Tones : Made(k, ToneWrite(k, f), ToneHigh(k, f), f)
    BY <1>4, MakeToneStep
  <2>2. f \in Nat /\ period[k] \in Word /\ low[k] \in Word /\ half[k] \in 0..128
    BY WordsTyped, ListArguments
  <2>3. PICK h \in Word : h = ToneHigh(k, f)
    BY <2>2, TonePeriodType
  <2>4. PICK t \in Word : t = IF f # 0 THEN TonePeriod(k, f) ELSE period[k]
    BY <2>2, TonePeriodType
  <2>5. ASSUME NEW r \in Word, NEW l \in Word,
               EndsAs(period[k], ToneWrite(k, f), "period", k, r),
               EndsAs(low[k], ToneWrite(k, f), "low", k, l)
        PROVE  Minus(r, l) = ToneHigh(k, f)
    <3>1. r = t
      BY <1>1, <2>2, <2>4, <2>5, EndsTone
    <3>2. l = Minus(t, h)
      BY <1>1, <2>2, <2>3, <2>4, <2>5, EndsTone
    <3> QED BY <2>3, <3>1, <3>2, MinusInWord
  <2> QED BY <2>1, <2>5, HighMade
<1>5. CASE MakePeriod
  <2>1. PICK k \in PwmPin, n \in Word :
          Made(k, SetPeriod(k, n, HighTime(k)), asked[k],
               IF Head(rest).fn = "range" THEN tone[k] ELSE 0)
    BY <1>5, MakePeriodStep
  <2>2. PICK v \in Word : v = HighTime(k)
    BY WordsTyped
  <2>3. asked[k] # Size - 1 => v = asked[k]
    BY <2>1, <2>2, HighNow DEF Made
  <2>4. ASSUME NEW r \in Word, NEW l \in Word,
               EndsAs(period[k], SetPeriod(k, n, HighTime(k)), "period", k, r),
               EndsAs(low[k], SetPeriod(k, n, HighTime(k)), "low", k, l), asked[k] # Size - 1
        PROVE  Minus(r, l) = asked[k]
    <3>1. r = n
      BY <1>1, <2>2, <2>4, EndsPeriod
    <3>2. l = Minus(n, v)
      BY <1>1, <2>2, <2>3, <2>4, EndsPeriod
    <3> QED BY <2>3, <2>4, <3>1, <3>2, MinusInWord
  <2> QED BY <2>1, <2>4, HighMade
<1>6. CASE MakeFrequency
  <2>1. PICK k \in PwmPin, d \in Nat :
          Made(k, SetFrequency(k, d), asked[k], IF Head(rest).fn = "clock" THEN tone[k] ELSE 0)
    BY <1>6, MakeFrequencyStep
  <2>2. ASSUME NEW r \in Word, NEW l \in Word,
               EndsAs(period[k], SetFrequency(k, d), "period", k, r),
               EndsAs(low[k], SetFrequency(k, d), "low", k, l), asked[k] # Size - 1
        PROVE  Minus(r, l) = asked[k]
    <3>1. r = period[k] /\ l = low[k]
      BY <1>1, <2>2, EndsFrequency
    <3>2. HighTime(k) = asked[k]
      BY <2>1, <2>2, HighNow DEF Made
    <3> QED BY <3>1, <3>2 DEF HighTime
  <2> QED BY <2>1, <2>2, HighMade
<1>7. CASE DoAccess
  <2>1. UNCHANGED asked
    BY <1>7, DoAccessStep
  <2> QED BY <1>7, <2>1, EndsKept DEF HighInv
<1> QED BY <1>2, <1>3, <1>4, <1>5, <1>6, <1>7, Steps

LEMMA HighInit == HwInit => HighInv
<1> SUFFICES ASSUME HwInit, NEW q \in PwmPin, NEW r \in Word, NEW l \in Word,
                    EndsAs(period[q], writes, "period", q, r), EndsAs(low[q], writes, "low", q, l)
             PROVE  Minus(r, l) = asked[q]
  BY DEF HighInv
<1>1. writes = <<>> /\ period[q] = 0 /\ low[q] = 0 /\ asked[q] = 0
  BY DEF HwInit
<1>2. r = 0 /\ l = 0
  BY <1>1, EndsNow
<1> QED BY <1>1, <1>2 DEF Minus

LEMMA HighGives ==
  HwTypes /\ HighInv => HighTimeKept
BY HighNow DEF HighTimeKept

\* Every variable of HwPwm keeps its type, and the divider field fits.
THEOREM HwTypesInvariant ==
  HwSpec => []HwTypeOK
<1>1. HwInit => HwTypes
  BY HwTypesInit
<1>2. HwTypes /\ [HwNext]_hwVars => HwTypes'
  BY HwTypesStep
<1>3. HwTypes => HwTypeOK
  BY HwTypesGiveTypeOK
<1> QED BY <1>1, <1>2, <1>3, PTL DEF HwSpec

\* Between calls the high time of a channel of the hardware PWM is the one that
\* the program wrote last, whatever periods, clocks and functions either library
\* set since (wiringTB.c).
THEOREM HighTimeInvariant ==
  HwSpec => []HighTimeKept
<1>1. HwInit => HwTypes /\ HighInv
  BY HwTypesInit, HighInit
<1>2. HwTypes /\ HighInv /\ [HwNext]_hwVars => (HwTypes /\ HighInv)'
  BY HwTypesStep, HighStep
<1>3. HwTypes /\ HighInv => HighTimeKept
  BY HighGives
<1> QED BY <1>1, <1>2, <1>3, PTL DEF HwSpec

-----------------------------------------------------------------------------
(* The tones.                                                              *)

\* Period r, low time l and divider field h sound at frequency f.
Sounds(r, l, h, f) ==
  LET clock == Clock \div (IF h = 0 THEN 512 ELSE 2 * h)
  IN r * f <= clock /\ clock < (r + 1) * f /\ Minus(r, l) = r \div 2

\* Once the accesses that remain are made, each tone sounds.
ToneInv ==
  \A q \in PwmPin : tone[q] # 0 =>
    \A r, l \in Word : \A h \in 0..128 :
      /\ EndsAs(period[q], writes, "period", q, r) /\ EndsAs(low[q], writes, "low", q, l)
      /\ EndsAs(half[q], writes, "half", q, h)
      => Sounds(r, l, h, tone[q])

LEMMA ToneMade ==
  ASSUME ToneInv, NEW k, NEW acc, NEW v, NEW f, HwTypes, Made(k, acc, v, f),
         f # 0 =>
           \A r, l \in Word : \A h \in 0..128 :
             /\ EndsAs(period[k], acc, "period", k, r) /\ EndsAs(low[k], acc, "low", k, l)
             /\ EndsAs(half[k], acc, "half", k, h)
             => Sounds(r, l, h, f)
  PROVE  ToneInv'
<1> SUFFICES ASSUME NEW q \in PwmPin, tone'[q] # 0,
                    NEW r \in Word, NEW l \in Word, NEW h \in 0..128,
                    EndsAs(period'[q], writes', "period", q, r), EndsAs(low'[q], writes', "low", q, l),
                    EndsAs(half'[q], writes', "half", q, h)
             PROVE  Sounds(r, l, h, tone'[q])
  BY DEF ToneInv, Sounds
<1>1. /\ k \in PwmPin /\ writes = <<>> /\ OnlyOf(k, acc) /\ UNCHANGED <<period, low, half>>
      /\ writes' = acc /\ tone' = [tone EXCEPT ![k] = f]
  BY DEF Made
<1>2. tone'[q] = IF q = k THEN f ELSE tone[q]
  BY <1>1 DEF HwTypes, HistoryOK
<1>3. /\ EndsAs(period[q], acc, "period", q, r) /\ EndsAs(low[q], acc, "low", q, l)
      /\ EndsAs(half[q], acc, "half", q, h)
  BY <1>1
<1>4. CASE q = k
  BY <1>2, <1>3, <1>4
<1>5. CASE q # k
  <2>1. "period" \in Registers /\ "low" \in Registers /\ "half" \in Registers
    BY DEF Registers
  <2>2. r = period[q] /\ l = low[q] /\ h = half[q]
    BY <1>1, <1>3, <1>5, <2>1 DEF OnlyOf
  <2>3. /\ EndsAs(period[q], writes, "period", q, r) /\ EndsAs(low[q], writes, "low", q, l)
        /\ EndsAs(half[q], writes, "half", q, h)
    BY <1>1, <2>2, EndsNow
  <2>4. tone[q] # 0 /\ tone'[q] = tone[q]
    BY <1>2, <1>5
  <2>5. Sounds(r, l, h, tone[q])
    BY <2>3, <2>4 DEF ToneInv
  <2> QED BY <2>4, <2>5
<1> QED BY <1>4, <1>5

\* A step that makes a tone 0 or leaves it.
LEMMA ToneSilenced ==
  ASSUME ToneInv, UNCHANGED <<period, low, half, writes>>,
         \A q \in PwmPin : tone'[q] \in {0, tone[q]}
  PROVE  ToneInv'
<1> SUFFICES ASSUME NEW q \in PwmPin, tone'[q] # 0,
                    NEW r \in Word, NEW l \in Word, NEW h \in 0..128,
                    EndsAs(period'[q], writes', "period", q, r), EndsAs(low'[q], writes', "low", q, l),
                    EndsAs(half'[q], writes', "half", q, h)
             PROVE  Sounds(r, l, h, tone'[q])
  BY DEF ToneInv, Sounds
<1>1. tone'[q] = tone[q] /\ tone[q] # 0
  OBVIOUS
<1>2. /\ EndsAs(period[q], writes, "period", q, r) /\ EndsAs(low[q], writes, "low", q, l)
      /\ EndsAs(half[q], writes, "half", q, h)
  OBVIOUS
<1>3. Sounds(r, l, h, tone[q])
  BY <1>1, <1>2 DEF ToneInv
<1> QED BY <1>1, <1>3

\* The period and the high time that asus_pwmToneWrite sets.
LEMMA ToneSounds ==
  ASSUME NEW k, half[k] \in 0..128, NEW f \in Nat, f # 0,
         NEW l \in Word, l = Minus(TonePeriod(k, f), ToneHigh(k, f))
  PROVE  Sounds(TonePeriod(k, f), l, half[k], f)
<1>1. PICK d \in Nat : d > 0 /\ d = Divisor(k) /\ d = IF half[k] = 0 THEN 512 ELSE 2 * half[k]
  BY DivisorType DEF Divisor
<1>2. PICK c \in Nat : c = Clock \div d
  BY HwParameters, <1>1, Quotient
<1>3. PICK t \in Nat : t = c \div f /\ t * f <= c /\ c < (t + 1) * f
  BY Quotient
<1>4. t = TonePeriod(k, f)
  BY <1>1, <1>2, <1>3 DEF TonePeriod
<1>5. PICK h \in Word : h = t \div 2 /\ h = ToneHigh(k, f)
  BY <1>4, TonePeriodType DEF ToneHigh
<1>6. t \in Word
  BY <1>4, TonePeriodType
<1>7. Minus(t, l) = h
  BY <1>4, <1>5, <1>6, MinusInWord
<1> QED BY <1>1, <1>2, <1>3, <1>4, <1>5, <1>7 DEF Sounds

LEMMA ToneStep ==
  ASSUME Alone, HwTypes, RestInv, ToneInv, [HwNext]_hwVars
  PROVE  ToneInv' /\ RestInv'
<1>1. CASE HwTypes' /\ QuietStep /\ (Alone /\ RestInv => RestInv')
  BY <1>1, ToneSilenced DEF QuietStep
<1>2. CASE MakeWrite
  <2>1. PICK k \in PwmPin, v \in Word :
          Made(k, PwmWrite(k, period[k], v), v, 0) /\ Now({"write"})
    BY <1>2, MakeWriteStep
  <2>2. ToneInv'
    BY <2>1, ToneMade
  <2>3. tone' = [tone EXCEPT ![k] = 0]
    BY <2>1 DEF Made
  <2>4. \A q \in function : tone'[q] \in {0, tone[q]}
    BY <2>3 DEF HwTypes, PinsOK, HistoryOK
  <2> QED BY <2>1, <2>2, <2>4, RestShrinks
<1>3. CASE MakeTone
  <2>1. PICK k \in PwmPin, f \in Tones :
          Made(k, ToneWrite(k, f), ToneHigh(k, f), f) /\ Now({"tone"})
    BY <1>3, MakeToneStep
  <2>2. f \in Nat /\ period[k] \in Word /\ low[k] \in Word /\ half[k] \in 0..128
    BY WordsTyped, ListArguments
  <2>3. ASSUME f # 0, NEW r \in Word, NEW l \in Word, NEW h \in 0..128,
               EndsAs(period[k], ToneWrite(k, f), "period", k, r),
               EndsAs(low[k], ToneWrite(k, f), "low", k, l),
               EndsAs(half[k], ToneWrite(k, f), "half", k, h)
        PROVE  Sounds(r, l, h, f)
    <3>1. "period" \in Registers /\ "low" \in Registers /\ "half" \in Registers
      BY DEF Registers
    <3>2. r = TonePeriod(k, f)
      BY <3>1, <2>2, <2>3, EndsTone
    <3>3. l = Minus(TonePeriod(k, f), ToneHigh(k, f))
      BY <3>1, <2>2, <2>3, EndsTone
    <3>4. h = half[k]
      BY <3>1, <2>2, <2>3, EndsTone
    <3>5. Sounds(TonePeriod(k, f), l, half[k], f)
      BY <2>2, <2>3, <3>3, ToneSounds
    <3> QED BY <3>2, <3>4, <3>5
  <2>4. ToneInv'
    BY <2>1, <2>3, ToneMade
  <2>5. Head(rest).fn = "tone"
    BY <2>1, NowStep
  <2> QED BY <2>1, <2>4, <2>5, RestShrinks
<1>4. CASE MakePeriod
  <2>1. PICK k \in PwmPin, n \in Word :
          /\ Made(k, SetPeriod(k, n, HighTime(k)), asked[k],
                  IF Head(rest).fn = "range" THEN tone[k] ELSE 0)
          /\ Now({"period", "range"}) /\ k = Head(rest).pin /\ k \in function
    BY <1>4, MakePeriodStep
  <2>2. Head(rest).fn = "range" => tone[k] = 0
    BY <2>1, NowStep DEF RestInv
  <2>3. Made(k, SetPeriod(k, n, HighTime(k)), asked[k], 0)
    BY <2>1, <2>2
  <2>4. ToneInv'
    BY <2>3, ToneMade
  <2>5. tone' = [tone EXCEPT ![k] = 0]
    BY <2>3 DEF Made
  <2>6. \A q \in function : tone'[q] \in {0, tone[q]}
    BY <2>5 DEF HwTypes, PinsOK, HistoryOK
  <2> QED BY <2>1, <2>4, <2>6, RestShrinks
<1>5. CASE MakeFrequency
  <2>1. PICK k \in PwmPin, d \in Nat :
          /\ Made(k, SetFrequency(k, d), asked[k], IF Head(rest).fn = "clock" THEN tone[k] ELSE 0)
          /\ Now({"frequency", "clock"}) /\ k = Head(rest).pin /\ k \in function
    BY <1>5, MakeFrequencyStep
  <2>2. Head(rest).fn = "clock" => tone[k] = 0
    BY <2>1, NowStep DEF RestInv
  <2>3. Made(k, SetFrequency(k, d), asked[k], 0)
    BY <2>1, <2>2
  <2>4. ToneInv'
    BY <2>3, ToneMade
  <2>5. tone' = [tone EXCEPT ![k] = 0]
    BY <2>3 DEF Made
  <2>6. \A q \in function : tone'[q] \in {0, tone[q]}
    BY <2>5 DEF HwTypes, PinsOK, HistoryOK
  <2> QED BY <2>1, <2>4, <2>6, RestShrinks
<1>6. CASE DoAccess
  <2>1. UNCHANGED <<tone, rest, function>>
    BY <1>6, DoAccessStep
  <2>2. RestInv'
    BY <2>1 DEF RestInv
  <2>3. ToneInv'
    <3> SUFFICES ASSUME NEW q \in PwmPin, tone'[q] # 0,
                        NEW r \in Word, NEW l \in Word, NEW h \in 0..128,
                        EndsAs(period'[q], writes', "period", q, r),
                        EndsAs(low'[q], writes', "low", q, l),
                        EndsAs(half'[q], writes', "half", q, h)
                 PROVE  Sounds(r, l, h, tone'[q])
      BY DEF ToneInv, Sounds
    <3>1. /\ EndsAs(period[q], writes, "period", q, r) /\ EndsAs(low[q], writes, "low", q, l)
          /\ EndsAs(half[q], writes, "half", q, h)
      BY <1>6, EndsKept
    <3>2. tone'[q] = tone[q]
      BY <2>1
    <3>3. Sounds(r, l, h, tone[q])
      BY <3>1, <3>2 DEF ToneInv
    <3> QED BY <3>2, <3>3
  <2> QED BY <2>2, <2>3
<1> QED BY <1>1, <1>2, <1>3, <1>4, <1>5, <1>6, Steps

LEMMA ToneInit == HwInit => ToneInv /\ RestInv
<1> SUFFICES ASSUME HwInit PROVE ToneInv /\ RestInv
  OBVIOUS
<1>1. rest = <<>> /\ tone = [q \in PwmPin |-> 0]
  BY DEF HwInit
<1>2. Len(rest) = 0
  BY <1>1
<1> QED BY <1>1, <1>2 DEF ToneInv, RestInv

LEMMA ToneGives ==
  ASSUME HwTypes, ToneInv
  PROVE  ToneHeard
<1> SUFFICES ASSUME writes = <<>>, NEW q \in PwmPin, tone[q] # 0
             PROVE  LET clock == Clock \div Divisor(q)
                    IN /\ period[q] * tone[q] <= clock /\ clock < (period[q] + 1) * tone[q]
                       /\ HighTime(q) = period[q] \div 2
  BY DEF ToneHeard
<1>1. period[q] \in Word /\ low[q] \in Word /\ half[q] \in 0..128
  BY WordsTyped
<1>2. /\ EndsAs(period[q], writes, "period", q, period[q]) /\ EndsAs(low[q], writes, "low", q, low[q])
      /\ EndsAs(half[q], writes, "half", q, half[q])
  BY EndsNow
<1>3. Sounds(period[q], low[q], half[q], tone[q])
  BY <1>1, <1>2 DEF ToneInv
<1> QED BY <1>3 DEF Sounds, Divisor, HighTime

\* While no two channels are PWM outputs at once in a program of wiringPi, a tone
\* sounds at its frequency, up to the rounding of the period, with equal halves,
\* until the program changes its channel, the range or the clock
\* (asus_pwmToneWrite of wiringTB.c).
THEOREM ToneInvariant ==
  ASSUME Alone
  PROVE  HwSpec => []ToneHeard
<1>1. HwInit => HwTypes /\ ToneInv /\ RestInv
  BY HwTypesInit, ToneInit
<1>2. HwTypes /\ ToneInv /\ RestInv /\ [HwNext]_hwVars => (HwTypes /\ ToneInv /\ RestInv)'
  BY HwTypesStep, ToneStep
<1>3. HwTypes /\ ToneInv => ToneHeard
  BY ToneGives
<1> QED BY <1>1, <1>2, <1>3, PTL DEF HwSpec

=============================================================================
