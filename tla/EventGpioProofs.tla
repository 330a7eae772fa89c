-------------------------- MODULE EventGpioProofs --------------------------
(***************************************************************************)
(* Proofs about EventGpio, for every value of its constants and with the   *)
(* poll threads interleaved freely: the state is well typed, the registry  *)
(* agrees with the kernel's descriptors, no callback outlives the          *)
(* registration of its channel, and GPIO.cleanup() leaves nothing behind.  *)
(* The inductive invariant is RegistryInv.                                 *)
(*                                                                         *)
(* Whatever a program does, a freed record or NULL is used only after one  *)
(* of the two races that EventRaces records.                               *)
(*                                                                         *)
(* In a quiet program an armed channel has a poll thread, and edge         *)
(* detection implements EdgeService, for any finite number of poll         *)
(* threads.  That proof counts the reports of a channel that are in        *)
(* flight: the threads that hold one, and the one the kernel may have      *)
(* ready.                                                                  *)
(***************************************************************************)
EXTENDS EventRaces, SequenceTheorems, WellFoundedInduction, FiniteSetTheorems, TLAPS

-----------------------------------------------------------------------------
(* Choices and lists.                                                      *)

\* A nonempty set of naturals has a least element: the lowest free descriptor,
\* the next cell of the callback list.
LEMMA MinExists ==
  ASSUME NEW S \in SUBSET Nat, S # {}
  PROVE  \E m \in S : \A n \in S : m <= n
<1>1. \E m \in S : \A n \in S : ~(<<n, m>> \in OpToRel(<, Nat))
  BY NatLessThanWellFounded, WFMin
<1>2. PICK m \in S : \A n \in S : ~(<<n, m>> \in OpToRel(<, Nat))
  BY <1>1
<1>3. \A n \in S : ~(n < m)
  BY <1>2 DEF OpToRel
<1> QED BY <1>3

\* new_gpio opens the value file on a descriptor that was free.
LEMMA LowestFdIsFree == FreeFds # {} => LowestFd \in FreeFds
<1> SUFFICES ASSUME FreeFds # {} PROVE LowestFd \in FreeFds
  OBVIOUS
<1>1. FreeFds \in SUBSET Nat
  BY DEF FreeFds, Fd
<1>2. \E f \in FreeFds : \A h \in FreeFds : f <= h
  BY <1>1, MinExists
<1> QED BY <1>2 DEF LowestFd

\* The walk of the callback list stays on the list or ends.
LEMMA NextCellIsCell ==
  ASSUME NEW cbs, NEW k PROVE NextCell(cbs, k) \in Cell \cup {0}
<1> DEFINE later == {j \in Live(cbs) : j > k}
<1>1. later \in SUBSET Nat /\ later \subseteq Cell
  BY DEF Live, Cell
<1>2. CASE later = {}
  BY <1>2 DEF NextCell
<1>3. CASE later # {}
  <2>1. \E j \in later : \A i \in later : j <= i
    BY <1>1, <1>3, MinExists
  <2>2. NextCell(cbs, k) = CHOOSE j \in later : \A i \in later : j <= i
    BY <1>3 DEF NextCell
  <2> QED BY <1>1, <2>1, <2>2
<1> QED BY <1>2, <1>3

\* A record at the head of the list.
LEMMA Prepend ==
  ASSUME NEW S, NEW s \in Seq(S), NEW c \in S
  PROVE  /\ <<c>> \o s \in Seq(S)
         /\ ToSet(<<c>> \o s) = ToSet(s) \cup {c}
         /\ IsInjective(s) /\ c \notin ToSet(s) => IsInjective(<<c>> \o s)
<1> DEFINE z == <<c>> \o s
<1>1. <<c>> \in Seq(S) /\ Len(<<c>>) = 1 /\ <<c>>[1] = c
  OBVIOUS
<1>2. /\ z \in Seq(S) /\ Len(z) = Len(s) + 1
      /\ \A i \in 1..(Len(s) + 1) : z[i] = IF i = 1 THEN c ELSE s[i - 1]
  BY <1>1, ConcatProperties
<1>3. DOMAIN z = 1..(Len(s) + 1) /\ DOMAIN s = 1..Len(s) /\ Len(s) \in Nat
  BY <1>2, LenProperties
<1>4. ToSet(z) = ToSet(s) \cup {c}
  <2>1. \A i \in DOMAIN s : s[i] = z[i + 1] /\ i + 1 \in DOMAIN z
    BY <1>2, <1>3
  <2>2. z[1] = c /\ 1 \in DOMAIN z
    BY <1>2, <1>3
  <2>3. \A i \in DOMAIN z : z[i] = c \/ (i - 1 \in DOMAIN s /\ z[i] = s[i - 1])
    BY <1>2, <1>3
  <2> HIDE DEF z
  <2>4. ToSet(s) \cup {c} \subseteq ToSet(z)
    BY <2>1, <2>2 DEF ToSet
  <2>5. ToSet(z) \subseteq ToSet(s) \cup {c}
    BY <2>3 DEF ToSet
  <2> QED BY <2>4, <2>5
<1>5. ASSUME IsInjective(s), c \notin ToSet(s) PROVE IsInjective(z)
  <2> SUFFICES ASSUME NEW a \in DOMAIN z, NEW b \in DOMAIN z, z[a] = z[b]
               PROVE  a = b
    BY DEF IsInjective
  <2>1. CASE a = 1 /\ b # 1
    <3>1. b - 1 \in DOMAIN s /\ s[b - 1] = c
      BY <1>2, <1>3, <2>1
    <3> QED BY <3>1, <1>5 DEF ToSet
  <2>2. CASE b = 1 /\ a # 1
    <3>1. a - 1 \in DOMAIN s /\ s[a - 1] = c
      BY <1>2, <1>3, <2>2
    <3> QED BY <3>1, <1>5 DEF ToSet
  <2>3. CASE a # 1 /\ b # 1
    <3>1. a - 1 \in DOMAIN s /\ b - 1 \in DOMAIN s /\ s[a - 1] = s[b - 1]
      BY <1>2, <1>3, <2>3
    <3>2. a - 1 = b - 1
      BY <3>1, <1>5 DEF IsInjective
    <3> QED BY <3>2, <1>3
  <2> QED BY <2>1, <2>2, <2>3
<1> QED BY <1>2, <1>4, <1>5

\* A record taken out of the list, which holds every channel once.
LEMMA Unlink ==
  ASSUME NEW S, NEW s \in Seq(S), IsInjective(s), NEW i \in 1..Len(s)
  PROVE  /\ RemoveAt(s, i) \in Seq(S)
         /\ ToSet(RemoveAt(s, i)) = ToSet(s) \ {s[i]}
         /\ IsInjective(RemoveAt(s, i))
<1> DEFINE u == SubSeq(s, 1, i - 1)
           v == SubSeq(s, i + 1, Len(s))
           z == RemoveAt(s, i)
<1>1. Len(s) \in Nat /\ DOMAIN s = 1..Len(s) /\ \A n \in 1..Len(s) : s[n] \in S
  BY LenProperties, ElementOfSeq
<1>2. /\ u \in Seq(S) /\ Len(u) = i - 1
      /\ \A n \in 1..(i - 1) : u[n] = s[n]
  <2>1. i - 1 \in Int /\ \A n \in 1..(i - 1) : s[n] \in S
    BY <1>1
  <2>2. /\ SubSeq(s, 1, i - 1) \in Seq(S)
        /\ Len(SubSeq(s, 1, i - 1)) = IF 1 <= i - 1 THEN (i - 1) - 1 + 1 ELSE 0
        /\ \A n \in 1..((i - 1) - 1 + 1) : SubSeq(s, 1, i - 1)[n] = s[1 + n - 1]
    BY <2>1, SubSeqProperties
  <2> QED BY <1>1, <2>2
<1>3. /\ v \in Seq(S) /\ Len(v) = Len(s) - i
      /\ \A n \in 1..(Len(s) - i) : v[n] = s[n + i]
  <2>1. i + 1 \in Int /\ \A n \in (i + 1)..Len(s) : s[n] \in S
    BY <1>1
  <2>2. /\ SubSeq(s, i + 1, Len(s)) \in Seq(S)
        /\ Len(SubSeq(s, i + 1, Len(s))) = IF i + 1 <= Len(s) THEN Len(s) - (i + 1) + 1 ELSE 0
        /\ \A n \in 1..(Len(s) - (i + 1) + 1) : SubSeq(s, i + 1, Len(s))[n] = s[(i + 1) + n - 1]
    BY <1>1, <2>1, SubSeqProperties
  <2> QED BY <1>1, <2>2
<1>4. z = u \o v
  BY DEF RemoveAt
<1> HIDE DEF u, v, z
<1>5. /\ z \in Seq(S) /\ Len(z) = Len(s) - 1
      /\ \A n \in 1..(Len(s) - 1) : z[n] = IF n < i THEN s[n] ELSE s[n + 1]
  <2>1. /\ z \in Seq(S) /\ Len(z) = Len(u) + Len(v)
        /\ \A n \in 1..(Len(u) + Len(v)) : z[n] = IF n <= Len(u) THEN u[n] ELSE v[n - Len(u)]
    BY <1>2, <1>3, <1>4, ConcatProperties
  <2>2. Len(z) = Len(s) - 1 /\ Len(u) = i - 1 /\ Len(u) + Len(v) = Len(s) - 1
    BY <1>1, <1>2, <1>3, <2>1
  <2>3. ASSUME NEW n \in 1..(Len(s) - 1), n < i PROVE z[n] = s[n]
    <3>1. n \in 1..(i - 1) /\ n <= Len(u)
      BY <1>1, <2>2, <2>3
    <3> QED BY <3>1, <1>2, <2>1, <2>2
  <2>4. ASSUME NEW n \in 1..(Len(s) - 1), ~(n < i) PROVE z[n] = s[n + 1]
    <3>1. n - (i - 1) \in 1..(Len(s) - i) /\ ~(n <= Len(u))
      BY <1>1, <2>2, <2>4
    <3>2. z[n] = v[n - (i - 1)]
      BY <3>1, <2>1, <2>2
    <3>3. v[n - (i - 1)] = s[(n - (i - 1)) + i] /\ (n - (i - 1)) + i = n + 1
      BY <1>1, <1>3, <3>1
    <3> QED BY <3>2, <3>3
  <2> QED BY <2>1, <2>2, <2>3, <2>4
<1>6. DOMAIN z = 1..(Len(s) - 1)
  BY <1>5, LenProperties
<1>7. ToSet(z) = ToSet(s) \ {s[i]}
  <2>1. ASSUME NEW n \in DOMAIN z PROVE \E m \in DOMAIN s : m # i /\ z[n] = s[m]
    <3>1. CASE n < i
      BY <1>1, <1>5, <1>6, <3>1
    <3>2. CASE n >= i
      <4>1. n + 1 \in DOMAIN s /\ n + 1 # i /\ z[n] = s[n + 1]
        BY <1>1, <1>5, <1>6, <3>2
      <4> QED BY <4>1
    <3> QED BY <3>1, <3>2, <1>6
  <2>2. ASSUME NEW m \in DOMAIN s, m # i PROVE \E n \in DOMAIN z : z[n] = s[m]
    <3>1. CASE m < i
      BY <1>1, <1>5, <1>6, <3>1
    <3>2. CASE m > i
      <4>1. m - 1 \in DOMAIN z /\ z[m - 1] = s[m]
        BY <1>1, <1>5, <1>6, <3>2
      <4> QED BY <4>1
    <3> QED BY <3>1, <3>2, <2>2, <1>1
  <2>3. \A m \in DOMAIN s : s[m] = s[i] => m = i
    BY <1>1 DEF IsInjective
  <2> QED BY <2>1, <2>2, <2>3, <1>1 DEF ToSet
<1>8. IsInjective(z)
  <2> SUFFICES ASSUME NEW a \in DOMAIN z, NEW b \in DOMAIN z, z[a] = z[b]
               PROVE  a = b
    BY DEF IsInjective
  <2> DEFINE from(n) == IF n < i THEN n ELSE n + 1
  <2>1. /\ from(a) \in DOMAIN s /\ z[a] = s[from(a)]
        /\ from(b) \in DOMAIN s /\ z[b] = s[from(b)]
    BY <1>1, <1>5, <1>6
  <2>2. from(a) = from(b)
    BY <2>1 DEF IsInjective
  <2> QED BY <2>2, <1>1, <1>6
<1> QED BY <1>5, <1>7, <1>8 DEF z

LEMMA RegisteredAreChannels ==
  ASSUME gpioList \in Seq(Channel) PROVE Registered \subseteq Channel
BY ElementOfSeq, LenProperties DEF Registered, ToSet

\* Position finds a registered channel.
LEMMA PositionIsThere ==
  ASSUME gpioList \in Seq(Channel), NEW c \in Registered
  PROVE  Position(c) \in 1..Len(gpioList) /\ gpioList[Position(c)] = c
<1>1. \E n \in 1..Len(gpioList) : gpioList[n] = c
  BY LenProperties DEF Registered, ToSet
<1> QED BY <1>1 DEF Position

-----------------------------------------------------------------------------
(* The invariant holds initially.                                          *)

\* The part of the invariant that relates the registry to everything else.
ListInv == /\ RegistryMatchesKernel /\ NoOrphanCallback
           /\ RecordsFilled /\ HalfRemovedIsDisarmed /\ OperationOnRegistered

LEMMA InitRegistryInv == Init => RegistryInv
<1> SUFFICES ASSUME Init PROVE RegistryInv
  OBVIOUS
<1> USE Parameters
<1>1. gpioList \in Seq(Channel) /\ Registered = {} /\ IsInjective(gpioList)
  BY DEF Init, Registered, ToSet, IsInjective
<1>2. TypeOK
  BY <1>1 DEF Init, TypeOK, Record, NoRec, NoEpoll, NoOp, NoWait, Locals, PointsTo, Ep, Fd, Cell
<1>3. RegistryMatchesKernel /\ RecordsFilled
  BY <1>1 DEF Init, RegistryMatchesKernel, RecordsFilled
<1>4. NoOrphanCallback
  BY DEF Init, NoOrphanCallback, Live
<1>5. HalfRemovedIsDisarmed /\ OperationOnRegistered
  BY DEF Init, HalfRemovedIsDisarmed, OperationOnRegistered, HalfRemoved, NoOp
<1> QED BY <1>2, <1>3, <1>4, <1>5 DEF RegistryInv

-----------------------------------------------------------------------------
(* Steps that leave the registry alone.                                    *)

\* The lists, the value files and the operation stay, and so do the descriptor
\* of every record and its having an edge.
KeepsRegistry ==
  /\ UNCHANGED <<gpioList, callbacks, valueFile, op>>
  /\ \A c \in Channel : /\ rec'[c].fd = rec[c].fd
                        /\ rec[c].edge # "none" => rec'[c].edge # "none"

LEMMA KeepsListInv ==
  ASSUME RegistryInv, KeepsRegistry PROVE ListInv'
<1> USE DEF KeepsRegistry, RegistryInv
<1>0. Registered' = Registered /\ Registered \subseteq Channel
  BY RegisteredAreChannels DEF Registered, TypeOK
<1>1. \A c : HalfRemoved(c)' <=> HalfRemoved(c)
  BY DEF HalfRemoved
<1>2. RegistryMatchesKernel'
  BY <1>0, <1>1 DEF RegistryMatchesKernel, TypeOK
<1>3. NoOrphanCallback'
  BY <1>0 DEF NoOrphanCallback, Live
<1>4. RecordsFilled'
  BY <1>0, <1>1 DEF RecordsFilled
<1>5. HalfRemovedIsDisarmed'
  BY <1>0, <1>1 DEF HalfRemovedIsDisarmed
<1>6. OperationOnRegistered'
  BY <1>0 DEF OperationOnRegistered
<1> QED BY <1>2, <1>3, <1>4, <1>5, <1>6 DEF ListInv

-----------------------------------------------------------------------------
(* Steps that register a channel: add_edge_detect and wait_for_edge.        *)

\* While no operation is in progress, a channel without an edge is not listed.
LEMMA NoEdgeIsUnlisted ==
  ASSUME RegistryInv, Idle, NEW c \in Channel, EdgeAdded(c) = "none"
  PROVE  c \notin Registered
BY DEF RegistryInv, RecordsFilled, EdgeAdded, Idle, NoOp, HalfRemoved

\* What the operations that look a channel up, or register it, leave behind.
Registers(c) ==
  /\ gpioList' \in Seq(Channel) /\ IsInjective(gpioList')
  /\ Registered' = Registered \cup {c}
  /\ rec' \in [Channel -> Record]
  /\ rec'[c].fd \in Fd /\ rec'[c].edge \in Edges
  /\ c \in Registered => rec'[c].fd = rec[c].fd
  /\ \A d \in Channel \ {c} : rec'[d] = rec[d]
  /\ valueFile' \in [Fd -> Channel \cup {Null}]
  /\ valueFile'[rec'[c].fd] = c
  /\ \A f \in Fd : f # rec'[c].fd => valueFile'[f] = valueFile[f]
  /\ \A d \in Registered \ {c} : rec[d].fd # rec'[c].fd

LEMMA NewGpioRegisters ==
  ASSUME RegistryInv, Idle, NEW c \in Channel, NEW e \in Edges, NEW b \in BounceTimes,
         NEW added \in BOOLEAN, EdgeAdded(c) = "none", NewGpio(c, e, b, added)
  PROVE  Registers(c)
<1>1. c \notin Registered
  BY NoEdgeIsUnlisted
<1>2. LowestFd \in FreeFds /\ LowestFd \in Fd /\ valueFile[LowestFd] = Null
  BY LowestFdIsFree DEF NewGpio, FreeFds
<1>3. gpioList \in Seq(Channel) /\ IsInjective(gpioList)
  BY DEF RegistryInv, TypeOK, RegistryMatchesKernel
<1>4. /\ gpioList' \in Seq(Channel) /\ IsInjective(gpioList')
      /\ Registered' = Registered \cup {c}
  BY <1>1, <1>3, Prepend DEF NewGpio, Registered
<1>5. /\ rec' \in [Channel -> Record]
      /\ rec'[c].fd = LowestFd /\ rec'[c].edge = e
      /\ \A d \in Channel \ {c} : rec'[d] = rec[d]
  BY <1>2 DEF NewGpio, NewRecord, RegistryInv, TypeOK, Record
<1>6. /\ valueFile' \in [Fd -> Channel \cup {Null}]
      /\ valueFile'[LowestFd] = c
      /\ \A f \in Fd : f # LowestFd => valueFile'[f] = valueFile[f]
  BY <1>2 DEF NewGpio, RegistryInv, TypeOK
<1>7. \A d \in Registered \ {c} : rec[d].fd # LowestFd
  <2> SUFFICES ASSUME NEW d \in Registered \ {c}, rec[d].fd = LowestFd PROVE FALSE
    OBVIOUS
  <2>1. ~HalfRemoved(d)
    BY DEF Idle, NoOp, HalfRemoved
  <2>2. valueFile[rec[d].fd] = d
    BY <2>1 DEF RegistryInv, RegistryMatchesKernel
  <2>3. d \in Channel
    BY <1>3, RegisteredAreChannels
  <2> QED BY <1>2, <2>2, <2>3, Parameters
<1> QED BY <1>1, <1>2, <1>4, <1>5, <1>6, <1>7 DEF Registers

\* A record that exists already is kept, whatever else of it changes.
LEMMA KnownGpioRegisters ==
  ASSUME RegistryInv, Idle, NEW c \in Channel, EdgeAdded(c) # "none",
         UNCHANGED <<gpioList, valueFile>>,
         rec' \in [Channel -> Record],
         rec'[c].fd = rec[c].fd, rec'[c].edge \in Edges,
         \A d \in Channel \ {c} : rec'[d] = rec[d]
  PROVE  Registers(c)
<1>1. c \in Registered
  BY DEF EdgeAdded
<1>2. gpioList \in Seq(Channel) /\ IsInjective(gpioList) /\ Registered \subseteq Channel
  BY RegisteredAreChannels DEF RegistryInv, TypeOK, RegistryMatchesKernel
<1>3. Registered' = Registered \cup {c}
  BY <1>1 DEF Registered
<1>4. \A d \in Registered : rec[d].fd \in Fd /\ valueFile[rec[d].fd] = d
  BY DEF Idle, NoOp, HalfRemoved, RegistryInv, RegistryMatchesKernel, RecordsFilled
<1> QED BY <1>1, <1>2, <1>3, <1>4 DEF Registers, RegistryInv, TypeOK

LEMMA ObtainRegisters ==
  ASSUME RegistryInv, Idle, NEW c \in Channel, NEW e \in Edges, NEW b \in BounceTimes,
         NEW added \in BOOLEAN, Obtain(c, e, b, added)
  PROVE  Registers(c)
<1>1. CASE EdgeAdded(c) = "none"
  BY <1>1, NewGpioRegisters, Parameters DEF Obtain
<1>2. CASE EdgeAdded(c) # "none"
  <2>1. /\ EdgeAdded(c) = e /\ rec' = [rec EXCEPT ![c].threadAdded = added]
        /\ UNCHANGED <<gpioList, valueFile>>
    BY <1>2 DEF Obtain
  <2>2. rec[c].edge \in Edges
    BY <1>2, <2>1 DEF EdgeAdded
  <2>3. /\ rec' \in [Channel -> Record]
        /\ rec'[c].fd = rec[c].fd /\ rec'[c].edge = rec[c].edge
        /\ \A d \in Channel \ {c} : rec'[d] = rec[d]
    <3>1. rec \in [Channel -> Record]
      BY DEF RegistryInv, TypeOK
    <3> QED BY <2>1, <3>1 DEF Record
  <2> QED BY <1>2, <2>1, <2>2, <2>3, KnownGpioRegisters
<1> QED BY <1>1, <1>2

LEMMA WaitRecordRegisters ==
  ASSUME RegistryInv, Idle, NEW c \in Channel, NEW e \in Edges, NEW b \in BounceTimes,
         WaitRecord(c, e, b)
  PROVE  Registers(c)
<1>1. CASE EdgeAdded(c) = "none"
  BY <1>1, NewGpioRegisters, Parameters DEF WaitRecord
<1>2. CASE EdgeAdded(c) = e
  <2>1. UNCHANGED <<gpioList, rec, valueFile>> /\ EdgeAdded(c) # "none"
    BY <1>2, Parameters DEF WaitRecord
  <2>2. rec[c].edge \in Edges
    BY <1>2, <2>1 DEF EdgeAdded
  <2> QED BY <2>1, <2>2, KnownGpioRegisters DEF RegistryInv, TypeOK
<1>3. CASE EdgeAdded(c) \notin {"none", e}
  <2>1. /\ rec' = [rec EXCEPT ![c].edge = e, ![c].bouncetime = b]
        /\ UNCHANGED <<gpioList, valueFile>>
    BY <1>3 DEF WaitRecord
  <2>2. /\ rec' \in [Channel -> Record]
        /\ rec'[c].fd = rec[c].fd /\ rec'[c].edge = e
        /\ \A d \in Channel \ {c} : rec'[d] = rec[d]
    <3>1. rec \in [Channel -> Record]
      BY DEF RegistryInv, TypeOK
    <3> QED BY <2>1, <3>1 DEF Record
  <2> QED BY <1>3, <2>1, <2>2, KnownGpioRegisters
<1> QED BY <1>1, <1>2, <1>3

\* Registering a channel keeps the invariant, also when the arming then fails and
\* its removal begins.
LEMMA RegistersListInv ==
  ASSUME RegistryInv, Idle, NEW c \in Channel, Registers(c), UNCHANGED callbacks,
         op'.phase = "begin", op'.kind = "idle" \/ (op'.kind = "remove" /\ op'.cur = c)
  PROVE  ListInv'
<1>1. \A d : ~HalfRemoved(d) /\ ~HalfRemoved(d)'
  BY DEF Idle, NoOp, HalfRemoved
<1>2. Registered \subseteq Channel
  BY RegisteredAreChannels DEF RegistryInv, TypeOK
<1>3. RegistryMatchesKernel'
  <2>1. \A d \in Registered' : valueFile'[rec'[d].fd] = d
    BY <1>1, <1>2 DEF Registers, RegistryInv, RegistryMatchesKernel, RecordsFilled
  <2>2. \A f \in Fd : valueFile'[f] # Null =>
          valueFile'[f] \in Registered' /\ rec'[valueFile'[f]].fd = f
    <3> SUFFICES ASSUME NEW f \in Fd, valueFile'[f] # Null
                 PROVE  valueFile'[f] \in Registered' /\ rec'[valueFile'[f]].fd = f
      OBVIOUS
    <3>1. CASE f = rec'[c].fd
      BY <3>1 DEF Registers
    <3>2. CASE f # rec'[c].fd
      <4>1. valueFile[f] \in Registered /\ rec[valueFile[f]].fd = f /\ valueFile'[f] = valueFile[f]
        BY <3>2 DEF Registers, RegistryInv, RegistryMatchesKernel
      <4>2. CASE valueFile[f] = c
        BY <4>1, <4>2, <3>2 DEF Registers
      <4>3. CASE valueFile[f] # c
        BY <4>1, <4>3, <1>2 DEF Registers
      <4> QED BY <4>2, <4>3
    <3> QED BY <3>1, <3>2
  <2> QED BY <2>1, <2>2 DEF RegistryMatchesKernel, Registers
<1>4. NoOrphanCallback'
  BY DEF NoOrphanCallback, Live, Registers, RegistryInv
<1>5. RecordsFilled'
  BY <1>1, <1>2, Parameters DEF RecordsFilled, Registers, RegistryInv
<1>6. HalfRemovedIsDisarmed'
  BY <1>1 DEF HalfRemovedIsDisarmed
<1>7. OperationOnRegistered'
  BY DEF OperationOnRegistered, Registers, Idle, NoOp
<1> QED BY <1>3, <1>4, <1>5, <1>6, <1>7 DEF ListInv

-----------------------------------------------------------------------------
(* The other steps that change the registry, or begin or end an operation.  *)

\* An operation begins, or ends, on an unchanged registry.
LEMMA OperationListInv ==
  ASSUME RegistryInv, UNCHANGED <<gpioList, rec, callbacks, valueFile>>,
         op.phase = "begin", op'.phase = "begin", OperationOnRegistered'
  PROVE  ListInv'
<1>1. \A c : ~HalfRemoved(c) /\ ~HalfRemoved(c)'
  BY DEF HalfRemoved
<1>2. Registered' = Registered
  BY DEF Registered
<1> QED BY <1>1, <1>2 DEF ListInv, RegistryInv, RegistryMatchesKernel, NoOrphanCallback, Live,
                          RecordsFilled, HalfRemovedIsDisarmed

LEMMA CallbackListInv ==
  ASSUME RegistryInv, NEW a, NEW c \in Channel, AddEdgeCallback(a, c)
  PROVE  ListInv'
<1>1. c \in Registered
  BY DEF AddEdgeCallback, EdgeAdded
<1>2. /\ UNCHANGED <<gpioList, rec, valueFile, op>>
      /\ callbacks' \in [Cell -> Channel \cup {Null}]
      /\ \A k \in Cell : callbacks'[k] \in {callbacks[k], c}
  BY DEF AddEdgeCallback, RegistryInv, TypeOK, kernelVars
<1>3. \A d : ~HalfRemoved(d) /\ ~HalfRemoved(d)'
  BY DEF AddEdgeCallback, CanCall, Idle, NoOp, HalfRemoved
<1>4. Registered' = Registered
  BY <1>2 DEF Registered
<1> QED BY <1>1, <1>2, <1>3, <1>4
        DEF ListInv, RegistryInv, RegistryMatchesKernel, NoOrphanCallback, Live,
            RecordsFilled, HalfRemovedIsDisarmed, OperationOnRegistered

\* The first half of a removal closes the value file and frees the callbacks.
LEMMA DisarmListInv ==
  ASSUME RegistryInv, RemoveDisarm PROVE ListInv'
<1>1. PICK c \in Channel :
        /\ op.cur = c
        /\ callbacks' = RemoveCallbacks(c)
        /\ valueFile' = CloseValueFile(c)
        /\ rec' = [rec EXCEPT ![c].edge = "none"]
        /\ op' = [op EXCEPT !.phase = "end", !.temp = TempAfter(c)]
  BY DEF RemoveDisarm
<1>2. op.kind \in {"remove", "cleanup"} /\ op.phase = "begin" /\ UNCHANGED gpioList
  BY DEF RemoveDisarm
<1>3. gpioList \in Seq(Channel) /\ Registered \subseteq Channel /\ Registered' = Registered
  BY <1>2, RegisteredAreChannels DEF RegistryInv, TypeOK, Registered
<1>4. c \in Registered
  BY <1>1, <1>2, Parameters DEF RegistryInv, OperationOnRegistered
<1>5. /\ op'.kind = op.kind /\ op'.phase = "end" /\ op'.cur = c
      /\ op'.temp = TempAfter(c)
  <2>1. op \in [kind : {"idle", "remove", "cleanup"}, by : Thread \cup {Main, Null},
                target : Channel \cup {"all", Null}, cur : Channel \cup {Null, Dangling},
                temp : Channel \cup {Null, Dangling}, phase : {"begin", "end"}]
    BY DEF RegistryInv, TypeOK
  <2> QED BY <1>1, <2>1
<1>6. \A d : ~HalfRemoved(d) /\ (HalfRemoved(d)' <=> d = c)
  BY <1>2, <1>5 DEF HalfRemoved
<1>7. \A d \in Registered : valueFile[rec[d].fd] = d /\ rec[d].fd \in Fd
                             /\ rec[d].edge # "none"
  BY <1>6 DEF RegistryInv, RegistryMatchesKernel, RecordsFilled
<1>8. \A d \in Channel : rec'[d].fd = rec[d].fd /\ (d # c => rec'[d].edge = rec[d].edge)
  <2>1. rec \in [Channel -> Record]
    BY DEF RegistryInv, TypeOK
  <2> QED BY <1>1, <2>1 DEF Record
<1>9. /\ valueFile'[rec[c].fd] = Null
      /\ \A f \in Fd : f # rec[c].fd => valueFile'[f] = valueFile[f]
  BY <1>1, <1>4, <1>7 DEF CloseValueFile, RegistryInv, TypeOK
<1>10. RegistryMatchesKernel'
  <2>1. \A d \in Registered' : HalfRemoved(d)' \/ valueFile'[rec'[d].fd] = d
    BY <1>3, <1>4, <1>6, <1>7, <1>8, <1>9
  <2>2. \A f \in Fd : valueFile'[f] # Null =>
          valueFile'[f] \in Registered' /\ rec'[valueFile'[f]].fd = f
    BY <1>3, <1>8, <1>9 DEF RegistryInv, RegistryMatchesKernel
  <2> QED BY <1>2, <2>1, <2>2 DEF RegistryInv, RegistryMatchesKernel
<1>11. NoOrphanCallback' /\ \A k \in Cell : callbacks'[k] # c
  BY <1>1, <1>3, Parameters DEF RemoveCallbacks, RegistryInv, NoOrphanCallback, Live
<1>12. RecordsFilled'
  BY <1>3, <1>6, <1>7, <1>8 DEF RecordsFilled
<1>13. HalfRemovedIsDisarmed'
  BY <1>3, <1>4, <1>6, <1>8, <1>9, <1>11 DEF HalfRemovedIsDisarmed
<1>14. OperationOnRegistered'
  <2>1. NextRecord(c) \in Registered \cup {Null}
    <3>1. Position(c) \in 1..Len(gpioList) /\ Len(gpioList) \in Nat /\ DOMAIN gpioList = 1..Len(gpioList)
      BY <1>3, <1>4, PositionIsThere, LenProperties
    <3>2. ASSUME Position(c) < Len(gpioList)
          PROVE  gpioList[Position(c) + 1] \in Registered
      <4>1. Position(c) + 1 \in DOMAIN gpioList
        BY <3>1, <3>2
      <4> QED BY <4>1 DEF Registered, ToSet
    <3> QED BY <3>2 DEF NextRecord
  <2>2. op.kind = "cleanup" => TempAfter(c) \in Registered \cup {Null, Dangling}
    BY <2>1 DEF TempAfter, RegistryInv, OperationOnRegistered
  <2> QED BY <1>2, <1>3, <1>4, <1>5, <2>2 DEF OperationOnRegistered
<1> QED BY <1>10, <1>11, <1>12, <1>13, <1>14 DEF ListInv

\* The second half takes the record out of the list.
LEMMA FreeListInv ==
  ASSUME RegistryInv, RemoveFree PROVE ListInv'
<1>1. PICK c \in Channel :
        /\ op.cur = c
        /\ gpioList' = RemoveAt(gpioList, Position(c))
        /\ rec' = [rec EXCEPT ![c] = NoRec]
        /\ LET next == IF op.temp = c THEN Dangling ELSE op.temp
           IN op' = IF op.kind = "remove" THEN NoOp
                    ELSE [op EXCEPT !.phase = "begin", !.cur = next, !.temp = next]
  BY DEF RemoveFree
<1>2. op.phase = "end" /\ HalfRemoved(c) /\ UNCHANGED <<callbacks, valueFile>>
  BY <1>1 DEF RemoveFree, HalfRemoved, kernelVars
<1>3. /\ c \in Registered /\ valueFile[rec[c].fd] = Null
      /\ \A k \in Cell : callbacks[k] # c
  BY <1>2 DEF RegistryInv, HalfRemovedIsDisarmed
<1>4. gpioList \in Seq(Channel) /\ IsInjective(gpioList) /\ Registered \subseteq Channel
  BY RegisteredAreChannels DEF RegistryInv, TypeOK, RegistryMatchesKernel
<1>5. Registered' = Registered \ {c} /\ IsInjective(gpioList')
  BY <1>1, <1>3, <1>4, PositionIsThere, Unlink DEF Registered
<1>6. \A d \in Channel \ {c} : rec'[d] = rec[d]
  BY <1>1 DEF RegistryInv, TypeOK
<1>7. \A d \in Registered' : ~HalfRemoved(d)
  BY <1>1, <1>5 DEF HalfRemoved
<1>8. /\ op'.phase = "begin" /\ op'.kind \in {"idle", "cleanup"}
      /\ op'.kind = "cleanup" => /\ op.kind = "cleanup"
                                 /\ op'.cur \in {op.temp, Dangling} \ {c}
                                 /\ op'.temp = op'.cur
  <2>1. op \in [kind : {"idle", "remove", "cleanup"}, by : Thread \cup {Main, Null},
                target : Channel \cup {"all", Null}, cur : Channel \cup {Null, Dangling},
                temp : Channel \cup {Null, Dangling}, phase : {"begin", "end"}]
    BY DEF RegistryInv, TypeOK
  <2>2. op.kind \in {"remove", "cleanup"}
    BY <1>2, <2>1 DEF RegistryInv, OperationOnRegistered
  <2>3. CASE op.kind = "remove"
    BY <1>1, <2>3 DEF NoOp
  <2>4. CASE op.kind = "cleanup"
    BY <1>1, <2>1, <2>4, Parameters
  <2> QED BY <2>2, <2>3, <2>4
<1>9. \A d : ~HalfRemoved(d)'
  BY <1>8 DEF HalfRemoved
<1>10. RegistryMatchesKernel'
  <2>1. \A d \in Registered' : valueFile'[rec'[d].fd] = d
    BY <1>2, <1>4, <1>5, <1>6, <1>7 DEF RegistryInv, RegistryMatchesKernel
  <2>2. \A f \in Fd : valueFile'[f] # Null =>
          valueFile'[f] \in Registered' /\ rec'[valueFile'[f]].fd = f
    BY <1>2, <1>3, <1>4, <1>5, <1>6 DEF RegistryInv, RegistryMatchesKernel
  <2> QED BY <1>5, <2>1, <2>2 DEF RegistryMatchesKernel
<1>11. NoOrphanCallback'
  BY <1>2, <1>3, <1>5 DEF RegistryInv, NoOrphanCallback, Live
<1>12. RecordsFilled'
  BY <1>4, <1>5, <1>6, <1>7 DEF RegistryInv, RecordsFilled
<1>13. HalfRemovedIsDisarmed'
  BY <1>9 DEF HalfRemovedIsDisarmed
<1>14. OperationOnRegistered'
  BY <1>5, <1>8 DEF RegistryInv, OperationOnRegistered
<1> QED BY <1>10, <1>11, <1>12, <1>13, <1>14 DEF ListInv

-----------------------------------------------------------------------------
(* Type correctness, by the parts of the state a step may change.           *)

ThreadsOK == /\ pc \in [Thread -> Locals]
             /\ ptr \in [Thread -> Ep \cup Fd \cup Cell \cup Channel \cup {0, Dangling}]
             /\ \A t \in Thread : PointsTo(pc[t], ptr[t])
EpollOK == /\ epfdThread \in Ep \cup {0} /\ epfdBlocking \in Ep \cup {0}
           /\ epoll \in [Ep -> [open : BOOLEAN, fds : SUBSET Fd, ready : SUBSET Fd]]
ListsOK == /\ gpioList \in Seq(Channel) /\ rec \in [Channel -> Record]
           /\ callbacks \in [Cell -> Channel \cup {Null}]
           /\ valueFile \in [Fd -> Channel \cup {Null}]
OpOK == op \in [kind : {"idle", "remove", "cleanup"}, by : Thread \cup {Main, Null},
                target : Channel \cup {"all", Null}, cur : Channel \cup {Null, Dangling},
                temp : Channel \cup {Null, Dangling}, phase : {"begin", "end"}]
OthersOK == /\ eventOccurred \in [Channel -> BOOLEAN]
            /\ threadRunning \in BOOLEAN /\ fault \in BOOLEAN
            /\ arg \in [Thread -> Channel \cup {Null}]
            /\ wait \in [ch : Channel \cup {Null}, ep : Ep \cup {0}, initial : BOOLEAN]

LEMMA TypeParts == TypeOK <=> ThreadsOK /\ EpollOK /\ ListsOK /\ OpOK /\ OthersOK
BY DEF TypeOK, ThreadsOK, EpollOK, ListsOK, OpOK, OthersOK

LEMMA TypePartsNext ==
  TypeOK' <=> ThreadsOK' /\ EpollOK' /\ ListsOK' /\ OpOK' /\ OthersOK'
BY DEF TypeOK, ThreadsOK, EpollOK, ListsOK, OpOK, OthersOK

\* Each part is kept by a step that leaves its variables alone.
LEMMA PartsUnchanged ==
  ASSUME TypeOK
  PROVE  /\ UNCHANGED <<pc, ptr>> => ThreadsOK'
         /\ UNCHANGED <<epfdThread, epfdBlocking, epoll>> => EpollOK'
         /\ UNCHANGED <<gpioList, rec, callbacks, valueFile>> => ListsOK'
         /\ UNCHANGED op => OpOK'
         /\ UNCHANGED <<eventOccurred, threadRunning, fault, arg, wait>> => OthersOK'
BY TypeParts DEF ThreadsOK, EpollOK, ListsOK, OpOK, OthersOK

\* A poll thread that goes on stays well typed.
LEMMA GotoType ==
  ASSUME TypeOK, NEW t \in Thread, NEW l \in Locals, NEW p, PointsTo(l, p),
         p \in Ep \cup Fd \cup Cell \cup Channel \cup {0, Dangling}, Goto(t, l, p)
  PROVE  ThreadsOK'
<1>1. ThreadsOK
  BY TypeParts
<1>2. \A u \in Thread : /\ pc'[u] = IF u = t THEN l ELSE pc[u]
                        /\ ptr'[u] = IF u = t THEN p ELSE ptr[u]
  BY <1>1 DEF ThreadsOK, Goto
<1>3. \A u \in Thread : PointsTo(pc[u], ptr[u])' <=> PointsTo(pc'[u], ptr'[u])
  BY DEF PointsTo
<1>4. \A u \in Thread : PointsTo(pc'[u], ptr'[u])
  BY <1>1, <1>2 DEF ThreadsOK
<1> QED BY <1>1, <1>3, <1>4 DEF ThreadsOK, Goto

\* epoll instances stay well typed whatever is added to, reported by, removed from
\* or done to them.
LEMMA EpollTypes ==
  ASSUME TypeOK, NEW ep \in [Ep -> [open : BOOLEAN, fds : SUBSET Fd, ready : SUBSET Fd]],
         NEW e, NEW f, NEW es
  PROVE  /\ f \in Fd => Watched(ep, e, f) \in [Ep -> [open : BOOLEAN, fds : SUBSET Fd, ready : SUBSET Fd]]
         /\ Unwatched(ep, es, f) \in [Ep -> [open : BOOLEAN, fds : SUBSET Fd, ready : SUBSET Fd]]
         /\ Created(ep, e) \in [Ep -> [open : BOOLEAN, fds : SUBSET Fd, ready : SUBSET Fd]]
         /\ Closed(ep, e) \in [Ep -> [open : BOOLEAN, fds : SUBSET Fd, ready : SUBSET Fd]]
         /\ Reported(ep, e, f) \in [Ep -> [open : BOOLEAN, fds : SUBSET Fd, ready : SUBSET Fd]]
<1> DEFINE E == [open : BOOLEAN, fds : SUBSET Fd, ready : SUBSET Fd]
<1>1. ASSUME f \in Fd PROVE Watched(ep, e, f) \in [Ep -> E]
  BY <1>1 DEF Watched
<1>2. Unwatched(ep, es, f) \in [Ep -> E]
  BY DEF Unwatched
<1>3. Created(ep, e) \in [Ep -> E]
  BY DEF Created, NoEpoll
<1>4. Closed(ep, e) \in [Ep -> E]
  BY DEF Closed
<1>5. Reported(ep, e, f) \in [Ep -> E]
  BY DEF Reported
<1> QED BY <1>1, <1>2, <1>3, <1>4, <1>5

-----------------------------------------------------------------------------
(* The poll threads.                                                       *)

LEMMA PollListInv ==
  ASSUME RegistryInv, NEW t \in Thread, PollStep(t) PROVE ListInv'
<1>1. UNCHANGED <<gpioList, callbacks, valueFile, op>>
  BY DEF PollStep, PollStart, PollTest, PollWait, PollReport, PollRead, PollLookup, PollUseFreed,
         PollFirst, PollFirstDone, PollBounce, PollDeliver, PollWalk, PollReturn, PollExit,
         OthersUnchanged
<1>2. \/ UNCHANGED rec
      \/ rec' = [rec EXCEPT ![ptr[t]].initialThread = FALSE]
      \/ rec' = [rec EXCEPT ![ptr[t]].called = TRUE]
  BY DEF PollStep, PollStart, PollTest, PollWait, PollReport, PollRead, PollLookup, PollUseFreed,
         PollFirst, PollFirstDone, PollBounce, PollDeliver, PollWalk, PollReturn, PollExit
<1>3. rec \in [Channel -> Record]
  BY DEF RegistryInv, TypeOK
<1>4. \A c \in Channel : rec'[c].fd = rec[c].fd /\ rec'[c].edge = rec[c].edge
  BY <1>2, <1>3 DEF Record
<1> QED BY <1>1, <1>4, KeepsListInv DEF KeepsRegistry

LEMMA PollTypeOK ==
  ASSUME RegistryInv, NEW t \in Thread, PollStep(t) PROVE TypeOK'
<1> DEFINE Others == UNCHANGED <<epfdThread, epfdBlocking, gpioList, callbacks, valueFile, op, wait>>
<1>1. TypeOK /\ ThreadsOK /\ EpollOK /\ ListsOK /\ OpOK /\ OthersOK
  BY TypeParts DEF RegistryInv
<1>2. /\ Registered \subseteq Channel
      /\ pc[t] \in Locals /\ PointsTo(pc[t], ptr[t])
  BY <1>1, RegisteredAreChannels DEF ListsOK, ThreadsOK
<1>3. OpOK'
  <2>1. UNCHANGED op
    BY DEF PollStep, PollStart, PollTest, PollWait, PollReport, PollRead, PollLookup,
           PollUseFreed, PollFirst, PollFirstDone, PollBounce, PollDeliver, PollWalk,
           PollReturn, PollExit, OthersUnchanged
  <2> QED BY <1>1, <2>1, PartsUnchanged
<1>4. CASE PollStart(t)
  <2>1. Goto(t, "test", 0) /\ "test" \in Locals /\ PointsTo("test", 0)
    BY <1>4 DEF PollStart, PointsTo, Locals
  <2>2. /\ UNCHANGED <<rec, eventOccurred, epoll, arg, fault>> /\ Others
        /\ threadRunning' = TRUE
    BY <1>4 DEF PollStart, OthersUnchanged
  <2> QED BY <1>1, <1>3, <2>1, <2>2, GotoType, PartsUnchanged, TypePartsNext DEF OthersOK
<1>5. CASE PollTest(t)
  <2>1. \E l \in {"wait", "exit"} : Goto(t, l, 0) /\ l \in Locals /\ PointsTo(l, 0)
    BY <1>5 DEF PollTest, PointsTo, Locals
  <2>2. UNCHANGED <<rec, eventOccurred, threadRunning, epoll, arg, fault>> /\ Others
    BY <1>5 DEF PollTest, OthersUnchanged
  <2> QED BY <1>1, <1>3, <2>1, <2>2, GotoType, PartsUnchanged, TypePartsNext
<1>6. CASE PollWait(t)
  <2>1. \/ Goto(t, "exit", 0) /\ "exit" \in Locals /\ PointsTo("exit", 0)
        \/ /\ Goto(t, "blocked", epfdThread) /\ "blocked" \in Locals
           /\ PointsTo("blocked", epfdThread) /\ epfdThread \in Ep
    BY <1>1, <1>6 DEF PollWait, PointsTo, Locals, EpollOK
  <2>2. UNCHANGED <<rec, eventOccurred, threadRunning, epoll, arg, fault>> /\ Others
    BY <1>6 DEF PollWait, OthersUnchanged
  <2> QED BY <1>1, <1>3, <2>1, <2>2, GotoType, PartsUnchanged, TypePartsNext
<1>7. CASE PollReport(t)
  <2>1. ptr[t] \in Ep
    BY <1>2, <1>7 DEF PollReport, PointsTo
  <2>2. PICK f \in epoll[ptr[t]].ready : epoll' = Reported(epoll, ptr[t], f) /\ Goto(t, "read", f)
    BY <1>7 DEF PollReport
  <2>3. f \in Fd /\ "read" \in Locals /\ PointsTo("read", f)
    BY <1>1, <2>1, <2>2 DEF EpollOK, PointsTo, Locals
  <2>4. UNCHANGED <<rec, eventOccurred, threadRunning, arg, fault>> /\ Others
    BY <1>7 DEF PollReport, OthersUnchanged
  <2>5. EpollOK'
    BY <1>1, <2>2, <2>4, EpollTypes DEF EpollOK
  <2> QED BY <1>1, <1>3, <2>2, <2>3, <2>4, <2>5, GotoType, PartsUnchanged, TypePartsNext
<1>8. CASE PollRead(t)
  <2>1. \/ Goto(t, "exit", 0) /\ "exit" \in Locals /\ PointsTo("exit", 0)
        \/ /\ Goto(t, "lookup", ptr[t]) /\ "lookup" \in Locals
           /\ PointsTo("lookup", ptr[t]) /\ ptr[t] \in Fd
    BY <1>2, <1>8 DEF PollRead, PointsTo, Locals
  <2>2. UNCHANGED <<rec, eventOccurred, threadRunning, epoll, arg, fault>> /\ Others
    BY <1>8 DEF PollRead, OthersUnchanged
  <2> QED BY <1>1, <1>3, <2>1, <2>2, GotoType, PartsUnchanged, TypePartsNext
<1>9. CASE PollLookup(t)
  <2>1. \/ fault' = TRUE /\ UNCHANGED <<pc, ptr>>
        \/ \E c \in Channel : /\ Goto(t, "use", c) /\ UNCHANGED fault
                              /\ "use" \in Locals /\ PointsTo("use", c)
    BY <1>2, <1>9 DEF PollLookup, Crash, PointsTo, Locals
  <2>2. UNCHANGED <<rec, eventOccurred, threadRunning, epoll, arg>> /\ Others
    BY <1>9 DEF PollLookup, OthersUnchanged
  <2>3. ThreadsOK' /\ fault' \in BOOLEAN
    BY <1>1, <2>1, GotoType, PartsUnchanged DEF OthersOK
  <2> QED BY <1>1, <1>3, <2>2, <2>3, PartsUnchanged, TypePartsNext DEF OthersOK
<1>10. CASE PollUseFreed(t)
  <2>1. /\ UNCHANGED <<pc, ptr, rec, eventOccurred, threadRunning, epoll, arg>> /\ Others
        /\ fault' = TRUE
    BY <1>10 DEF PollUseFreed, Crash, OthersUnchanged
  <2> QED BY <1>1, <1>3, <2>1, PartsUnchanged, TypePartsNext DEF OthersOK
<1>11. CASE PollFirst(t)
  <2>1. /\ Goto(t, "first", ptr[t]) /\ "first" \in Locals
        /\ PointsTo("first", ptr[t]) /\ ptr[t] \in Channel
    BY <1>2, <1>11 DEF PollFirst, PointsTo, Locals
  <2>2. UNCHANGED <<rec, eventOccurred, threadRunning, epoll, arg, fault>> /\ Others
    BY <1>11 DEF PollFirst, OthersUnchanged
  <2> QED BY <1>1, <1>3, <2>1, <2>2, GotoType, PartsUnchanged, TypePartsNext
<1>12. CASE PollFirstDone(t)
  <2>1. \/ fault' = TRUE /\ UNCHANGED <<pc, ptr, rec>>
        \/ /\ rec' = [rec EXCEPT ![ptr[t]].initialThread = FALSE] /\ UNCHANGED fault
           /\ Goto(t, "test", 0) /\ "test" \in Locals /\ PointsTo("test", 0)
    BY <1>12 DEF PollFirstDone, Crash, PointsTo, Locals
  <2>2. UNCHANGED <<eventOccurred, threadRunning, epoll, arg>> /\ Others
    BY <1>12 DEF PollFirstDone, OthersUnchanged
  <2>3. ThreadsOK' /\ fault' \in BOOLEAN
    BY <1>1, <2>1, GotoType, PartsUnchanged DEF OthersOK
  <2>4. ListsOK'
    <3>1. rec \in [Channel -> Record]
      BY <1>1 DEF ListsOK
    <3>2. \/ UNCHANGED rec
          \/ rec' = [rec EXCEPT ![ptr[t]].initialThread = FALSE]
      BY <2>1
    <3>3. rec' \in [Channel -> Record]
      BY <3>1, <3>2 DEF Record
    <3> QED BY <1>1, <2>2, <3>3 DEF ListsOK
  <2> QED BY <1>1, <1>3, <2>2, <2>3, <2>4, PartsUnchanged, TypePartsNext DEF OthersOK
<1>13. CASE PollBounce(t)
  <2>1. Goto(t, "test", 0) /\ "test" \in Locals /\ PointsTo("test", 0)
    BY <1>13 DEF PollBounce, PointsTo, Locals
  <2>2. UNCHANGED <<rec, eventOccurred, threadRunning, epoll, arg, fault>> /\ Others
    BY <1>13 DEF PollBounce, OthersUnchanged
  <2> QED BY <1>1, <1>3, <2>1, <2>2, GotoType, PartsUnchanged, TypePartsNext
<1>14. CASE PollDeliver(t)
  <2>1. ptr[t] \in Channel
    BY <1>2, <1>14 DEF PollDeliver, PointsTo
  <2>2. /\ Goto(t, "walk", NextCell(callbacks, 0)) /\ "walk" \in Locals
        /\ PointsTo("walk", NextCell(callbacks, 0)) /\ NextCell(callbacks, 0) \in Cell \cup {0}
    BY <1>14, NextCellIsCell DEF PollDeliver, PointsTo, Locals
  <2>3. /\ rec' = [rec EXCEPT ![ptr[t]].called = TRUE]
        /\ eventOccurred' = [eventOccurred EXCEPT ![ptr[t]] = TRUE]
        /\ arg' = [arg EXCEPT ![t] = ptr[t]]
        /\ UNCHANGED <<threadRunning, epoll, fault>> /\ Others
    BY <1>14 DEF PollDeliver, OthersUnchanged
  <2>4. ListsOK'
    <3>1. rec' \in [Channel -> Record]
      BY <1>1, <2>3 DEF ListsOK, Record
    <3> QED BY <1>1, <2>3, <3>1 DEF ListsOK
  <2>5. OthersOK'
    BY <1>1, <2>1, <2>3 DEF OthersOK
  <2>6. ThreadsOK'
    BY <1>1, <2>2, GotoType
  <2> QED BY <1>1, <1>3, <2>3, <2>4, <2>5, <2>6, PartsUnchanged, TypePartsNext
<1>15. CASE PollWalk(t)
  <2>1. \/ /\ Goto(t, "test", 0) /\ arg' = [arg EXCEPT ![t] = Null] /\ UNCHANGED fault
           /\ "test" \in Locals /\ PointsTo("test", 0)
        \/ fault' = TRUE /\ UNCHANGED <<pc, ptr, arg>>
        \/ \E l \in {"walk", "call"}, k \in Cell \cup {0} :
             /\ Goto(t, l, k) /\ UNCHANGED <<arg, fault>>
             /\ l \in Locals /\ PointsTo(l, k)
    <3>1. CASE ptr[t] = 0 /\ Goto(t, "test", 0) /\ arg' = [arg EXCEPT ![t] = Null] /\ UNCHANGED fault
      BY <3>1 DEF PointsTo, Locals
    <3>2. CASE Crash(t) /\ UNCHANGED arg
      BY <3>2 DEF Crash
    <3>3. CASE ptr[t] \in Cell /\ Goto(t, "call", ptr[t]) /\ UNCHANGED <<arg, fault>>
      <4>1. PointsTo("call", ptr[t]) /\ "call" \in Locals
        BY <3>3 DEF PointsTo, Locals
      <4> QED BY <3>3, <4>1
    <3>4. CASE Goto(t, "walk", NextCell(callbacks, ptr[t])) /\ UNCHANGED <<arg, fault>>
      <4>1. NextCell(callbacks, ptr[t]) \in Cell \cup {0}
        BY NextCellIsCell
      <4>2. PointsTo("walk", NextCell(callbacks, ptr[t])) /\ "walk" \in Locals
        BY <4>1 DEF PointsTo, Locals
      <4> QED BY <3>4, <4>1, <4>2
    <3> QED BY <1>15, <3>1, <3>2, <3>3, <3>4 DEF PollWalk
  <2>2. UNCHANGED <<rec, eventOccurred, threadRunning, epoll>> /\ Others
    BY <1>15 DEF PollWalk, OthersUnchanged
  <2>3. ThreadsOK'
    BY <1>1, <2>1, GotoType, PartsUnchanged
  <2>4. fault' \in BOOLEAN /\ arg' \in [Thread -> Channel \cup {Null}]
    BY <1>1, <2>1 DEF OthersOK
  <2> QED BY <1>1, <1>3, <2>2, <2>3, <2>4, PartsUnchanged, TypePartsNext DEF OthersOK
<1>16. CASE PollReturn(t)
  <2>1. \/ fault' = TRUE /\ UNCHANGED <<pc, ptr>>
        \/ \E k \in Cell \cup {0} : /\ Goto(t, "walk", k) /\ UNCHANGED fault
                                    /\ "walk" \in Locals /\ PointsTo("walk", k)
    BY <1>16, NextCellIsCell DEF PollReturn, Crash, PointsTo, Locals
  <2>2. UNCHANGED <<rec, eventOccurred, threadRunning, epoll, arg>> /\ Others
    BY <1>16 DEF PollReturn, OthersUnchanged
  <2>3. ThreadsOK' /\ fault' \in BOOLEAN
    BY <1>1, <2>1, GotoType, PartsUnchanged DEF OthersOK
  <2> QED BY <1>1, <1>3, <2>2, <2>3, PartsUnchanged, TypePartsNext DEF OthersOK
<1>17. CASE PollExit(t)
  <2>1. Goto(t, "none", 0) /\ "none" \in Locals /\ PointsTo("none", 0)
    BY <1>17 DEF PollExit, PointsTo, Locals
  <2>2. /\ UNCHANGED <<rec, eventOccurred, epoll, arg, fault>> /\ Others
        /\ threadRunning' = FALSE
    BY <1>17 DEF PollExit, OthersUnchanged
  <2> QED BY <1>1, <1>3, <2>1, <2>2, GotoType, PartsUnchanged, TypePartsNext DEF OthersOK
<1> QED
  BY <1>4, <1>5, <1>6, <1>7, <1>8, <1>9, <1>10, <1>11, <1>12, <1>13, <1>14, <1>15, <1>16, <1>17
     DEF PollStep

-----------------------------------------------------------------------------
(* The library calls.                                                      *)

\* What registering leaves is well typed.
LEMMA RegistersTypes ==
  ASSUME TypeOK, NEW c, Registers(c), UNCHANGED callbacks
  PROVE  ListsOK'
BY TypeParts DEF Registers, ListsOK

LEMMA AddEdgeDetectInv ==
  ASSUME RegistryInv, NEW a, NEW c \in Channel, NEW e \in Edges, NEW b \in BounceTimes,
         AddEdgeDetect(a, c, e, b)
  PROVE  RegistryInv'
<1>1. TypeOK /\ ThreadsOK /\ EpollOK /\ Idle
  BY TypeParts DEF RegistryInv, AddEdgeDetect, CanCall
<1>2. Registers(c)
  BY <1>1, ObtainRegisters DEF AddEdgeDetect
<1>3. UNCHANGED <<callbacks, eventOccurred, threadRunning, epfdBlocking, ptr, arg, op, wait, fault>>
  BY DEF AddEdgeDetect
<1>4. ListInv'
  BY <1>1, <1>2, <1>3, RegistersListInv DEF Idle, NoOp
<1>5. EpollOK'
  <2>1. PICK ep \in EpollFor(epfdThread) :
          /\ epfdThread' = ep
          /\ epoll' = Watched(Created(epoll, ep), ep, rec'[c].fd)
    BY DEF AddEdgeDetect
  <2>2. ep \in Ep
    BY <1>1, <2>1 DEF EpollFor, FreeEps, EpollOK
  <2>3. rec'[c].fd \in Fd
    BY <1>2 DEF Registers
  <2>4. epoll' \in [Ep -> [open : BOOLEAN, fds : SUBSET Fd, ready : SUBSET Fd]]
    BY <1>1, <2>1, <2>3, EpollTypes DEF EpollOK
  <2> QED BY <1>1, <1>3, <2>1, <2>2, <2>4 DEF EpollOK
<1>6. ThreadsOK'
  <2>1. CASE UNCHANGED pc
    BY <1>1, <1>3, <2>1, PartsUnchanged
  <2>2. CASE \E t \in Thread : pc[t] = "none" /\ pc' = [pc EXCEPT ![t] = "start"]
    <3>1. PICK t \in Thread : pc[t] = "none" /\ pc' = [pc EXCEPT ![t] = "start"]
      BY <2>2
    <3>2. ptr[t] = 0 /\ PointsTo("start", 0) /\ "start" \in Locals
      BY <1>1, <3>1 DEF ThreadsOK, PointsTo, Locals
    <3>3. Goto(t, "start", 0)
      BY <1>1, <1>3, <3>1, <3>2 DEF Goto, ThreadsOK
    <3> QED BY <1>1, <3>2, <3>3, GotoType
  <2> QED BY <2>1, <2>2 DEF AddEdgeDetect, StartPoller
<1>7. ListsOK' /\ OpOK' /\ OthersOK'
  BY <1>1, <1>2, <1>3, RegistersTypes, PartsUnchanged
<1> QED BY <1>4, <1>5, <1>6, <1>7, TypePartsNext DEF ListInv, RegistryInv

LEMMA AddNoEpollInv ==
  ASSUME RegistryInv, NEW a, NEW c \in Channel, NEW e \in Edges, NEW b \in BounceTimes,
         AddNoEpoll(a, c, e, b)
  PROVE  RegistryInv'
<1>1. TypeOK /\ Idle
  BY DEF RegistryInv, AddNoEpoll, CanCall
<1>2. Registers(c)
  BY <1>1, ObtainRegisters DEF AddNoEpoll
<1>3. /\ UNCHANGED <<callbacks, eventOccurred, threadRunning, epfdThread, epfdBlocking, epoll>>
      /\ UNCHANGED <<pc, ptr, arg, op, wait, fault>>
  BY DEF AddNoEpoll, threadVars
<1>4. ListInv'
  BY <1>1, <1>2, <1>3, RegistersListInv DEF Idle, NoOp
<1> QED BY <1>1, <1>2, <1>3, <1>4, RegistersTypes, PartsUnchanged, TypePartsNext
        DEF ListInv, RegistryInv

LEMMA AddFailsInv ==
  ASSUME RegistryInv, NEW a \in Thread \cup {Main}, NEW c \in Channel, NEW e \in Edges,
         NEW b \in BounceTimes, NEW added \in BOOLEAN, AddFails(a, c, e, b, added)
  PROVE  RegistryInv'
<1>1. TypeOK /\ EpollOK /\ Idle
  BY TypeParts DEF RegistryInv, AddFails, CanCall
<1>2. Registers(c)
  BY <1>1, ObtainRegisters DEF AddFails
<1>3. /\ UNCHANGED <<callbacks, eventOccurred, threadRunning, epfdBlocking>>
      /\ UNCHANGED <<pc, ptr, arg, wait, fault>>
  BY DEF AddFails, threadVars
<1>4. op' = [NoOp EXCEPT !.kind = "remove", !.by = a, !.cur = c]
  BY DEF AddFails
<1>5. ListInv'
  <2>1. op'.phase = "begin" /\ op'.kind = "remove" /\ op'.cur = c
    BY <1>4 DEF NoOp
  <2> QED BY <1>1, <1>2, <1>3, <2>1, RegistersListInv
<1>6. EpollOK'
  <2>1. PICK ep \in EpollFor(epfdThread) :
          /\ epfdThread' = ep
          /\ epoll' = IF added THEN Watched(Created(epoll, ep), ep, rec'[c].fd)
                               ELSE Created(epoll, ep)
    BY DEF AddFails
  <2>2. ep \in Ep
    BY <1>1, <2>1 DEF EpollFor, FreeEps, EpollOK
  <2>3. rec'[c].fd \in Fd
    BY <1>2 DEF Registers
  <2>4. epoll' \in [Ep -> [open : BOOLEAN, fds : SUBSET Fd, ready : SUBSET Fd]]
    BY <1>1, <2>1, <2>3, EpollTypes DEF EpollOK
  <2> QED BY <1>1, <1>3, <2>1, <2>2, <2>4 DEF EpollOK
<1>7. OpOK'
  BY <1>4 DEF NoOp, OpOK
<1> QED BY <1>1, <1>2, <1>3, <1>5, <1>6, <1>7, RegistersTypes, PartsUnchanged, TypePartsNext
        DEF ListInv, RegistryInv

LEMMA AddEdgeCallbackInv ==
  ASSUME RegistryInv, NEW a, NEW c \in Channel, AddEdgeCallback(a, c)
  PROVE  RegistryInv'
<1>1. TypeOK /\ ListsOK
  BY TypeParts DEF RegistryInv
<1>2. /\ UNCHANGED <<gpioList, rec, eventOccurred, threadRunning, epfdThread, epfdBlocking>>
      /\ UNCHANGED <<valueFile, epoll, pc, ptr, arg, op, wait, fault>>
  BY DEF AddEdgeCallback, kernelVars, threadVars
<1>3. ListsOK'
  BY <1>1, <1>2 DEF AddEdgeCallback, ListsOK
<1>4. ListInv'
  BY CallbackListInv
<1> QED BY <1>1, <1>2, <1>3, <1>4, PartsUnchanged, TypePartsNext DEF ListInv, RegistryInv

LEMMA RemoveEdgeDetectInv ==
  ASSUME RegistryInv, NEW a \in Thread \cup {Main}, NEW c \in Channel, RemoveEdgeDetect(a, c)
  PROVE  RegistryInv'
<1>1. TypeOK /\ op.phase = "begin" /\ c \in Registered
  BY DEF RegistryInv, RemoveEdgeDetect, CanCall, Idle, NoOp
<1>2. /\ UNCHANGED <<gpioList, rec, callbacks, eventOccurred, threadRunning, epfdThread, epfdBlocking>>
      /\ UNCHANGED <<valueFile, epoll, pc, ptr, arg, wait, fault>>
  BY DEF RemoveEdgeDetect, listVars, kernelVars, threadVars
<1>3. op' = [NoOp EXCEPT !.kind = "remove", !.by = a, !.cur = c]
  BY DEF RemoveEdgeDetect
<1>4. OpOK' /\ op'.phase = "begin" /\ op'.kind = "remove" /\ op'.cur = c
  BY <1>3 DEF NoOp, OpOK
<1>5. OperationOnRegistered'
  BY <1>1, <1>2, <1>4 DEF OperationOnRegistered, Registered
<1> QED BY <1>1, <1>2, <1>4, <1>5, OperationListInv, PartsUnchanged, TypePartsNext
        DEF ListInv, RegistryInv

LEMMA CleanupInv ==
  ASSUME RegistryInv, NEW a \in Thread \cup {Main}, NEW target \in Channel \cup {"all"},
         Cleanup(a, target)
  PROVE  RegistryInv'
<1>1. TypeOK /\ ListsOK /\ op.phase = "begin"
  BY TypeParts DEF RegistryInv, Cleanup, CanCall, Idle, NoOp
<1>2. /\ UNCHANGED <<gpioList, rec, callbacks, eventOccurred, threadRunning, epfdThread, epfdBlocking>>
      /\ UNCHANGED <<valueFile, epoll, pc, ptr, arg, wait, fault>>
  BY DEF Cleanup, listVars, kernelVars, threadVars
<1> DEFINE first == IF gpioList = <<>> THEN Null ELSE Head(gpioList)
<1>3. op' = [NoOp EXCEPT !.kind = "cleanup", !.by = a, !.target = target, !.cur = first]
  BY DEF Cleanup
<1>4. first \in Registered \cup {Null} /\ Registered \subseteq Channel
  <2>1. gpioList # <<>> => 1 \in DOMAIN gpioList /\ Head(gpioList) = gpioList[1]
    BY <1>1, LenProperties, EmptySeq DEF ListsOK
  <2> QED BY <1>1, <2>1, RegisteredAreChannels DEF ListsOK, Registered, ToSet
<1> HIDE DEF first
<1>5. OpOK' /\ op'.phase = "begin" /\ op'.kind = "cleanup" /\ op'.cur = first /\ op'.temp = Null
  BY <1>3, <1>4 DEF NoOp, OpOK
<1>6. OperationOnRegistered'
  BY <1>2, <1>4, <1>5 DEF OperationOnRegistered, Registered
<1> QED BY <1>1, <1>2, <1>5, <1>6, OperationListInv, PartsUnchanged, TypePartsNext
        DEF ListInv, RegistryInv

LEMMA EventDetectedInv ==
  ASSUME RegistryInv, NEW a, NEW c \in Channel, EventDetected(a, c)
  PROVE  RegistryInv'
<1>1. TypeOK /\ OthersOK
  BY TypeParts DEF RegistryInv
<1>2. /\ UNCHANGED <<gpioList, rec, callbacks, threadRunning, epfdThread, epfdBlocking>>
      /\ UNCHANGED <<valueFile, epoll, pc, ptr, arg, op, wait, fault>>
  BY DEF EventDetected, listVars, kernelVars, threadVars
<1>3. OthersOK'
  BY <1>1, <1>2 DEF EventDetected, ClearFlag, OthersOK
<1> QED BY <1>1, <1>2, <1>3, KeepsListInv, PartsUnchanged, TypePartsNext
        DEF ListInv, RegistryInv, KeepsRegistry

\* The first half of wait_for_edge.
LEMMA WaitForEdgeInv ==
  ASSUME RegistryInv, NEW c \in Channel, NEW e \in Edges, NEW b \in BounceTimes,
         WaitForEdge(c, e, b)
  PROVE  RegistryInv'
<1>1. TypeOK /\ EpollOK /\ OthersOK /\ Idle
  BY TypeParts DEF RegistryInv, WaitForEdge, CanCall
<1>2. Registers(c)
  BY <1>1, WaitRecordRegisters DEF WaitForEdge
<1>3. /\ UNCHANGED <<callbacks, eventOccurred, threadRunning, epfdThread>>
      /\ UNCHANGED <<pc, ptr, arg, op, fault>>
  BY DEF WaitForEdge, threadVars
<1>4. ListInv'
  BY <1>1, <1>2, <1>3, RegistersListInv DEF Idle, NoOp
<1>5. PICK ep \in EpollFor(epfdBlocking) :
        /\ epfdBlocking' = ep
        /\ epoll' = Watched(Created(epoll, ep), ep, rec'[c].fd)
        /\ wait' = [ch |-> c, ep |-> ep, initial |-> TRUE]
  BY DEF WaitForEdge
<1>6. ep \in Ep
  BY <1>1, <1>5 DEF EpollFor, FreeEps, EpollOK
<1>7. EpollOK'
  <2>1. rec'[c].fd \in Fd
    BY <1>2 DEF Registers
  <2>2. epoll' \in [Ep -> [open : BOOLEAN, fds : SUBSET Fd, ready : SUBSET Fd]]
    BY <1>1, <1>5, <2>1, EpollTypes DEF EpollOK
  <2> QED BY <1>1, <1>3, <1>5, <1>6, <2>2 DEF EpollOK
<1>8. OthersOK'
  BY <1>1, <1>3, <1>5, <1>6 DEF OthersOK
<1> QED BY <1>1, <1>2, <1>3, <1>4, <1>7, <1>8, RegistersTypes, PartsUnchanged, TypePartsNext
        DEF ListInv, RegistryInv

LEMMA WaitNoEpollInv ==
  ASSUME RegistryInv, NEW c \in Channel, NEW e \in Edges, NEW b \in BounceTimes,
         WaitNoEpoll(c, e, b)
  PROVE  RegistryInv'
<1>1. TypeOK /\ Idle
  BY DEF RegistryInv, WaitNoEpoll, CanCall
<1>2. Registers(c)
  BY <1>1, WaitRecordRegisters DEF WaitNoEpoll
<1>3. /\ UNCHANGED <<callbacks, eventOccurred, threadRunning, epfdThread, epfdBlocking, epoll>>
      /\ UNCHANGED <<pc, ptr, arg, op, wait, fault>>
  BY DEF WaitNoEpoll, threadVars
<1>4. ListInv'
  BY <1>1, <1>2, <1>3, RegistersListInv DEF Idle, NoOp
<1> QED BY <1>1, <1>2, <1>3, <1>4, RegistersTypes, PartsUnchanged, TypePartsNext
        DEF ListInv, RegistryInv

\* The loop of wait_for_edge.
LEMMA WaitStepInv ==
  ASSUME RegistryInv, WaitStep PROVE RegistryInv'
<1>1. TypeOK /\ EpollOK /\ ListsOK /\ OthersOK
  BY TypeParts DEF RegistryInv
<1>2. CASE WaitAgain
  <2>1. /\ UNCHANGED <<gpioList, rec, callbacks, eventOccurred, threadRunning, epfdThread, epfdBlocking>>
        /\ UNCHANGED <<valueFile, pc, ptr, arg, op, fault>>
    BY <1>2 DEF WaitAgain, listVars, threadVars
  <2>2. EpollOK'
    BY <1>1, <1>2, <2>1, EpollTypes DEF WaitAgain, EpollOK
  <2>3. wait' \in [ch : Channel \cup {Null}, ep : Ep \cup {0}, initial : BOOLEAN]
    <3>1. wait' = NoWait \/ wait' = [wait EXCEPT !.initial = FALSE, !.ep = epfdBlocking]
      BY <1>2 DEF WaitAgain, WaitsOn
    <3>2. /\ wait \in [ch : Channel \cup {Null}, ep : Ep \cup {0}, initial : BOOLEAN]
          /\ epfdBlocking \in Ep \cup {0}
      BY <1>1 DEF OthersOK, EpollOK
    <3>3. NoWait \in [ch : Channel \cup {Null}, ep : Ep \cup {0}, initial : BOOLEAN]
      BY DEF NoWait
    <3>4. [wait EXCEPT !.initial = FALSE, !.ep = epfdBlocking]
            \in [ch : Channel \cup {Null}, ep : Ep \cup {0}, initial : BOOLEAN]
      BY <3>2
    <3> QED BY <3>1, <3>3, <3>4
  <2>4. OthersOK'
    BY <1>1, <2>1, <2>3 DEF OthersOK
  <2>5. ListInv'
    BY <2>1, KeepsListInv DEF KeepsRegistry
  <2> QED BY <1>1, <2>1, <2>2, <2>4, <2>5, PartsUnchanged, TypePartsNext DEF ListInv, RegistryInv
<1>3. CASE WaitReturn
  <2>1. /\ UNCHANGED <<gpioList, callbacks, eventOccurred, threadRunning, epfdThread, epfdBlocking>>
        /\ UNCHANGED <<valueFile, pc, ptr, arg, op, fault>>
    BY <1>3 DEF WaitReturn, threadVars
  <2>2. rec' = [rec EXCEPT ![wait.ch].called = TRUE] /\ wait' = NoWait
    BY <1>3 DEF WaitReturn
  <2>3. EpollOK'
    <3>1. Reported(epoll, wait.ep, rec[wait.ch].fd)
            \in [Ep -> [open : BOOLEAN, fds : SUBSET Fd, ready : SUBSET Fd]]
      BY <1>1, EpollTypes DEF EpollOK
    <3>2. epoll' \in [Ep -> [open : BOOLEAN, fds : SUBSET Fd, ready : SUBSET Fd]]
      BY <1>1, <1>3, <3>1, EpollTypes DEF WaitReturn
    <3> QED BY <1>1, <2>1, <3>2 DEF EpollOK
  <2>4. rec' \in [Channel -> Record] /\ \A c \in Channel : /\ rec'[c].fd = rec[c].fd
                                                           /\ rec'[c].edge = rec[c].edge
    <3>1. rec \in [Channel -> Record]
      BY <1>1 DEF ListsOK
    <3> QED BY <2>2, <3>1 DEF Record
  <2>5. ListsOK'
    BY <1>1, <2>1, <2>4 DEF ListsOK
  <2>6. OthersOK'
    BY <1>1, <2>1, <2>2 DEF OthersOK, NoWait
  <2>7. ListInv'
    BY <2>1, <2>4, KeepsListInv DEF KeepsRegistry
  <2> QED BY <1>1, <2>1, <2>3, <2>5, <2>6, <2>7, PartsUnchanged, TypePartsNext
          DEF ListInv, RegistryInv
<1> QED BY <1>2, <1>3 DEF WaitStep

-----------------------------------------------------------------------------
(* An operation in progress.                                               *)

LEMMA RemoveDisarmInv ==
  ASSUME RegistryInv, RemoveDisarm PROVE RegistryInv'
<1>1. TypeOK /\ ThreadsOK /\ EpollOK /\ ListsOK /\ OpOK /\ OthersOK
  BY TypeParts DEF RegistryInv
<1>2. PICK c \in Channel :
        /\ op.cur = c
        /\ epoll' = Unwatched(epoll, Ep, rec[c].fd)
        /\ callbacks' = RemoveCallbacks(c)
        /\ ptr' = [t \in Thread |->
                    IF /\ pc[t] \in {"walk", "call"}
                       /\ \E k \in Cell : ptr[t] = k /\ callbacks[k] = c
                    THEN Dangling ELSE ptr[t]]
        /\ valueFile' = CloseValueFile(c)
        /\ rec' = [rec EXCEPT ![c].edge = "none"]
        /\ eventOccurred' = ClearFlag(c)
        /\ op' = [op EXCEPT !.phase = "end", !.temp = TempAfter(c)]
  BY DEF RemoveDisarm
<1>3. UNCHANGED <<gpioList, threadRunning, epfdThread, epfdBlocking, pc, arg, wait, fault>>
  BY DEF RemoveDisarm
<1>4. ThreadsOK'
  <2>1. ptr' \in [Thread -> Ep \cup Fd \cup Cell \cup Channel \cup {0, Dangling}]
    BY <1>1, <1>2 DEF ThreadsOK
  <2>2. \A t \in Thread : PointsTo(pc'[t], ptr'[t])
    BY <1>1, <1>2, <1>3 DEF ThreadsOK, PointsTo
  <2> QED BY <1>1, <1>3, <2>1, <2>2 DEF ThreadsOK, PointsTo
<1>5. EpollOK'
  BY <1>1, <1>2, <1>3, EpollTypes DEF EpollOK
<1>6. ListsOK'
  <2>1. rec' \in [Channel -> Record]
    BY <1>1, <1>2 DEF ListsOK, Record
  <2>2. callbacks' \in [Cell -> Channel \cup {Null}]
    BY <1>1, <1>2 DEF ListsOK, RemoveCallbacks
  <2>3. valueFile' \in [Fd -> Channel \cup {Null}]
    BY <1>1, <1>2 DEF ListsOK, CloseValueFile
  <2> QED BY <1>1, <1>3, <2>1, <2>2, <2>3 DEF ListsOK
<1>7. OpOK'
  <2>1. op.kind = "cleanup" => NextRecord(c) \in Channel \cup {Null}
    <3>1. HAVE op.kind = "cleanup"
    <3>2. op.cur \in Registered
      BY <1>2, <3>1, Parameters DEF RegistryInv, OperationOnRegistered
    <3>3. Position(c) \in 1..Len(gpioList)
      BY <1>1, <1>2, <3>2, PositionIsThere DEF ListsOK
    <3>4. Position(c) < Len(gpioList) => gpioList[Position(c) + 1] \in Channel
      <4>1. HAVE Position(c) < Len(gpioList)
      <4>2. Position(c) + 1 \in 1..Len(gpioList)
        BY <1>1, <3>3, <4>1, LenProperties DEF ListsOK
      <4> QED BY <1>1, <4>2, ElementOfSeq DEF ListsOK
    <3> QED BY <3>4 DEF NextRecord
  <2>2. TempAfter(c) \in Channel \cup {Null, Dangling}
    BY <1>1, <2>1 DEF TempAfter, OpOK
  <2> QED BY <1>1, <1>2, <2>2 DEF OpOK
<1>8. OthersOK'
  BY <1>1, <1>2, <1>3 DEF OthersOK, ClearFlag
<1>9. ListInv'
  BY DisarmListInv
<1> QED BY <1>4, <1>5, <1>6, <1>7, <1>8, <1>9, TypePartsNext DEF ListInv, RegistryInv

LEMMA RemoveFreeInv ==
  ASSUME RegistryInv, RemoveFree PROVE RegistryInv'
<1>1. TypeOK /\ ThreadsOK /\ ListsOK /\ OpOK
  BY TypeParts DEF RegistryInv
<1>2. PICK c \in Channel :
        /\ op.cur = c
        /\ gpioList' = RemoveAt(gpioList, Position(c))
        /\ rec' = [rec EXCEPT ![c] = NoRec]
        /\ ptr' = [t \in Thread |->
                    IF pc[t] \in {"use", "first"} /\ ptr[t] = c THEN Dangling ELSE ptr[t]]
        /\ LET next == IF op.temp = c THEN Dangling ELSE op.temp
           IN op' = IF op.kind = "remove" THEN NoOp
                    ELSE [op EXCEPT !.phase = "begin", !.cur = next, !.temp = next]
  BY DEF RemoveFree
<1>3. /\ UNCHANGED <<callbacks, eventOccurred, threadRunning, epfdThread, epfdBlocking>>
      /\ UNCHANGED <<valueFile, epoll, pc, arg, wait, fault>>
  BY DEF RemoveFree, kernelVars
<1>4. ThreadsOK'
  <2>1. ptr' \in [Thread -> Ep \cup Fd \cup Cell \cup Channel \cup {0, Dangling}]
    BY <1>1, <1>2 DEF ThreadsOK
  <2>2. \A t \in Thread : PointsTo(pc'[t], ptr'[t])
    BY <1>1, <1>2, <1>3 DEF ThreadsOK, PointsTo
  <2> QED BY <1>1, <1>3, <2>1, <2>2 DEF ThreadsOK, PointsTo
<1>5. ListsOK'
  <2>1. c \in Registered /\ IsInjective(gpioList) /\ gpioList \in Seq(Channel)
    BY <1>1, <1>2
       DEF RemoveFree, RegistryInv, HalfRemovedIsDisarmed, HalfRemoved, RegistryMatchesKernel, ListsOK
  <2>2. gpioList' \in Seq(Channel)
    BY <1>2, <2>1, PositionIsThere, Unlink
  <2>3. rec' \in [Channel -> Record]
    BY <1>1, <1>2, Parameters DEF ListsOK, Record, NoRec
  <2> QED BY <1>1, <1>3, <2>2, <2>3 DEF ListsOK
<1>6. OpOK'
  <2>1. CASE op.kind = "remove"
    BY <1>2, <2>1 DEF OpOK, NoOp
  <2>2. CASE op.kind # "remove"
    BY <1>1, <1>2, <2>2 DEF OpOK
  <2> QED BY <2>1, <2>2
<1>7. ListInv'
  BY FreeListInv
<1> QED BY <1>1, <1>3, <1>4, <1>5, <1>6, <1>7, PartsUnchanged, TypePartsNext
        DEF ListInv, RegistryInv

LEMMA CleanupEndInv ==
  ASSUME RegistryInv, CleanupUsesFreed \/ CleanupFinish PROVE RegistryInv'
<1>1. TypeOK /\ EpollOK /\ OthersOK
  BY TypeParts DEF RegistryInv
<1>2. CASE CleanupUsesFreed
  <2>1. /\ UNCHANGED <<gpioList, rec, callbacks, eventOccurred, threadRunning, epfdThread, epfdBlocking>>
        /\ UNCHANGED <<valueFile, epoll, pc, ptr, arg, op, wait>>
        /\ fault' = TRUE
    BY <1>2 DEF CleanupUsesFreed, listVars, kernelVars, threadVars
  <2>2. OthersOK'
    BY <1>1, <2>1 DEF OthersOK
  <2> QED BY <1>1, <2>1, <2>2, KeepsListInv, PartsUnchanged, TypePartsNext
          DEF ListInv, RegistryInv, KeepsRegistry
<1>3. CASE CleanupFinish
  <2>1. /\ UNCHANGED <<gpioList, rec, callbacks, eventOccurred, valueFile>>
        /\ UNCHANGED <<pc, ptr, arg, wait, fault>>
        /\ epfdThread' = 0 /\ epfdBlocking' = 0 /\ threadRunning' = FALSE /\ op' = NoOp
        /\ op.phase = "begin"
    BY <1>3 DEF CleanupFinish, listVars, threadVars
  <2>2. EpollOK'
    <3>1. LET e1 == IF gpioList = <<>> THEN Closed(epoll, epfdBlocking) ELSE epoll
          IN e1 \in [Ep -> [open : BOOLEAN, fds : SUBSET Fd, ready : SUBSET Fd]]
      BY <1>1, EpollTypes DEF EpollOK
    <3>2. epoll' \in [Ep -> [open : BOOLEAN, fds : SUBSET Fd, ready : SUBSET Fd]]
      BY <1>1, <1>3, <3>1, EpollTypes DEF CleanupFinish
    <3> QED BY <2>1, <3>2 DEF EpollOK
  <2>3. OpOK' /\ OperationOnRegistered' /\ op'.phase = "begin"
    BY <2>1 DEF NoOp, OpOK, OperationOnRegistered
  <2>4. OthersOK'
    BY <1>1, <2>1 DEF OthersOK
  <2> QED BY <1>1, <2>1, <2>2, <2>3, <2>4, OperationListInv, PartsUnchanged, TypePartsNext
          DEF ListInv, RegistryInv
<1> QED BY <1>2, <1>3

\* A change of the line.
LEMMA EdgeInv ==
  ASSUME RegistryInv, NEW c \in Channel, Edge(c) PROVE RegistryInv'
<1>1. TypeOK /\ EpollOK
  BY TypeParts DEF RegistryInv
<1>2. /\ UNCHANGED <<gpioList, rec, callbacks, eventOccurred, threadRunning, epfdThread, epfdBlocking>>
      /\ UNCHANGED <<valueFile, pc, ptr, arg, op, wait, fault>>
  BY DEF Edge, listVars, threadVars
<1>3. EpollOK'
  <2>1. rec[c].fd \in Fd
    BY DEF Edge, RegistryInv, RecordsFilled
  <2> QED BY <1>1, <1>2, <2>1 DEF Edge, EpollOK
<1> QED BY <1>1, <1>2, <1>3, KeepsListInv, PartsUnchanged, TypePartsNext
        DEF ListInv, RegistryInv, KeepsRegistry

-----------------------------------------------------------------------------
(* The invariant, and what follows from it.                                *)

LEMMA NextRegistryInv == RegistryInv /\ [Next]_vars => RegistryInv'
<1> SUFFICES ASSUME RegistryInv, [Next]_vars PROVE RegistryInv'
  OBVIOUS
<1>1. ASSUME NEW a \in Thread \cup {Main}, ClientCall(a) PROVE RegistryInv'
  <2> PICK c \in Channel :
        \/ \E e \in Edges, b \in BounceTimes :
             \/ AddEdgeDetect(a, c, e, b)
             \/ AddNoEpoll(a, c, e, b)
             \/ \E added \in BOOLEAN : AddFails(a, c, e, b, added)
        \/ AddEdgeCallback(a, c)
        \/ RemoveEdgeDetect(a, c)
        \/ Cleanup(a, c)
        \/ EventDetected(a, c)
    BY <1>1 DEF ClientCall
  <2> QED BY AddEdgeDetectInv, AddNoEpollInv, AddFailsInv, AddEdgeCallbackInv,
             RemoveEdgeDetectInv, CleanupInv, EventDetectedInv
<1>2. ASSUME NEW a \in Thread \cup {Main}, Cleanup(a, "all") PROVE RegistryInv'
  BY <1>2, CleanupInv
<1>3. CASE WaitCall
  BY <1>3, WaitForEdgeInv, WaitNoEpollInv DEF WaitCall
<1>4. CASE OpStep
  BY <1>4, RemoveDisarmInv, RemoveFreeInv, CleanupEndInv DEF OpStep
<1>5. CASE WaitStep
  BY <1>5, WaitStepInv
<1>6. ASSUME NEW t \in Thread, PollStep(t) PROVE RegistryInv'
  BY <1>6, PollListInv, PollTypeOK DEF ListInv, RegistryInv
<1>7. ASSUME NEW c \in Channel, Edge(c) PROVE RegistryInv'
  BY <1>7, EdgeInv
<1>8. CASE UNCHANGED vars
  <2>1. TypeOK'
    BY <1>8, PartsUnchanged, TypePartsNext DEF vars, RegistryInv
  <2>2. ListInv'
    BY <1>8, KeepsListInv DEF vars, KeepsRegistry
  <2> QED BY <2>1, <2>2 DEF ListInv, RegistryInv
<1> QED BY <1>1, <1>2, <1>3, <1>4, <1>5, <1>6, <1>7, <1>8 DEF Next

\* RegistryInv is an invariant: whatever calls, threads and edges interleave.
THEOREM RegistryInvariant == Spec => []RegistryInv
<1>1. Init => RegistryInv
  BY InitRegistryInv
<1>2. RegistryInv /\ [Next]_vars => RegistryInv'
  BY NextRegistryInv
<1> QED BY <1>1, <1>2, PTL DEF Spec

\* The state is well typed; a thread's pointer is always of the kind its place in
\* the code needs, or Dangling.
THEOREM TypeCorrect == Spec => []TypeOK
<1>1. RegistryInv => TypeOK
  BY DEF RegistryInv
<1> QED BY <1>1, RegistryInvariant, PTL

\* No channel is registered twice, each registered channel owns its descriptor, and
\* no removal leaks a value file, however calls and poll threads interleave.
THEOREM RegistryAgrees == Spec => []RegistryMatchesKernel
<1>1. RegistryInv => RegistryMatchesKernel
  BY DEF RegistryInv
<1> QED BY <1>1, RegistryInvariant, PTL

\* A channel armed again never runs the C callbacks of its earlier life.
THEOREM CallbacksAreOfRegistered == Spec => []NoOrphanCallback
<1>1. RegistryInv => NoOrphanCallback
  BY DEF RegistryInv
<1> QED BY <1>1, RegistryInvariant, PTL

-----------------------------------------------------------------------------
(* GPIO.cleanup().                                                         *)

FirstOf(s) == IF s = <<>> THEN Null ELSE s[1]

LEMMA HeadRemoved ==
  ASSUME NEW S, NEW s \in Seq(S), s # <<>>
  PROVE  /\ 1 \in 1..Len(s)
         /\ FirstOf(RemoveAt(s, 1)) = IF 1 < Len(s) THEN s[2] ELSE Null
         /\ Len(s) = 1 => RemoveAt(s, 1) = <<>>
<1>1. PICK n \in Nat : n = Len(s) /\ n >= 1
  OBVIOUS
<1> DEFINE u == SubSeq(s, 1, 0)
           v == SubSeq(s, 2, n)
<1>2. RemoveAt(s, 1) = u \o v
  BY <1>1 DEF RemoveAt
<1>3. u = <<>>
  BY DEF SubSeq
<1>4. /\ v \in Seq(S) /\ Len(v) = n - 1
      /\ \A i \in 1..(n - 1) : v[i] = s[i + 1]
  <2>1. n \in Int /\ \A i \in 2..n : s[i] \in S
    BY <1>1
  <2>2. /\ SubSeq(s, 2, n) \in Seq(S)
        /\ Len(SubSeq(s, 2, n)) = IF 2 <= n THEN n - 2 + 1 ELSE 0
        /\ \A i \in 1..(n - 2 + 1) : SubSeq(s, 2, n)[i] = s[2 + i - 1]
    BY <2>1, SubSeqProperties
  <2> QED BY <1>1, <2>2
<1>5. RemoveAt(s, 1) = v
  BY <1>2, <1>3, <1>4, ConcatEmptySeq
<1> HIDE DEF v
<1>6. CASE 1 < n
  <2>1. Len(v) # 0 /\ v[1] = s[2]
    BY <1>1, <1>4, <1>6
  <2>2. v # <<>>
    BY <2>1, <1>4
  <2> QED BY <1>1, <1>5, <1>6, <2>1, <2>2 DEF FirstOf
<1>7. CASE n = 1
  <2>1. v = <<>>
    BY <1>4, <1>7
  <2> QED BY <1>1, <1>5, <1>7, <2>1 DEF FirstOf
<1>8. 1 < n \/ n = 1
  BY <1>1
<1> QED BY <1>6, <1>7, <1>8

\* Cleanup of all channels has removed those before the one it is at.
CleansAll == op.kind = "cleanup" /\ op.target = "all"
CleanupInOrder ==
  CleansAll => /\ op.cur = FirstOf(gpioList)
               /\ op.phase = "end" => /\ gpioList # <<>>
                                      /\ op.temp = IF 1 < Len(gpioList) THEN gpioList[2] ELSE Null

\* An operation in progress is alone with the list.
LEMMA OperationsExclude ==
  ASSUME [Next]_vars
  PROVE  Idle \/ RemoveDisarm \/ RemoveFree \/ CleanupFinish \/ UNCHANGED <<op, gpioList>>
<1>1. ASSUME NEW t \in Thread, PollStep(t) PROVE UNCHANGED <<op, gpioList>>
  BY <1>1 DEF PollStep, PollStart, PollTest, PollWait, PollReport, PollRead, PollLookup, PollUseFreed,
         PollFirst, PollFirstDone, PollBounce, PollDeliver, PollWalk, PollReturn, PollExit,
         OthersUnchanged
<1>2. CASE WaitStep
  BY <1>2 DEF WaitStep, WaitAgain, WaitReturn, listVars
<1>3. ASSUME NEW a, ClientCall(a) \/ Cleanup(a, "all") PROVE Idle
  BY <1>3 DEF ClientCall, AddEdgeDetect, AddNoEpoll, AddFails, AddEdgeCallback, RemoveEdgeDetect,
              Cleanup, EventDetected, CanCall
<1>4. CASE WaitCall
  BY <1>4 DEF WaitCall, WaitForEdge, WaitNoEpoll, CanCall
<1>5. CASE OpStep
  BY <1>5 DEF OpStep, CleanupUsesFreed, listVars
<1>6. ASSUME NEW c \in Channel, Edge(c) PROVE UNCHANGED <<op, gpioList>>
  BY <1>6 DEF Edge, listVars
<1> QED BY <1>1, <1>2, <1>3, <1>4, <1>5, <1>6 DEF Next, vars

\* Only Cleanup begins a cleanup.
LEMMA CleanupBegins ==
  ASSUME [Next]_vars, Idle
  PROVE  \/ op'.kind # "cleanup"
         \/ op'.cur = FirstOf(gpioList') /\ op'.phase = "begin" /\ op'.temp = Null
<1>1. op.kind = "idle" /\ NoOp.kind = "idle"
  BY DEF Idle, NoOp
<1>2. ASSUME NEW t \in Thread, PollStep(t) PROVE UNCHANGED op
  BY <1>2 DEF PollStep, PollStart, PollTest, PollWait, PollReport, PollRead, PollLookup, PollUseFreed,
         PollFirst, PollFirstDone, PollBounce, PollDeliver, PollWalk, PollReturn, PollExit,
         OthersUnchanged
<1>3. ASSUME WaitStep \/ WaitCall PROVE UNCHANGED op
  BY <1>3 DEF WaitStep, WaitAgain, WaitReturn, WaitCall, WaitForEdge, WaitNoEpoll
<1>4. ASSUME NEW a, NEW target, Cleanup(a, target)
      PROVE  op'.cur = FirstOf(gpioList') /\ op'.phase = "begin" /\ op'.temp = Null
  BY <1>4 DEF Cleanup, NoOp, FirstOf, Head, listVars
<1>5. ASSUME NEW a, ClientCall(a)
      PROVE  \/ op'.kind # "cleanup"
             \/ op'.cur = FirstOf(gpioList') /\ op'.phase = "begin" /\ op'.temp = Null
  BY <1>1, <1>4, <1>5 DEF ClientCall, AddEdgeDetect, AddNoEpoll, AddFails, AddEdgeCallback,
                          RemoveEdgeDetect, EventDetected, NoOp
<1>6. ~RemoveDisarm /\ ~CleanupUsesFreed /\ ~CleanupFinish /\ ~RemoveFree
  BY <1>1 DEF Idle, NoOp, RemoveDisarm, CleanupUsesFreed, CleanupFinish, RemoveFree
<1>7. ASSUME NEW c \in Channel, Edge(c) PROVE UNCHANGED op
  BY <1>7 DEF Edge
<1> QED BY <1>1, <1>2, <1>3, <1>4, <1>5, <1>6, <1>7 DEF Next, OpStep, vars

LEMMA InOrderStep ==
  ASSUME RegistryInv, CleanupInOrder, [Next]_vars
  PROVE  CleanupInOrder'
<1>1. /\ gpioList \in Seq(Channel) /\ IsInjective(gpioList) /\ op.kind \in {"idle", "remove", "cleanup"}
      /\ op.phase \in {"begin", "end"}
  BY DEF RegistryInv, TypeOK, RegistryMatchesKernel
<1>2. CASE Idle
  BY <1>2, CleanupBegins DEF CleanupInOrder, CleansAll
<1>3. CASE UNCHANGED <<op, gpioList>>
  BY <1>3 DEF CleanupInOrder, CleansAll
<1>4. CASE CleanupFinish
  BY <1>4 DEF CleanupFinish, CleanupInOrder, CleansAll, NoOp
<1>5. ASSUME NEW c \in Channel, op.cur = c, CleansAll
      PROVE  gpioList # <<>> /\ gpioList[1] = c /\ Position(c) = 1 /\ c \in Registered
  <2>1. gpioList # <<>> /\ gpioList[1] = c
    BY <1>5, Parameters DEF CleanupInOrder, FirstOf
  <2>2. Len(gpioList) \in Nat /\ Len(gpioList) > 0 /\ DOMAIN gpioList = 1..Len(gpioList)
    BY <1>1, <2>1, LenProperties, EmptySeq
  <2>3. c \in Registered
    BY <2>1, <2>2 DEF Registered, ToSet
  <2>4. Position(c) \in 1..Len(gpioList) /\ gpioList[Position(c)] = c
    BY <1>1, <2>3, PositionIsThere
  <2>5. Position(c) = 1
    BY <1>1, <2>1, <2>2, <2>4 DEF IsInjective
  <2> QED BY <2>1, <2>3, <2>5
<1>6. CASE RemoveDisarm
  <2>1. PICK c \in Channel : op.cur = c /\ op' = [op EXCEPT !.phase = "end", !.temp = TempAfter(c)]
    BY <1>6 DEF RemoveDisarm
  <2>2. /\ op'.kind = op.kind /\ op'.target = op.target /\ op'.cur = op.cur
        /\ op'.phase = "end" /\ op'.temp = TempAfter(c) /\ gpioList' = gpioList
    BY <1>6, <2>1 DEF RegistryInv, TypeOK, RemoveDisarm
  <2>3. ASSUME CleansAll PROVE TempAfter(c) = IF 1 < Len(gpioList) THEN gpioList[2] ELSE Null
    BY <1>5, <2>1, <2>3 DEF TempAfter, NextRecord, CleansAll
  <2> QED BY <1>5, <2>1, <2>2, <2>3 DEF CleanupInOrder, CleansAll
<1>7. CASE RemoveFree
  <2>1. PICK c \in Channel :
          /\ op.cur = c /\ op.phase = "end" /\ gpioList' = RemoveAt(gpioList, Position(c))
          /\ LET next == IF op.temp = c THEN Dangling ELSE op.temp
             IN op' = IF op.kind = "remove" THEN NoOp
                      ELSE [op EXCEPT !.phase = "begin", !.cur = next, !.temp = next]
    BY <1>7 DEF RemoveFree
  <2> SUFFICES ASSUME CleansAll' PROVE CleanupInOrder'
    BY DEF CleanupInOrder
  <2>2. /\ CleansAll /\ op'.phase = "begin"
        /\ op'.cur = IF op.temp = c THEN Dangling ELSE op.temp
    BY <2>1 DEF CleansAll, NoOp, RegistryInv, TypeOK
  <2>3. gpioList # <<>> /\ gpioList[1] = c /\ gpioList' = RemoveAt(gpioList, 1)
    BY <1>5, <2>1, <2>2
  <2>4. FirstOf(gpioList') = op.temp
    <3>1. op.temp = IF 1 < Len(gpioList) THEN gpioList[2] ELSE Null
      BY <2>1, <2>2 DEF CleanupInOrder
    <3>2. FirstOf(RemoveAt(gpioList, 1)) = IF 1 < Len(gpioList) THEN gpioList[2] ELSE Null
      <4>1. gpioList \in Seq(Channel) /\ gpioList # <<>>
        BY <1>1, <2>3
      <4> QED BY <4>1, HeadRemoved
    <3>3. FirstOf(gpioList') = FirstOf(RemoveAt(gpioList, 1))
      BY <2>3
    <3> QED BY <3>1, <3>2, <3>3
  <2>5. op.temp # c
    <3>1. CASE 1 < Len(gpioList)
      <4>1. 2 \in DOMAIN gpioList /\ 1 \in DOMAIN gpioList
        BY <1>1, <3>1, LenProperties
      <4> QED BY <1>1, <2>1, <2>2, <2>3, <3>1, <4>1 DEF CleanupInOrder, IsInjective
    <3>2. CASE ~(1 < Len(gpioList))
      BY <2>1, <2>2, <3>2, Parameters DEF CleanupInOrder
    <3> QED BY <3>1, <3>2
  <2> QED BY <2>2, <2>4, <2>5 DEF CleanupInOrder
<1> QED BY <1>2, <1>3, <1>4, <1>6, <1>7, OperationsExclude

\* GPIO.cleanup() returns with no channel registered, no callback kept and no
\* value file open, also when poll threads run beside it.
THEOREM CleanupLeavesNothing == Spec => CleanupAllIsClean
<1>1. Init => CleanupInOrder
  BY DEF Init, CleanupInOrder, CleansAll, NoOp
<1>2. RegistryInv /\ CleanupInOrder /\ [Next]_vars =>
        (op.kind = "cleanup" /\ op.target = "all" /\ op' = NoOp =>
           gpioList' = <<>> /\ Live(callbacks') = {} /\ FreeFds' = Fd)
  <2> SUFFICES ASSUME RegistryInv, CleanupInOrder, [Next]_vars, CleansAll, op' = NoOp
               PROVE  gpioList' = <<>> /\ Live(callbacks') = {} /\ FreeFds' = Fd
    BY DEF CleansAll
  <2>1. op'.kind = "idle" /\ op.kind = "cleanup"
    BY DEF CleansAll, NoOp
  <2>2. ~Idle /\ ~UNCHANGED op
    BY <2>1 DEF Idle, NoOp
  <2>3. ~RemoveDisarm /\ ~RemoveFree
    BY <2>1 DEF RemoveDisarm, RemoveFree, RegistryInv, TypeOK
  <2>4. CleanupFinish
    BY <2>2, <2>3, OperationsExclude
  <2>5. gpioList' = <<>>
    <3>1. op.cur = Null /\ gpioList' = gpioList /\ gpioList \in Seq(Channel)
      BY <2>4 DEF CleanupFinish, listVars, RegistryInv, TypeOK
    <3>2. ASSUME gpioList # <<>> PROVE gpioList[1] \in Channel
      BY <3>1, <3>2, LenProperties, EmptySeq, ElementOfSeq
    <3> QED BY <3>1, <3>2, Parameters DEF CleanupInOrder, FirstOf
  <2>6. RegistryInv' /\ Registered' = {}
    BY <2>5, NextRegistryInv DEF Registered, ToSet
  <2> QED BY <2>5, <2>6
          DEF RegistryInv, RegistryMatchesKernel, NoOrphanCallback, TypeOK, Live, FreeFds
<1> QED BY <1>1, <1>2, InOrderStep, RegistryInvariant, PTL DEF Spec, CleanupAllIsClean

-----------------------------------------------------------------------------
(* Races.                                                                  *)

\* Until a program has raced no pointer of a thread that handles an event dangles,
\* and a cleanup of one channel is at that channel or at the end of the list.
PointersGood ==
  /\ ~fault
  /\ \A t \in Thread : /\ pc[t] = "lookup" => valueFile[ptr[t]] # Null
                       /\ pc[t] \in {"use", "first", "walk", "call"} => ptr[t] # Dangling
OnTarget ==
  op.kind = "cleanup" /\ op.target # "all" =>
    /\ op.cur \in {op.target, Null}
    /\ op.phase = "begin" => op.temp # Dangling
    /\ op.phase = "end" => op.temp \notin {op.cur, Dangling}
Unraced == ~raced => ~Race /\ PointersGood /\ OnTarget

\* A poll thread that handles an event goes on with a pointer that is good.
LEMMA PollPointers ==
  ASSUME RegistryInv, PointersGood, NEW t \in Thread, PollStep(t)
  PROVE  PointersGood'
<1> DEFINE p == ptr[t]
           Good(l, q) == /\ l = "lookup" => valueFile[q] # Null
                         /\ l \in {"use", "first", "walk", "call"} => q # Dangling
<1>1. /\ pc[t] \in Locals /\ PointsTo(pc[t], p) /\ Registered \subseteq Channel
      /\ pc \in [Thread -> Locals] /\ DOMAIN ptr = Thread
  BY RegisteredAreChannels DEF RegistryInv, TypeOK
<1>2. Good(pc[t], p)
  BY DEF PointersGood
<1>3. \A k : NextCell(callbacks, k) # Dangling
  <2>1. \A k : NextCell(callbacks, k) \in Cell \cup {0}
    BY NextCellIsCell
  <2> QED BY <2>1, Parameters DEF Cell
<1>4. UNCHANGED valueFile
  BY DEF PollStep, PollStart, PollTest, PollWait, PollReport, PollRead, PollLookup, PollUseFreed,
         PollFirst, PollFirstDone, PollBounce, PollDeliver, PollWalk, PollReturn, PollExit,
         OthersUnchanged
<1>5. pc[t] = "lookup" => \E c \in Registered : rec[c].fd = p
  BY <1>1, <1>2 DEF PointsTo, RegistryInv, RegistryMatchesKernel
<1> HIDE DEF p
<1>6. UNCHANGED fault /\ \E l, q : Goto(t, l, q) /\ Good(l, q)
  <2>1. CASE PollStart(t) \/ PollTest(t) \/ PollWait(t) \/ PollReport(t) \/ PollBounce(t) \/ PollExit(t)
    BY <2>1 DEF PollStart, PollTest, PollWait, PollReport, PollBounce, PollExit
  <2>2. CASE PollRead(t)
    BY <2>2 DEF PollRead, p
  <2>3. CASE PollLookup(t)
    <3>1. PICK c \in Registered : Goto(t, "use", c) /\ UNCHANGED fault
      BY <1>5, <2>3 DEF PollLookup, p
    <3>2. c # Dangling
      BY <1>1, Parameters
    <3> QED BY <3>1, <3>2
  <2>4. CASE PollFirst(t)
    BY <2>4 DEF PollFirst, p
  <2>5. CASE PollFirstDone(t)
    BY <1>2, <2>5 DEF PollFirstDone, p
  <2>6. CASE PollDeliver(t)
    BY <1>3, <2>6 DEF PollDeliver, p
  <2>7. CASE PollWalk(t)
    BY <1>2, <1>3, <2>7 DEF PollWalk, p
  <2>8. CASE PollReturn(t)
    BY <1>2, <1>3, <2>8 DEF PollReturn, p
  <2>9. ~PollUseFreed(t)
    BY <1>2 DEF PollUseFreed, p
  <2> QED BY <2>1, <2>2, <2>3, <2>4, <2>5, <2>6, <2>7, <2>8, <2>9 DEF PollStep
<1>7. PICK l, q : Goto(t, l, q) /\ Good(l, q)
  BY <1>6
<1>8. \A u \in Thread : \/ pc'[u] = pc[u] /\ ptr'[u] = ptr[u]
                        \/ pc'[u] = l /\ ptr'[u] = q
  BY <1>1, <1>7 DEF Goto
<1> QED BY <1>4, <1>6, <1>7, <1>8 DEF PointersGood

\* Calls, a finished cleanup, a wait and the line touch no pointer of a thread, and
\* close no value file.
LEMMA OthersPointers ==
  ASSUME RegistryInv, PointersGood, [Next]_vars,
         ~RemoveDisarm, ~RemoveFree, ~CleanupUsesFreed, \A t \in Thread : ~PollStep(t)
  PROVE  PointersGood'
<1> DEFINE Opens == UNCHANGED valueFile \/ \E c \in Channel : valueFile' = [valueFile EXCEPT ![LowestFd] = c]
           Spares == /\ UNCHANGED pc \/ \E t \in Thread : pc' = [pc EXCEPT ![t] = "start"]
                     /\ UNCHANGED <<ptr, fault>> /\ Opens
<1>0. Spares
  <2>1. ASSUME NEW c \in Channel, NEW e, NEW b, NEW added, Obtain(c, e, b, added) \/ WaitRecord(c, e, b)
        PROVE  Opens
    BY <2>1 DEF Obtain, WaitRecord, NewGpio
  <2> HIDE DEF Opens
  <2>2. UNCHANGED valueFile => Opens
    BY DEF Opens
  <2>3. ASSUME NEW a, NEW c \in Channel, NEW e, NEW b, AddEdgeDetect(a, c, e, b) PROVE Spares
    BY <2>1, <2>3 DEF AddEdgeDetect, StartPoller
  <2>4. ASSUME NEW a, NEW c \in Channel, NEW e, NEW b, AddNoEpoll(a, c, e, b) PROVE Spares
    BY <2>1, <2>4 DEF AddNoEpoll, threadVars
  <2>5. ASSUME NEW a, NEW c \in Channel, NEW e, NEW b, NEW added, AddFails(a, c, e, b, added) PROVE Spares
    BY <2>1, <2>5 DEF AddFails, threadVars
  <2>6. ASSUME NEW c \in Channel, NEW e, NEW b, WaitForEdge(c, e, b) \/ WaitNoEpoll(c, e, b) PROVE Spares
    BY <2>1, <2>6 DEF WaitForEdge, WaitNoEpoll, threadVars
  <2>7. ASSUME NEW a, NEW c, AddEdgeCallback(a, c) \/ RemoveEdgeDetect(a, c) \/ Cleanup(a, c) \/ EventDetected(a, c)
        PROVE  Spares
    BY <2>2, <2>7 DEF AddEdgeCallback, RemoveEdgeDetect, Cleanup, EventDetected, kernelVars, threadVars
  <2>8. WaitStep \/ CleanupFinish => Spares
    BY <2>2 DEF WaitStep, WaitAgain, WaitReturn, CleanupFinish, threadVars
  <2>9. ASSUME NEW c, Edge(c) PROVE Spares
    BY <2>2, <2>9 DEF Edge, threadVars
  <2>10. UNCHANGED vars => Spares
    BY <2>2 DEF vars
  <2> HIDE DEF Spares
  <2>11. ASSUME NEW a, ClientCall(a) \/ Cleanup(a, "all") PROVE Spares
    BY <2>3, <2>4, <2>5, <2>7, <2>11 DEF ClientCall
  <2>12. WaitCall => Spares
    BY <2>6 DEF WaitCall
  <2> QED BY <2>8, <2>9, <2>10, <2>11, <2>12 DEF Next, OpStep
<1>1. \A t \in Thread : Handles(t)' => pc'[t] = pc[t]
  <2>1. pc \in [Thread -> Locals]
    BY DEF RegistryInv, TypeOK
  <2> QED BY <1>0, <2>1 DEF Handles
<1>2. UNCHANGED <<ptr, fault>>
  BY <1>0
<1>3. \A f \in Fd : valueFile[f] # Null => valueFile'[f] # Null
  <2>1. valueFile \in [Fd -> Channel \cup {Null}]
    BY DEF RegistryInv, TypeOK
  <2> QED BY <1>0, <2>1, Parameters
<1>4. \A t \in Thread : pc[t] = "lookup" => ptr[t] \in Fd
  BY DEF RegistryInv, TypeOK, PointsTo
<1> QED BY <1>1, <1>2, <1>3, <1>4 DEF PointersGood, Handles

\* A removal that no thread overlaps leaves no pointer dangling, and a cleanup does
\* not go on with a freed record.
LEMMA OperationPointers ==
  ASSUME RegistryInv, CleanupInOrder, PointersGood, OnTarget, ~Overlap,
         RemoveDisarm \/ RemoveFree \/ CleanupUsesFreed
  PROVE  PointersGood'
<1>1. ~Idle
  <2>1. RemoveDisarm \/ CleanupUsesFreed => op.kind \in {"remove", "cleanup"}
    BY DEF RemoveDisarm, CleanupUsesFreed
  <2>2. RemoveFree => op.phase = "end"
    BY DEF RemoveFree
  <2> QED BY <2>1, <2>2 DEF Idle, NoOp
<1>2. \A t \in Thread : ~Handles(t)
  BY <1>1 DEF Overlap
<1>3. ~CleanupUsesFreed
  <2> SUFFICES ASSUME CleanupUsesFreed PROVE FALSE
    OBVIOUS
  <2>1. op.kind = "cleanup" /\ op.cur = Dangling
    BY DEF CleanupUsesFreed
  <2>2. CASE op.target = "all"
    <3>1. op.cur = FirstOf(gpioList)
      BY <2>1, <2>2 DEF CleanupInOrder, CleansAll
    <3>2. ASSUME gpioList # <<>> PROVE gpioList[1] \in Channel
      BY <3>2, LenProperties, EmptySeq, ElementOfSeq DEF RegistryInv, TypeOK
    <3> QED BY <2>1, <3>1, <3>2, Parameters DEF FirstOf
  <2>3. CASE op.target # "all"
    <3>1. op.target \in Channel \cup {Null}
      BY <2>3 DEF RegistryInv, TypeOK
    <3> QED BY <2>1, <2>3, <3>1, Parameters DEF OnTarget
  <2> QED BY <2>2, <2>3
<1>4. UNCHANGED <<pc, fault>>
  BY <1>3 DEF RemoveDisarm, RemoveFree
<1> QED BY <1>2, <1>4 DEF PointersGood, Handles

\* A cleanup of one channel that has not strayed is at its target, and then at the
\* end of the list.
LEMMA TargetStep ==
  ASSUME RegistryInv, RegistryInv', OnTarget, [Next]_vars, ~Strayed'
  PROVE  OnTarget'
<1> SUFFICES ASSUME op'.kind = "cleanup", op'.target # "all"
             PROVE  /\ op'.cur \in {op'.target, Null}
                    /\ op'.phase = "begin" => op'.temp # Dangling
                    /\ op'.phase = "end" => op'.temp \notin {op'.cur, Dangling}
  BY DEF OnTarget
<1>1. /\ gpioList \in Seq(Channel) /\ IsInjective(gpioList) /\ op.kind \in {"idle", "remove", "cleanup"}
      /\ Registered \subseteq Channel
  BY RegisteredAreChannels DEF RegistryInv, TypeOK, RegistryMatchesKernel
<1>2. op'.cur \in Registered' \cup {Null, Dangling} /\ op'.cur \in {op'.target, Null, Dangling}
  BY DEF RegistryInv, OperationOnRegistered, Strayed
<1>3. CASE Idle
  <2>1. op'.cur = FirstOf(gpioList') /\ op'.phase = "begin" /\ op'.temp = Null
    BY <1>3, CleanupBegins
  <2>2. gpioList' \in Seq(Channel)
    BY DEF RegistryInv, TypeOK
  <2>3. ASSUME gpioList' # <<>> PROVE gpioList'[1] \in Channel
    BY <2>2, <2>3, LenProperties, EmptySeq, ElementOfSeq
  <2>4. op'.cur # Dangling
    BY <2>1, <2>3, Parameters DEF FirstOf
  <2> QED BY <1>2, <2>1, <2>4, Parameters
<1>4. CASE UNCHANGED <<op, gpioList>>
  BY <1>4 DEF OnTarget
<1>5. CASE CleanupFinish
  BY <1>5 DEF CleanupFinish, NoOp
<1>6. CASE RemoveDisarm
  <2>1. PICK c \in Channel : op.cur = c /\ op' = [op EXCEPT !.phase = "end", !.temp = TempAfter(c)]
    BY <1>6 DEF RemoveDisarm
  <2>2. /\ op'.kind = op.kind /\ op'.target = op.target /\ op'.cur = op.cur
        /\ op'.phase = "end" /\ op'.temp = TempAfter(c)
    BY <2>1 DEF RegistryInv, TypeOK
  <2>3. op.target = c /\ c \in Registered
    BY <1>1, <2>1, <2>2, Parameters DEF OnTarget, RegistryInv, OperationOnRegistered
  <2>4. TempAfter(c) = NextRecord(c)
    BY <2>2, <2>3 DEF TempAfter
  <2>5. Position(c) \in 1..Len(gpioList) /\ gpioList[Position(c)] = c
    BY <1>1, <2>3, PositionIsThere
  <2>6. NextRecord(c) \notin {c, Dangling}
    <3>1. CASE Position(c) < Len(gpioList)
      <4>1. Position(c) + 1 \in 1..Len(gpioList) /\ Position(c) + 1 # Position(c)
        BY <1>1, <2>5, <3>1, LenProperties
      <4>2. DOMAIN gpioList = 1..Len(gpioList)
        BY <1>1, LenProperties
      <4>3. gpioList[Position(c) + 1] \in Channel
        BY <1>1, <4>1, ElementOfSeq
      <4>4. gpioList[Position(c) + 1] # c
        BY <1>1, <2>5, <4>1, <4>2 DEF IsInjective
      <4> QED BY <3>1, <4>3, <4>4, Parameters DEF NextRecord
    <3>2. CASE ~(Position(c) < Len(gpioList))
      BY <3>2, Parameters DEF NextRecord
    <3> QED BY <3>1, <3>2
  <2> QED BY <2>1, <2>2, <2>3, <2>4, <2>6
<1>7. CASE RemoveFree
  <2>1. PICK c \in Channel :
          /\ op.cur = c /\ op.phase = "end"
          /\ LET next == IF op.temp = c THEN Dangling ELSE op.temp
             IN op' = IF op.kind = "remove" THEN NoOp
                      ELSE [op EXCEPT !.phase = "begin", !.cur = next, !.temp = next]
    BY <1>7 DEF RemoveFree
  <2>2. /\ op.kind # "remove" /\ op'.kind = op.kind /\ op'.target = op.target /\ op'.phase = "begin"
        /\ op'.cur = op'.temp
        /\ op'.cur = IF op.temp = c THEN Dangling ELSE op.temp
    BY <2>1 DEF NoOp, RegistryInv, TypeOK
  <2>3. op.temp # c /\ op.temp # Dangling
    BY <2>1, <2>2 DEF OnTarget
  <2> QED BY <1>2, <2>2, <2>3
<1> QED BY <1>3, <1>4, <1>5, <1>6, <1>7, OperationsExclude

\* Whatever the program, a freed or NULL pointer is dereferenced only after a removal
\* that overlapped the handling of an event, or a cleanup(channel) that went on to
\* another channel: nothing else that interleaves, no failing call, callback, wait
\* or second thread, is a way to it.
THEOREM OnlyRacesFault == RaceSpec => []FaultsAreRaces
<1>1. RaceInit => Unraced
  BY DEF RaceInit, Init, Unraced, Race, Overlap, Strayed, Idle, NoOp, PointersGood, OnTarget
<1>2. RegistryInv /\ RegistryInv' /\ CleanupInOrder /\ Unraced /\ [RaceNext]_<<vars, raced>> => Unraced'
  <2> SUFFICES ASSUME RegistryInv, RegistryInv', CleanupInOrder, Unraced, [RaceNext]_<<vars, raced>>, ~raced'
               PROVE  ~Race' /\ PointersGood' /\ OnTarget'
    BY DEF Unraced
  <2>1. CASE UNCHANGED <<vars, raced>>
    BY <2>1 DEF vars, Unraced, Race, Overlap, Strayed, Handles, Idle, Registered, PointersGood, OnTarget
  <2>2. CASE RaceNext
    <3>1. [Next]_vars /\ ~raced /\ ~Race' /\ ~Race /\ PointersGood /\ OnTarget
      BY <2>2 DEF RaceNext, Unraced
    <3>2. PointersGood'
      BY <3>1, PollPointers, OthersPointers, OperationPointers DEF Race
    <3>3. OnTarget'
      BY <3>1, TargetStep DEF Race
    <3> QED BY <3>1, <3>2, <3>3
  <2> QED BY <2>1, <2>2
<1>3. Unraced => FaultsAreRaces
  BY DEF Unraced, PointersGood, FaultsAreRaces
<1>4. RaceSpec => Spec
  <2>1. RaceInit => Init
    BY DEF RaceInit
  <2>2. [RaceNext]_<<vars, raced>> => [Next]_vars
    BY DEF RaceNext, vars
  <2> QED BY <2>1, <2>2, PTL DEF RaceSpec, Spec
<1>5. Init => CleanupInOrder
  BY DEF Init, CleanupInOrder, CleansAll, NoOp
<1>6. RegistryInv /\ CleanupInOrder /\ [Next]_vars => CleanupInOrder'
  BY InOrderStep
<1> QED BY <1>1, <1>2, <1>3, <1>4, <1>5, <1>6, RegistryInvariant, PTL DEF Spec, RaceSpec

-----------------------------------------------------------------------------
(* Quiet programs.                                                         *)

\* A program that removes channels only while the poll threads sit in epoll_wait
\* with nothing to report, calls no cleanup(channel), and whose arming succeeds
\* or fails at once.
QuietProgram == Quiet /\ "addFails" \notin Ops /\ "cleanup" \notin Ops

\* A poll thread that is there to serve.
Lives(t) == /\ pc[t] \notin {"none", "start", "exit"}
            /\ pc[t] = "blocked" => epoll[ptr[t]].open
Armed == \E c \in Registered : rec[c].threadAdded

\* What is watched is open, and nothing is watched by an instance that was closed.
WatchedIsOpen ==
  /\ \A e \in Ep : /\ epoll[e].ready \subseteq epoll[e].fds
                   /\ \A f \in epoll[e].fds : valueFile[f] # Null
                   /\ ~epoll[e].open => epoll[e].fds = {}
  /\ epfdThread # 0 => epoll[epfdThread].open
  /\ epfdBlocking # 0 => epoll[epfdBlocking].open

\* A thread that serves is on the instance there is, and was not told to end;
\* its pointer is good.
ServesOrSleeps ==
  \A t \in Thread :
    /\ pc[t] # "exit"
    /\ pc[t] \in {"use", "first", "walk", "call"} => ptr[t] # Dangling
    /\ pc[t] \in {"read", "lookup"} => valueFile[ptr[t]] # Null
    /\ pc[t] = "start" \/ Lives(t) => epfdThread # 0
    /\ Lives(t) => threadRunning
    /\ pc[t] = "blocked" /\ epoll[ptr[t]].open => ptr[t] = epfdThread

SomeServes ==
  /\ threadRunning => \E t \in Thread : Lives(t)
  /\ Armed => \E t \in Thread : Lives(t) \/ pc[t] = "start"

Unhurried ==
  /\ ~fault
  /\ ~Idle => Settled
  /\ op.kind = "cleanup" => op.target = "all"

QuietInv == WatchedIsOpen /\ ServesOrSleeps /\ SomeServes /\ Unhurried

LEMMA QuietTypes ==
  ASSUME RegistryInv
  PROVE  /\ pc \in [Thread -> Locals] /\ epfdThread \in Ep \cup {0} /\ epfdBlocking \in Ep \cup {0}
         /\ 0 \notin Ep
         /\ valueFile \in [Fd -> Channel \cup {Null}]
         /\ epoll \in [Ep -> [open : BOOLEAN, fds : SUBSET Fd, ready : SUBSET Fd]]
         /\ \A t \in Thread : PointsTo(pc[t], ptr[t]) /\ (pc[t] = "blocked" => ptr[t] \in Ep)
         /\ rec \in [Channel -> Record] /\ Registered \subseteq Channel
BY RegisteredAreChannels DEF RegistryInv, TypeOK, PointsTo, Ep

\* The instances report or watch no more than before.
Narrowed ==
  \A e \in Ep : /\ epoll'[e].open = epoll[e].open
                /\ epoll'[e].fds \subseteq epoll[e].fds
                /\ epoll'[e].ready \subseteq epoll[e].ready
                /\ epoll'[e].ready \subseteq epoll'[e].fds

\* Nothing happens to the threads.
LEMMA QuietNarrows ==
  ASSUME RegistryInv, QuietInv, UNCHANGED <<epfdThread, epfdBlocking, threadRunning, pc, ptr, fault>>,
         Narrowed, \A e \in Ep : \A f \in epoll'[e].fds : valueFile'[f] # Null,
         \A t \in Thread : pc[t] \in {"read", "lookup"} => valueFile'[ptr[t]] # Null,
         Armed' => Armed, op' = NoOp \/ Settled,
         op'.kind = "cleanup" => op'.target = "all"
  PROVE  QuietInv'
<1>1. \A t \in Thread : pc[t] = "blocked" => ptr[t] \in Ep /\ epoll'[ptr[t]].open = epoll[ptr[t]].open
  BY QuietTypes DEF Narrowed
<1>2. \A t \in Thread : Lives(t)' <=> Lives(t)
  BY <1>1 DEF Lives
<1>3. WatchedIsOpen'
  BY QuietTypes DEF QuietInv, WatchedIsOpen, Narrowed
<1>4. ServesOrSleeps'
  BY <1>1, <1>2 DEF QuietInv, ServesOrSleeps
<1>5. SomeServes'
  BY <1>2 DEF QuietInv, SomeServes
<1>6. Settled => Settled'
  <2> SUFFICES ASSUME Settled, NEW t \in Thread
               PROVE  pc[t] = "none" \/ (pc[t] = "blocked" /\ epoll'[ptr[t]].ready = {})
    BY DEF Settled
  <2> QED BY <1>1 DEF Settled, Narrowed
<1>7. Unhurried'
  BY <1>6 DEF QuietInv, Unhurried, Idle, NoOp
<1> QED BY <1>3, <1>4, <1>5, <1>7 DEF QuietInv

\* Nothing happens to the threads and instances.
LEMMA QuietFrame ==
  ASSUME RegistryInv, QuietInv,
         UNCHANGED <<epfdThread, epfdBlocking, epoll, threadRunning, pc, ptr, fault>>,
         \A f \in Fd : valueFile[f] # Null => valueFile'[f] # Null,
         Armed' => Armed, op' = NoOp \/ Settled,
         op'.kind = "cleanup" => op'.target = "all"
  PROVE  QuietInv'
<1>1. Narrowed
  BY DEF Narrowed, QuietInv, WatchedIsOpen
<1>2. \A e \in Ep : \A f \in epoll'[e].fds : valueFile'[f] # Null
  BY QuietTypes DEF QuietInv, WatchedIsOpen
<1>3. \A t \in Thread : pc[t] \in {"read", "lookup"} => valueFile'[ptr[t]] # Null
  BY QuietTypes DEF QuietInv, ServesOrSleeps, PointsTo
<1> QED BY <1>1, <1>2, <1>3, QuietNarrows

\* Where a channel was registered or found, no armed one was added.
LEMMA NotMoreArmed ==
  ASSUME RegistryInv, NEW c \in Channel, Registers(c), rec'[c].threadAdded => c \in Registered /\ rec[c].threadAdded
  PROVE  Armed' => Armed
<1>1. \A d \in Registered : d # c => rec'[d] = rec[d]
  BY QuietTypes DEF Registers
<1> QED BY <1>1 DEF Registers, Armed

LEMMA ValueFilesGrow ==
  ASSUME NEW c \in Channel, Registers(c)
  PROVE  /\ \A f \in Fd : valueFile[f] # Null => valueFile'[f] # Null
         /\ rec'[c].fd \in Fd /\ valueFile'[rec'[c].fd] # Null
BY Parameters DEF Registers

\* A record that was looked up, or made without arming it, is not armed by that.
LEMMA NotAdded ==
  ASSUME RegistryInv, NEW c \in Channel, NEW e \in Edges, NEW b \in BounceTimes,
         Obtain(c, e, b, FALSE) \/ WaitRecord(c, e, b)
  PROVE  rec'[c].threadAdded => c \in Registered /\ rec[c].threadAdded
<1>1. rec \in [Channel -> Record]
  BY QuietTypes
<1>2. CASE EdgeAdded(c) = "none" /\ NewGpio(c, e, b, FALSE)
  BY <1>1, <1>2 DEF NewGpio, NewRecord
<1>3. CASE rec' = [rec EXCEPT ![c].threadAdded = FALSE]
  BY <1>1, <1>3 DEF Record
<1>4. CASE /\ EdgeAdded(c) # "none"
           /\ UNCHANGED rec \/ rec' = [rec EXCEPT ![c].edge = e, ![c].bouncetime = b]
  <2>1. rec'[c].threadAdded = rec[c].threadAdded
    BY <1>1, <1>4 DEF Record
  <2> QED BY <1>4, <2>1 DEF EdgeAdded
<1>5. \/ EdgeAdded(c) = "none" /\ NewGpio(c, e, b, FALSE)
      \/ rec' = [rec EXCEPT ![c].threadAdded = FALSE]
      \/ EdgeAdded(c) = e /\ UNCHANGED rec
      \/ EdgeAdded(c) \notin {"none", e} /\ rec' = [rec EXCEPT ![c].edge = e, ![c].bouncetime = b]
  BY DEF Obtain, WaitRecord
<1> QED BY <1>2, <1>3, <1>4, <1>5, Parameters

\* A descriptor is added to the instance in fd, or to a new one.
LEMMA WatchKeepsQuiet ==
  ASSUME RegistryInv, QuietInv, NEW fd \in {epfdThread, epfdBlocking}, NEW ep \in EpollFor(fd),
         NEW f \in Fd, valueFile'[f] # Null,
         \A h \in Fd : valueFile[h] # Null => valueFile'[h] # Null,
         epoll' = Watched(Created(epoll, ep), ep, f)
  PROVE  /\ ep \in Ep /\ epoll'[ep].open
         /\ \A e \in Ep : /\ epoll'[e].ready \subseteq epoll'[e].fds
                          /\ \A h \in epoll'[e].fds : valueFile'[h] # Null
                          /\ ~epoll'[e].open => epoll'[e].fds = {}
                          /\ epoll[e].open => epoll'[e].open
         /\ \A t \in Thread : pc[t] = "blocked" => epoll'[ptr[t]].open = epoll[ptr[t]].open
         /\ fd = 0 => \A t \in Thread : ~(pc[t] = "blocked" /\ ptr[t] = ep)
<1>1. epoll \in [Ep -> [open : BOOLEAN, fds : SUBSET Fd, ready : SUBSET Fd]] /\ 0 \notin Ep /\ fd \in Ep \cup {0}
  BY QuietTypes
<1>2. ep \in Ep /\ (fd # 0 => ep = fd /\ epoll[ep].open) /\ (fd = 0 => ep \in FreeEps)
  BY <1>1 DEF EpollFor, FreeEps, QuietInv, WatchedIsOpen
<1>3. \E old \in {epoll[ep], NoEpoll} :
        /\ epoll' = [Created(epoll, ep) EXCEPT
                        ![ep] = [open |-> TRUE, fds |-> @.fds \cup {f}, ready |-> @.ready \cup {f}]]
        /\ Created(epoll, ep)[ep] = [old EXCEPT !.open = TRUE]
        /\ \A e \in Ep \ {ep} : Created(epoll, ep)[e] = epoll[e]
        /\ Created(epoll, ep) \in [Ep -> [open : BOOLEAN, fds : SUBSET Fd, ready : SUBSET Fd]]
  <2>1. Created(epoll, ep) \in [Ep -> [open : BOOLEAN, fds : SUBSET Fd, ready : SUBSET Fd]]
    BY <1>1, EpollTypes DEF RegistryInv
  <2>2. CASE epoll[ep].open
    <3>1. epoll[ep] = [epoll[ep] EXCEPT !.open = TRUE]
      BY <1>1, <1>2, <2>2
    <3> QED BY <2>1, <2>2, <3>1 DEF Watched, Created
  <2>3. CASE ~epoll[ep].open
    BY <1>1, <1>2, <2>1, <2>3 DEF Watched, Created
  <2> QED BY <2>2, <2>3
<1>4. PICK old \in {epoll[ep], NoEpoll} :
        /\ epoll'[ep].open /\ epoll'[ep].fds = old.fds \cup {f} /\ epoll'[ep].ready = old.ready \cup {f}
        /\ \A e \in Ep \ {ep} : epoll'[e] = epoll[e]
  BY <1>1, <1>2, <1>3 DEF NoEpoll
<1>5. old.fds \subseteq Fd /\ old.ready \subseteq old.fds /\ \A h \in old.fds : valueFile[h] # Null
  BY <1>1, <1>2, <1>4 DEF NoEpoll, QuietInv, WatchedIsOpen
<1>6. \A e \in Ep : /\ epoll'[e].ready \subseteq epoll'[e].fds
                    /\ \A h \in epoll'[e].fds : valueFile'[h] # Null
                    /\ ~epoll'[e].open => epoll'[e].fds = {}
                    /\ epoll[e].open => epoll'[e].open
  <2> SUFFICES ASSUME NEW e \in Ep
               PROVE  /\ epoll'[e].ready \subseteq epoll'[e].fds
                      /\ \A h \in epoll'[e].fds : valueFile'[h] # Null
                      /\ ~epoll'[e].open => epoll'[e].fds = {}
                      /\ epoll[e].open => epoll'[e].open
    OBVIOUS
  <2>1. CASE e = ep
    BY <1>4, <1>5, <2>1
  <2>2. CASE e # ep
    <3>1. epoll'[e] = epoll[e] /\ epoll[e].fds \subseteq Fd
      BY <1>1, <1>4, <2>2
    <3> QED BY <3>1 DEF QuietInv, WatchedIsOpen
  <2> QED BY <2>1, <2>2
<1>7. fd = 0 => \A t \in Thread : ~(pc[t] = "blocked" /\ ptr[t] = ep)
  BY <1>2 DEF FreeEps, Waited
<1>8. ASSUME NEW t \in Thread, pc[t] = "blocked" PROVE epoll'[ptr[t]].open = epoll[ptr[t]].open
  <2>1. ptr[t] \in Ep
    BY <1>8, QuietTypes
  <2>2. CASE ptr[t] = ep
    BY <1>1, <1>2, <1>4, <1>7, <1>8, <2>2
  <2>3. CASE ptr[t] # ep
    BY <1>4, <2>1, <2>3
  <2> QED BY <2>2, <2>3
<1> QED BY <1>2, <1>4, <1>6, <1>7, <1>8

LEMMA InitQuiet == Init => QuietInv
<1> SUFFICES ASSUME Init PROVE QuietInv
  OBVIOUS
<1>1. Registered = {}
  BY DEF Init, Registered, ToSet
<1>2. WatchedIsOpen /\ ServesOrSleeps
  BY Parameters DEF Init, WatchedIsOpen, ServesOrSleeps, NoEpoll, Lives, Ep, Fd
<1>3. SomeServes /\ Unhurried
  BY <1>1 DEF Init, SomeServes, Armed, Unhurried, Idle, NoOp
<1> QED BY <1>2, <1>3 DEF QuietInv

\* add_edge_detect: a thread is there, or a new one starts.
LEMMA AddEdgeDetectQuiet ==
  ASSUME RegistryInv, QuietInv, NEW a, NEW c \in Channel, NEW e \in Edges, NEW b \in BounceTimes,
         AddEdgeDetect(a, c, e, b)
  PROVE  QuietInv'
<1>1. Idle /\ Registers(c) /\ UNCHANGED <<threadRunning, epfdBlocking, ptr, op, fault>>
  BY ObtainRegisters DEF AddEdgeDetect, CanCall
<1>2. PICK ep \in EpollFor(epfdThread) :
        epfdThread' = ep /\ epoll' = Watched(Created(epoll, ep), ep, rec'[c].fd)
  BY DEF AddEdgeDetect
<1>3. /\ \A f \in Fd : valueFile[f] # Null => valueFile'[f] # Null
      /\ rec'[c].fd \in Fd /\ valueFile'[rec'[c].fd] # Null
  BY <1>1, ValueFilesGrow
<1>4. /\ ep \in Ep /\ epoll'[ep].open
      /\ \A g \in Ep : /\ epoll'[g].ready \subseteq epoll'[g].fds
                       /\ \A h \in epoll'[g].fds : valueFile'[h] # Null
                       /\ ~epoll'[g].open => epoll'[g].fds = {}
                       /\ epoll[g].open => epoll'[g].open
      /\ \A t \in Thread : pc[t] = "blocked" => epoll'[ptr[t]].open = epoll[ptr[t]].open
      /\ epfdThread = 0 => \A t \in Thread : ~(pc[t] = "blocked" /\ ptr[t] = ep)
  BY <1>2, <1>3, WatchKeepsQuiet
<1>5. ep # 0 /\ (epfdThread # 0 => ep = epfdThread)
  BY <1>2, <1>4, QuietTypes DEF EpollFor
<1>6. WatchedIsOpen'
  BY <1>1, <1>2, <1>4, QuietTypes DEF QuietInv, WatchedIsOpen
<1>7. /\ threadRunning => pc' = pc
      /\ ~threadRunning => \E t \in Thread : pc[t] = "none" /\ pc' = [pc EXCEPT ![t] = "start"]
  BY DEF AddEdgeDetect, StartPoller
<1>8. /\ \A t \in Thread : pc'[t] = pc[t] \/ (pc[t] = "none" /\ pc'[t] = "start")
      /\ threadRunning \/ \E t \in Thread : pc'[t] = "start"
  BY <1>7, QuietTypes
<1>9. \A t \in Thread : Lives(t)' <=> Lives(t)
  BY <1>1, <1>4, <1>8 DEF Lives
<1>10. ServesOrSleeps'
  <2>1. ASSUME NEW t \in Thread, pc'[t] = "blocked", epoll'[ptr'[t]].open PROVE ptr'[t] = epfdThread'
    <3>1. pc[t] = "blocked" /\ ptr'[t] = ptr[t] /\ epoll[ptr[t]].open
      BY <1>1, <1>4, <1>8, <2>1
    <3>2. Lives(t)
      BY <3>1 DEF Lives
    <3> QED BY <1>2, <1>5, <3>1, <3>2 DEF QuietInv, ServesOrSleeps
  <2>2. ASSUME NEW t \in Thread, pc'[t] \in {"read", "lookup"} PROVE valueFile'[ptr'[t]] # Null
    <3>1. pc[t] \in {"read", "lookup"} /\ ptr'[t] = ptr[t] /\ ptr[t] \in Fd
      BY <1>1, <1>8, <2>2, QuietTypes DEF PointsTo
    <3> QED BY <1>3, <3>1 DEF QuietInv, ServesOrSleeps
  <2>3. \A t \in Thread : /\ pc'[t] # "exit"
                          /\ pc'[t] \in {"use", "first", "walk", "call"} => ptr'[t] # Dangling
                          /\ Lives(t)' => threadRunning'
    BY <1>1, <1>8, <1>9 DEF QuietInv, ServesOrSleeps
  <2>4. epfdThread' # 0
    BY <1>2, <1>5
  <2> QED BY <2>1, <2>2, <2>3, <2>4 DEF ServesOrSleeps
<1>11. SomeServes'
  BY <1>1, <1>8, <1>9 DEF QuietInv, SomeServes
<1>12. Unhurried'
  BY <1>1 DEF QuietInv, Unhurried, Idle, NoOp
<1> QED BY <1>6, <1>10, <1>11, <1>12 DEF QuietInv

\* wait_for_edge watches the channel on the other instance.
LEMMA WaitForEdgeQuiet ==
  ASSUME RegistryInv, QuietInv, NEW c \in Channel, NEW e \in Edges, NEW b \in BounceTimes,
         WaitForEdge(c, e, b)
  PROVE  QuietInv'
<1>1. Idle /\ Registers(c) /\ UNCHANGED <<threadRunning, epfdThread, pc, ptr, op, fault>>
  BY WaitRecordRegisters DEF WaitForEdge, CanCall, threadVars
<1>2. PICK ep \in EpollFor(epfdBlocking) :
        epfdBlocking' = ep /\ epoll' = Watched(Created(epoll, ep), ep, rec'[c].fd)
  BY DEF WaitForEdge
<1>3. /\ \A f \in Fd : valueFile[f] # Null => valueFile'[f] # Null
      /\ rec'[c].fd \in Fd /\ valueFile'[rec'[c].fd] # Null
  BY <1>1, ValueFilesGrow
<1>4. /\ ep \in Ep /\ epoll'[ep].open
      /\ \A g \in Ep : /\ epoll'[g].ready \subseteq epoll'[g].fds
                       /\ \A h \in epoll'[g].fds : valueFile'[h] # Null
                       /\ ~epoll'[g].open => epoll'[g].fds = {}
                       /\ epoll[g].open => epoll'[g].open
      /\ \A t \in Thread : pc[t] = "blocked" => epoll'[ptr[t]].open = epoll[ptr[t]].open
  BY <1>2, <1>3, WatchKeepsQuiet
<1>5. WatchedIsOpen'
  BY <1>1, <1>2, <1>4, QuietTypes DEF QuietInv, WatchedIsOpen
<1>6. \A t \in Thread : Lives(t)' <=> Lives(t)
  BY <1>1, <1>4 DEF Lives
<1>7. ServesOrSleeps'
  BY <1>1, <1>3, <1>4, <1>6, QuietTypes DEF QuietInv, ServesOrSleeps, PointsTo
<1>8. Armed' => Armed
  <2> QED BY <1>1, NotAdded, NotMoreArmed DEF WaitForEdge
<1>9. SomeServes' /\ Unhurried'
  BY <1>1, <1>6, <1>8 DEF QuietInv, SomeServes, Unhurried, Idle, NoOp
<1> QED BY <1>5, <1>7, <1>9 DEF QuietInv

\* The operations that change neither threads nor instances.
LEMMA NoEpollQuiet ==
  ASSUME RegistryInv, QuietInv, NEW a, NEW c \in Channel, NEW e \in Edges, NEW b \in BounceTimes,
         AddNoEpoll(a, c, e, b) \/ WaitNoEpoll(c, e, b)
  PROVE  QuietInv'
<1>1. UNCHANGED <<epfdThread, epfdBlocking, epoll, threadRunning, pc, ptr, op, fault>> /\ Idle
  BY DEF AddNoEpoll, WaitNoEpoll, threadVars, CanCall
<1>2. Registers(c)
  BY <1>1, ObtainRegisters, WaitRecordRegisters DEF AddNoEpoll, WaitNoEpoll
<1>3. rec'[c].threadAdded => c \in Registered /\ rec[c].threadAdded
  BY NotAdded DEF AddNoEpoll, WaitNoEpoll
<1>4. Armed' => Armed
  BY <1>2, <1>3, NotMoreArmed
<1>5. \A f \in Fd : valueFile[f] # Null => valueFile'[f] # Null
  BY <1>2, ValueFilesGrow
<1>6. op' = NoOp /\ op'.kind # "cleanup"
  BY <1>1 DEF Idle, NoOp
<1> QED BY <1>1, <1>4, <1>5, <1>6, QuietFrame

LEMMA CallQuiet ==
  ASSUME RegistryInv, QuietInv, NEW a, NEW c, AddEdgeCallback(a, c) \/ EventDetected(a, c)
  PROVE  QuietInv'
<1>1. /\ UNCHANGED <<epfdThread, epfdBlocking, epoll, threadRunning, pc, ptr, fault>>
      /\ UNCHANGED <<gpioList, rec, valueFile, op>> /\ Idle
  BY DEF AddEdgeCallback, EventDetected, kernelVars, listVars, threadVars, CanCall
<1>2. Armed' => Armed
  BY <1>1 DEF Armed, Registered
<1>3. op' = NoOp /\ op'.kind # "cleanup"
  BY <1>1 DEF Idle, NoOp
<1> QED BY <1>1, <1>2, <1>3, QuietFrame

LEMMA RemovalQuiet ==
  ASSUME RegistryInv, QuietInv, QuietProgram, NEW a \in Thread \cup {Main}, NEW c,
         RemoveEdgeDetect(a, c) \/ Cleanup(a, c)
  PROVE  QuietInv'
<1>1. /\ UNCHANGED <<epfdThread, epfdBlocking, epoll, threadRunning, pc, ptr, fault>>
      /\ UNCHANGED <<gpioList, rec, valueFile>> /\ Settled
  BY DEF RemoveEdgeDetect, Cleanup, kernelVars, listVars, threadVars, QuietProgram
<1>2. op'.kind = "cleanup" => op'.target = "all"
  <2>1. OpsOf(a) \subseteq Ops
    BY Parameters DEF OpsOf
  <2> QED BY <2>1 DEF RemoveEdgeDetect, Cleanup, NoOp, QuietProgram
<1>3. Armed' => Armed
  BY <1>1 DEF Armed, Registered
<1> QED BY <1>1, <1>2, <1>3, QuietFrame

\* A poll thread goes on to a place where its pointer is good.
Moves(t, l, p) ==
  /\ Goto(t, l, p) /\ OthersUnchanged /\ UNCHANGED fault
  /\ l = "blocked" => p = epfdThread
  /\ l \in {"read", "lookup"} => p \in Fd /\ valueFile[p] # Null
  /\ l \in {"use", "first", "walk", "call"} => p # Dangling

LEMMA PollMoves ==
  ASSUME RegistryInv, QuietInv, NEW t \in Thread, NEW l \in Locals \ {"none", "start", "exit"}, NEW p,
         Moves(t, l, p), Idle, pc[t] = "start" \/ Lives(t), threadRunning', Narrowed,
         \A c \in Channel : rec'[c].threadAdded = rec[c].threadAdded
  PROVE  QuietInv'
<1>1. \A u \in Thread : /\ pc'[u] = IF u = t THEN l ELSE pc[u]
                        /\ u # t => ptr'[u] = ptr[u]
                        /\ u = t => ptr'[u] = p
  BY DEF Moves, Goto, RegistryInv, TypeOK
<1>2. UNCHANGED <<gpioList, callbacks, epfdThread, epfdBlocking, valueFile, op, wait, fault>>
  BY DEF Moves, OthersUnchanged
<1>3. epfdThread # 0 /\ epfdThread \in Ep /\ epoll[epfdThread].open
  BY QuietTypes DEF QuietInv, ServesOrSleeps, WatchedIsOpen
<1>4. Lives(t)'
  BY <1>1, <1>3 DEF Lives, Narrowed, Moves
<1>5. \A u \in Thread \ {t} : Lives(u)' <=> Lives(u)
  <2> SUFFICES ASSUME NEW u \in Thread \ {t} PROVE Lives(u)' <=> Lives(u)
    OBVIOUS
  <2>1. pc'[u] = pc[u] /\ ptr'[u] = ptr[u] /\ (pc[u] = "blocked" => ptr[u] \in Ep)
    BY <1>1, QuietTypes
  <2> QED BY <2>1 DEF Lives, Narrowed
<1>6. WatchedIsOpen'
  BY <1>2, QuietTypes DEF QuietInv, WatchedIsOpen, Narrowed
<1>7. ServesOrSleeps'
  <2>1. ASSUME NEW u \in Thread \ {t}, pc'[u] = "blocked", epoll'[ptr'[u]].open PROVE ptr'[u] = epfdThread'
    <3>1. pc[u] = "blocked" /\ ptr'[u] = ptr[u] /\ ptr[u] \in Ep
      BY <1>1, <2>1, QuietTypes
    <3> QED BY <1>2, <2>1, <3>1 DEF Narrowed, QuietInv, ServesOrSleeps
  <2>2. \A u \in Thread \ {t} :
          /\ pc'[u] # "exit"
          /\ pc'[u] \in {"use", "first", "walk", "call"} => ptr'[u] # Dangling
          /\ pc'[u] \in {"read", "lookup"} => valueFile'[ptr'[u]] # Null
    BY <1>1, <1>2 DEF QuietInv, ServesOrSleeps
  <2>3. /\ pc'[t] # "exit"
        /\ pc'[t] \in {"use", "first", "walk", "call"} => ptr'[t] # Dangling
        /\ pc'[t] \in {"read", "lookup"} => valueFile'[ptr'[t]] # Null
        /\ pc'[t] = "blocked" => ptr'[t] = epfdThread'
    BY <1>1, <1>2 DEF Moves
  <2> QED BY <1>2, <1>3, <2>1, <2>2, <2>3 DEF ServesOrSleeps
<1>8. SomeServes' /\ Unhurried'
  BY <1>2, <1>4 DEF QuietInv, SomeServes, Unhurried, Idle, NoOp
<1> QED BY <1>6, <1>7, <1>8 DEF QuietInv

\* A poll thread of a quiet program never crashes and never ends.
LEMMA PollQuiet ==
  ASSUME RegistryInv, QuietInv, NEW t \in Thread, PollStep(t)
  PROVE  QuietInv'
<1> DEFINE p == ptr[t]
<1>1. /\ pc \in [Thread -> Locals] /\ PointsTo(pc[t], p) /\ rec \in [Channel -> Record]
      /\ Registered \subseteq Channel /\ 0 \notin Ep
  BY QuietTypes
<1>2. /\ pc[t] # "exit"
      /\ pc[t] \in {"use", "first", "walk", "call"} => p # Dangling
      /\ pc[t] \in {"read", "lookup"} => valueFile[p] # Null
      /\ pc[t] = "start" \/ Lives(t) => epfdThread # 0
      /\ Lives(t) => threadRunning
  BY DEF QuietInv, ServesOrSleeps
<1>3. pc[t] \notin {"none", "start", "exit", "blocked"} => Lives(t)
  BY DEF Lives
<1>4. pc[t] \notin {"none", "blocked"} => Idle
  BY DEF QuietInv, Unhurried, Settled
<1>5. UNCHANGED epoll => Narrowed
  BY DEF Narrowed, QuietInv, WatchedIsOpen
<1>6. UNCHANGED rec => \A c \in Channel : rec'[c].threadAdded = rec[c].threadAdded
  OBVIOUS
<1>7. \A k : NextCell(callbacks, k) # Dangling
  <2>1. \A k : NextCell(callbacks, k) \in Cell \cup {0}
    BY NextCellIsCell
  <2> QED BY <2>1, Parameters DEF Cell
<1> HIDE DEF p
<1>8. CASE PollStart(t)
  <2>1. Moves(t, "test", 0) /\ threadRunning' /\ UNCHANGED <<epoll, rec>> /\ pc[t] = "start"
    BY <1>8 DEF PollStart, Moves
  <2> QED BY <1>4, <1>5, <1>6, <2>1, PollMoves DEF Locals
<1>9. CASE PollTest(t)
  <2>1. pc[t] = "test" /\ Lives(t) /\ threadRunning /\ Idle
    BY <1>2, <1>3, <1>4, <1>9 DEF PollTest
  <2>2. Moves(t, "wait", 0) /\ threadRunning' /\ UNCHANGED <<epoll, rec>>
    BY <1>9, <2>1 DEF PollTest, Moves
  <2> QED BY <1>5, <1>6, <2>1, <2>2, PollMoves DEF Locals
<1>10. CASE PollWait(t)
  <2>1. pc[t] = "wait" /\ Lives(t) /\ threadRunning /\ Idle /\ epfdThread # 0
    BY <1>2, <1>3, <1>4, <1>10 DEF PollWait
  <2>2. Moves(t, "blocked", epfdThread) /\ threadRunning' /\ UNCHANGED <<epoll, rec>>
    BY <1>10, <2>1 DEF PollWait, Moves
  <2> QED BY <1>5, <1>6, <2>1, <2>2, PollMoves DEF Locals
<1>11. CASE PollReport(t)
  <2>1. PICK f \in epoll[p].ready : epoll' = Reported(epoll, p, f) /\ Goto(t, "read", f)
    BY <1>11 DEF PollReport, p
  <2>2. pc[t] = "blocked" /\ p \in Ep
    BY <1>11, QuietTypes DEF PollReport, p
  <2>3. /\ epoll \in [Ep -> [open : BOOLEAN, fds : SUBSET Fd, ready : SUBSET Fd]]
        /\ \A e \in Ep : epoll[e].ready \subseteq epoll[e].fds
        /\ \A g \in epoll[p].fds : valueFile[g] # Null
        /\ ~epoll[p].open => epoll[p].fds = {}
    BY <2>2, QuietTypes DEF QuietInv, WatchedIsOpen
  <2>4. f \in Fd /\ valueFile[f] # Null /\ Lives(t)
    BY <2>1, <2>2, <2>3 DEF Lives, p
  <2>5. Idle
    BY <2>1, <2>2 DEF QuietInv, Unhurried, Settled, p
  <2>6. Narrowed
    BY <2>1, <2>3 DEF Narrowed, Reported
  <2>7. Moves(t, "read", f) /\ threadRunning' /\ UNCHANGED rec
    BY <1>2, <1>11, <2>1, <2>4 DEF PollReport, Moves
  <2> QED BY <1>6, <2>4, <2>5, <2>6, <2>7, PollMoves DEF Locals
<1>12. CASE PollRead(t)
  <2>1. pc[t] = "read" /\ Lives(t) /\ threadRunning /\ Idle /\ valueFile[p] # Null /\ p \in Fd
    BY <1>1, <1>2, <1>3, <1>4, <1>12 DEF PollRead, PointsTo
  <2>2. Moves(t, "lookup", p) /\ threadRunning' /\ UNCHANGED <<epoll, rec>>
    BY <1>12, <2>1 DEF PollRead, Moves, p
  <2> QED BY <1>5, <1>6, <2>1, <2>2, PollMoves DEF Locals
<1>13. CASE PollLookup(t)
  <2>1. pc[t] = "lookup" /\ Lives(t) /\ threadRunning /\ Idle /\ valueFile[p] # Null /\ p \in Fd
    BY <1>1, <1>2, <1>3, <1>4, <1>13 DEF PollLookup, PointsTo
  <2>2. valueFile[p] \in Registered /\ rec[valueFile[p]].fd = p
    BY <2>1 DEF RegistryInv, RegistryMatchesKernel
  <2>3. PICK c \in Registered : Goto(t, "use", c) /\ UNCHANGED fault
    BY <1>13, <2>2 DEF PollLookup, p
  <2>4. c # Dangling
    BY <1>1, Parameters
  <2>5. Moves(t, "use", c) /\ threadRunning' /\ UNCHANGED <<epoll, rec>>
    BY <1>13, <2>1, <2>3, <2>4 DEF PollLookup, Moves
  <2> QED BY <1>5, <1>6, <2>1, <2>5, PollMoves DEF Locals
<1>14. CASE PollFirst(t)
  <2>1. pc[t] = "use" /\ Lives(t) /\ threadRunning /\ Idle /\ p # Dangling
    BY <1>2, <1>3, <1>4, <1>14 DEF PollFirst
  <2>2. Moves(t, "first", p) /\ threadRunning' /\ UNCHANGED <<epoll, rec>>
    BY <1>14, <2>1 DEF PollFirst, Moves, p
  <2> QED BY <1>5, <1>6, <2>1, <2>2, PollMoves DEF Locals
<1>15. CASE PollFirstDone(t)
  <2>1. pc[t] = "first" /\ Lives(t) /\ threadRunning /\ Idle /\ p # Dangling
    BY <1>2, <1>3, <1>4, <1>15 DEF PollFirstDone
  <2>2. /\ Moves(t, "test", 0) /\ threadRunning' /\ UNCHANGED epoll
        /\ rec' = [rec EXCEPT ![p].initialThread = FALSE]
    BY <1>15, <2>1 DEF PollFirstDone, Moves, p
  <2>3. \A c \in Channel : rec'[c].threadAdded = rec[c].threadAdded
    BY <1>1, <2>2 DEF Record
  <2> QED BY <1>5, <2>1, <2>2, <2>3, PollMoves DEF Locals
<1>16. CASE PollBounce(t)
  <2>1. pc[t] = "use" /\ Lives(t) /\ threadRunning /\ Idle
    BY <1>2, <1>3, <1>4, <1>16 DEF PollBounce
  <2>2. Moves(t, "test", 0) /\ threadRunning' /\ UNCHANGED <<epoll, rec>>
    BY <1>16, <2>1 DEF PollBounce, Moves
  <2> QED BY <1>5, <1>6, <2>1, <2>2, PollMoves DEF Locals
<1>17. CASE PollDeliver(t)
  <2>1. pc[t] = "use" /\ Lives(t) /\ threadRunning /\ Idle
    BY <1>2, <1>3, <1>4, <1>17 DEF PollDeliver
  <2>2. /\ Moves(t, "walk", NextCell(callbacks, 0)) /\ threadRunning' /\ UNCHANGED epoll
        /\ rec' = [rec EXCEPT ![p].called = TRUE]
    BY <1>7, <1>17, <2>1 DEF PollDeliver, Moves, p
  <2>3. \A c \in Channel : rec'[c].threadAdded = rec[c].threadAdded
    BY <1>1, <2>2 DEF Record
  <2> QED BY <1>5, <2>1, <2>2, <2>3, PollMoves DEF Locals
<1>18. CASE PollWalk(t)
  <2>1. pc[t] = "walk" /\ Lives(t) /\ threadRunning /\ Idle /\ p # Dangling
    BY <1>2, <1>3, <1>4, <1>18 DEF PollWalk
  <2>2. UNCHANGED <<epoll, rec, threadRunning>> /\ OthersUnchanged
    BY <1>18 DEF PollWalk
  <2>3. \/ Goto(t, "test", 0) /\ UNCHANGED fault
        \/ Goto(t, "call", p) /\ UNCHANGED fault
        \/ Goto(t, "walk", NextCell(callbacks, p)) /\ UNCHANGED fault
    BY <1>18, <2>1 DEF PollWalk, p
  <2>4. \/ Moves(t, "test", 0) \/ Moves(t, "call", p) \/ Moves(t, "walk", NextCell(callbacks, p))
    BY <1>7, <2>1, <2>2, <2>3 DEF Moves
  <2> QED BY <1>5, <1>6, <2>1, <2>2, <2>4, PollMoves DEF Locals
<1>19. CASE PollReturn(t)
  <2>1. pc[t] = "call" /\ Lives(t) /\ threadRunning /\ Idle /\ p # Dangling
    BY <1>2, <1>3, <1>4, <1>19 DEF PollReturn
  <2>2. /\ Moves(t, "walk", NextCell(callbacks, p)) /\ threadRunning' /\ UNCHANGED <<epoll, rec>>
    BY <1>7, <1>19, <2>1 DEF PollReturn, Moves, p
  <2> QED BY <1>5, <1>6, <2>1, <2>2, PollMoves DEF Locals
<1>20. ~PollUseFreed(t) /\ ~PollExit(t)
  BY <1>2 DEF PollUseFreed, PollExit, p
<1> QED BY <1>8, <1>9, <1>10, <1>11, <1>12, <1>13, <1>14, <1>15, <1>16, <1>17, <1>18, <1>19, <1>20
        DEF PollStep

\* While an operation is in progress the poll threads sleep, so no pointer dangles.
LEMMA SleepersKeepPointers ==
  ASSUME RegistryInv, QuietInv, ~Idle
  PROVE  /\ Settled
         /\ \A t \in Thread : pc[t] \in {"none", "blocked"}
         /\ op.kind = "cleanup" => op.target = "all"
BY DEF QuietInv, Unhurried, Settled

LEMMA RemoveDisarmQuiet ==
  ASSUME RegistryInv, QuietInv, RemoveDisarm
  PROVE  QuietInv'
<1>1. op.kind \in {"remove", "cleanup"} /\ ~Idle
  BY DEF RemoveDisarm, Idle, NoOp
<1>2. PICK c \in Channel :
        /\ epoll' = Unwatched(epoll, Ep, rec[c].fd)
        /\ ptr' = [t \in Thread |->
                    IF /\ pc[t] \in {"walk", "call"}
                       /\ \E k \in Cell : ptr[t] = k /\ callbacks[k] = c
                    THEN Dangling ELSE ptr[t]]
        /\ valueFile' = CloseValueFile(c)
        /\ rec' = [rec EXCEPT ![c].edge = "none"]
        /\ op' = [op EXCEPT !.phase = "end", !.temp = TempAfter(c)]
  BY DEF RemoveDisarm
<1>3. UNCHANGED <<gpioList, threadRunning, epfdThread, epfdBlocking, pc, fault>>
  BY DEF RemoveDisarm
<1>4. ptr' = ptr
  <2>1. ptr' = [t \in Thread |-> ptr[t]]
    BY <1>1, <1>2, SleepersKeepPointers
  <2> QED BY <2>1 DEF RegistryInv, TypeOK
<1>5. epoll \in [Ep -> [open : BOOLEAN, fds : SUBSET Fd, ready : SUBSET Fd]]
  BY QuietTypes
<1>6. \A e \in Ep : /\ epoll'[e].open = epoll[e].open
                    /\ epoll'[e].fds = epoll[e].fds \ {rec[c].fd}
                    /\ epoll'[e].ready = epoll[e].ready \ {rec[c].fd}
  BY <1>2, <1>5 DEF Unwatched
<1>7. Narrowed
  BY <1>6 DEF Narrowed, QuietInv, WatchedIsOpen
<1>8. \A e \in Ep : \A f \in epoll'[e].fds : valueFile'[f] # Null
  <2>1. \A f \in Fd : f # rec[c].fd => valueFile'[f] = valueFile[f]
    BY <1>2, QuietTypes DEF CloseValueFile
  <2> QED BY <1>5, <1>6, <2>1 DEF QuietInv, WatchedIsOpen
<1>9. \A t \in Thread : pc[t] \notin {"read", "lookup"}
  BY <1>1, SleepersKeepPointers
<1>10. Armed' => Armed
  <2>1. \A d \in Channel : rec'[d].threadAdded = rec[d].threadAdded
    BY <1>2, QuietTypes DEF Record
  <2> QED BY <1>3, <2>1, QuietTypes DEF Armed, Registered
<1>11. op'.kind = op.kind /\ op'.target = op.target
  BY <1>2 DEF RegistryInv, TypeOK
<1> QED BY <1>1, <1>3, <1>4, <1>7, <1>8, <1>9, <1>10, <1>11, SleepersKeepPointers, QuietNarrows

LEMMA RemoveFreeQuiet ==
  ASSUME RegistryInv, QuietInv, RemoveFree
  PROVE  QuietInv'
<1>1. op.phase = "end" /\ ~Idle
  BY DEF RemoveFree, Idle, NoOp
<1>2. PICK c \in Channel :
        /\ op.cur = c
        /\ gpioList' = RemoveAt(gpioList, Position(c))
        /\ rec' = [rec EXCEPT ![c] = NoRec]
        /\ ptr' = [t \in Thread |-> IF pc[t] \in {"use", "first"} /\ ptr[t] = c THEN Dangling ELSE ptr[t]]
        /\ LET next == IF op.temp = c THEN Dangling ELSE op.temp
           IN op' = IF op.kind = "remove" THEN NoOp
                    ELSE [op EXCEPT !.phase = "begin", !.cur = next, !.temp = next]
  BY DEF RemoveFree
<1>3. UNCHANGED <<threadRunning, epfdThread, epfdBlocking, epoll, valueFile, pc, fault>>
  BY DEF RemoveFree, kernelVars
<1>4. ptr' = ptr
  <2>1. ptr' = [t \in Thread |-> ptr[t]]
    BY <1>1, <1>2, SleepersKeepPointers
  <2> QED BY <2>1 DEF RegistryInv, TypeOK
<1>5. Registered' \subseteq Registered
  <2>1. gpioList \in Seq(Channel) /\ IsInjective(gpioList) /\ c \in Registered
    BY <1>1, <1>2 DEF RegistryInv, TypeOK, RegistryMatchesKernel, HalfRemovedIsDisarmed, HalfRemoved
  <2>2. Position(c) \in 1..Len(gpioList)
    BY <2>1, PositionIsThere
  <2>3. ToSet(RemoveAt(gpioList, Position(c))) \subseteq ToSet(gpioList)
    BY <2>1, <2>2, Unlink
  <2> QED BY <1>2, <2>3 DEF Registered
<1>6. Armed' => Armed
  <2>1. ~rec'[c].threadAdded /\ \A d \in Channel \ {c} : rec'[d] = rec[d]
    BY <1>2, QuietTypes DEF NoRec
  <2> QED BY <1>5, <2>1, QuietTypes DEF Armed
<1>7. op' = NoOp \/ (op'.kind = op.kind /\ op'.target = op.target)
  BY <1>2 DEF RegistryInv, TypeOK
<1>8. op'.kind = "cleanup" => op'.target = "all"
  BY <1>1, <1>7, SleepersKeepPointers DEF NoOp
<1> QED BY <1>1, <1>3, <1>4, <1>6, <1>8, SleepersKeepPointers, QuietFrame

\* After the loop no channel is left, and every poll thread is on an instance
\* that was closed: none serves, and thread_running says so.
LEMMA CleanupFinishQuiet ==
  ASSUME RegistryInv, QuietInv, CleanupInOrder, CleanupFinish
  PROVE  QuietInv'
<1>1. ~Idle /\ CleansAll /\ op.cur = Null
  <2>1. op.kind = "cleanup" /\ op.cur = Null
    BY DEF CleanupFinish
  <2> QED BY <2>1 DEF Idle, NoOp, QuietInv, Unhurried, CleansAll
<1>2. gpioList = <<>> /\ gpioList' = <<>>
  <2>1. gpioList \in Seq(Channel)
    BY DEF RegistryInv, TypeOK
  <2>2. ASSUME gpioList # <<>> PROVE gpioList[1] \in Channel
    BY <2>1, <2>2, LenProperties, EmptySeq, ElementOfSeq
  <2> QED BY <1>1, <2>2, Parameters DEF CleanupInOrder, FirstOf, CleanupFinish, listVars
<1>3. Registered = {} /\ Registered' = {}
  BY <1>2 DEF Registered, ToSet
<1>4. /\ epoll' = Closed(Closed(epoll, epfdBlocking), epfdThread)
      /\ epfdThread' = 0 /\ epfdBlocking' = 0 /\ ~threadRunning' /\ op' = NoOp
      /\ UNCHANGED <<valueFile, pc, ptr, fault>>
  BY <1>2 DEF CleanupFinish, threadVars
<1>5. \A e \in Ep : epoll[e].fds = {} /\ epoll[e].ready = {}
  <2>1. \A f \in Fd : valueFile[f] = Null
    BY <1>3 DEF RegistryInv, RegistryMatchesKernel
  <2> QED BY <2>1, QuietTypes DEF QuietInv, WatchedIsOpen
<1>6. \A e \in Ep : /\ epoll'[e].fds = {} /\ epoll'[e].ready = {}
                    /\ e = epfdThread => ~epoll'[e].open
                    /\ epoll'[e].open => epoll[e].open
  <2>1. epoll \in [Ep -> [open : BOOLEAN, fds : SUBSET Fd, ready : SUBSET Fd]] /\ 0 \notin Ep
    BY QuietTypes
  <2> DEFINE one == Closed(epoll, epfdBlocking)
  <2>2. one \in [Ep -> [open : BOOLEAN, fds : SUBSET Fd, ready : SUBSET Fd]]
    BY <2>1, EpollTypes DEF RegistryInv
  <2>3. \A e \in Ep : one[e].fds = epoll[e].fds /\ one[e].ready = epoll[e].ready /\ (one[e].open => epoll[e].open)
    BY <2>1 DEF Closed
  <2> HIDE DEF one
  <2>4. \A e \in Ep : /\ Closed(one, epfdThread)[e].fds = one[e].fds
                      /\ Closed(one, epfdThread)[e].ready = one[e].ready
                      /\ Closed(one, epfdThread)[e].open => one[e].open
                      /\ e = epfdThread => ~Closed(one, epfdThread)[e].open
    BY <2>1, <2>2 DEF Closed
  <2> QED BY <1>4, <1>5, <2>3, <2>4 DEF one
<1>7. ASSUME NEW t \in Thread PROVE ~Lives(t)' /\ pc'[t] \in {"none", "blocked"} /\ (pc'[t] = "blocked" => ~epoll'[ptr'[t]].open)
  <2>1. pc[t] \in {"none", "blocked"}
    BY <1>1, SleepersKeepPointers
  <2>2. ASSUME pc[t] = "blocked", epoll[ptr[t]].open PROVE ptr[t] = epfdThread
    BY <2>2 DEF QuietInv, ServesOrSleeps
  <2>3. pc[t] = "blocked" => ptr[t] \in Ep
    BY QuietTypes
  <2>4. pc[t] = "blocked" => ~epoll'[ptr[t]].open
    BY <1>6, <2>2, <2>3
  <2> QED BY <1>4, <2>1, <2>4 DEF Lives
<1>8. WatchedIsOpen'
  BY <1>4, <1>6 DEF WatchedIsOpen
<1>9. ServesOrSleeps'
  BY <1>7 DEF ServesOrSleeps
<1>10. SomeServes' /\ Unhurried'
  BY <1>3, <1>4 DEF SomeServes, Armed, QuietInv, Unhurried, Idle, NoOp
<1> QED BY <1>8, <1>9, <1>10 DEF QuietInv

LEMMA OpQuiet ==
  ASSUME RegistryInv, QuietInv, CleanupInOrder, OpStep
  PROVE  QuietInv'
<1>1. ~CleanupUsesFreed
  <2> SUFFICES ASSUME CleanupUsesFreed PROVE FALSE
    OBVIOUS
  <2>1. op.kind = "cleanup" /\ op.cur = Dangling
    BY DEF CleanupUsesFreed
  <2>2. op.cur = FirstOf(gpioList)
    BY <2>1 DEF QuietInv, Unhurried, CleanupInOrder, CleansAll
  <2>3. ASSUME gpioList # <<>> PROVE gpioList[1] \in Channel
    BY <2>3, LenProperties, EmptySeq, ElementOfSeq DEF RegistryInv, TypeOK
  <2> QED BY <2>1, <2>2, <2>3, Parameters DEF FirstOf
<1> QED BY <1>1, RemoveDisarmQuiet, RemoveFreeQuiet, CleanupFinishQuiet DEF OpStep

LEMMA WaitStepQuiet ==
  ASSUME RegistryInv, QuietInv, WaitStep
  PROVE  QuietInv'
<1>1. UNCHANGED <<gpioList, epfdThread, epfdBlocking, threadRunning, pc, ptr, valueFile, op, fault>>
  BY DEF WaitStep, WaitAgain, WaitReturn, listVars, threadVars
<1>2. epoll \in [Ep -> [open : BOOLEAN, fds : SUBSET Fd, ready : SUBSET Fd]]
  BY QuietTypes
<1>3. PICK f : \/ epoll' = Reported(epoll, wait.ep, f)
               \/ epoll' = Unwatched(Reported(epoll, wait.ep, f), DoneWith, f)
  BY DEF WaitStep, WaitAgain, WaitReturn
<1>4. \A e \in Ep : /\ Reported(epoll, wait.ep, f)[e].open = epoll[e].open
                    /\ Reported(epoll, wait.ep, f)[e].fds = epoll[e].fds
                    /\ Reported(epoll, wait.ep, f)[e].ready \in {epoll[e].ready, epoll[e].ready \ {f}}
  BY <1>2 DEF Reported
<1>5. Narrowed
  <2> SUFFICES ASSUME NEW e \in Ep
               PROVE  /\ epoll'[e].open = epoll[e].open
                      /\ epoll'[e].fds \subseteq epoll[e].fds
                      /\ epoll'[e].ready \subseteq epoll[e].ready
                      /\ epoll'[e].ready \subseteq epoll'[e].fds
    BY DEF Narrowed
  <2>1. epoll[e].ready \subseteq epoll[e].fds
    BY DEF QuietInv, WatchedIsOpen
  <2>2. CASE epoll' = Reported(epoll, wait.ep, f)
    BY <1>4, <2>1, <2>2
  <2>3. CASE epoll' = Unwatched(Reported(epoll, wait.ep, f), DoneWith, f)
    <3>1. Reported(epoll, wait.ep, f) \in [Ep -> [open : BOOLEAN, fds : SUBSET Fd, ready : SUBSET Fd]]
      BY <1>2, EpollTypes DEF RegistryInv
    <3> DEFINE r == Reported(epoll, wait.ep, f)
    <3> HIDE DEF r
    <3>2. \/ epoll'[e] = r[e]
          \/ /\ epoll'[e].open = r[e].open /\ epoll'[e].fds = r[e].fds \ {f}
             /\ epoll'[e].ready = r[e].ready \ {f}
      BY <2>3, <3>1 DEF Unwatched, r
    <3> QED BY <1>4, <2>1, <3>2 DEF r
  <2> QED BY <1>3, <2>2, <2>3
<1>6. \A e \in Ep : \A h \in epoll'[e].fds : valueFile'[h] # Null
  BY <1>1, <1>5 DEF Narrowed, QuietInv, WatchedIsOpen
<1>7. \A t \in Thread : pc[t] \in {"read", "lookup"} => valueFile'[ptr[t]] # Null
  BY <1>1 DEF QuietInv, ServesOrSleeps
<1>8. Armed' => Armed
  <2>1. \A c \in Channel : rec'[c].threadAdded = rec[c].threadAdded
    <3>1. rec' = rec \/ rec' = [rec EXCEPT ![wait.ch].called = TRUE]
      BY DEF WaitStep, WaitAgain, WaitReturn, listVars
    <3> QED BY <3>1, QuietTypes DEF Record
  <2> QED BY <1>1, <2>1, QuietTypes DEF Armed, Registered
<1>9. op' = NoOp \/ Settled
  BY <1>1 DEF QuietInv, Unhurried, Idle
<1>10. op'.kind = "cleanup" => op'.target = "all"
  BY <1>1 DEF QuietInv, Unhurried
<1> QED BY <1>1, <1>5, <1>6, <1>7, <1>8, <1>9, <1>10, QuietNarrows

\* The line changes while no channel is being removed.
LEMMA EdgeQuiet ==
  ASSUME RegistryInv, QuietInv, QuietProgram, NEW c \in Channel, Edge(c)
  PROVE  QuietInv'
<1>1. Idle /\ UNCHANGED <<gpioList, rec, epfdThread, epfdBlocking, threadRunning, pc, ptr, valueFile, op, fault>>
  BY DEF Edge, QuietProgram, listVars, threadVars
<1>2. epoll \in [Ep -> [open : BOOLEAN, fds : SUBSET Fd, ready : SUBSET Fd]]
  BY QuietTypes
<1>3. \A e \in Ep : /\ epoll'[e].open = epoll[e].open /\ epoll'[e].fds = epoll[e].fds
                    /\ epoll'[e].ready \subseteq epoll'[e].fds
  BY <1>2 DEF Edge, QuietInv, WatchedIsOpen
<1>4. WatchedIsOpen'
  BY <1>1, <1>3, QuietTypes DEF QuietInv, WatchedIsOpen
<1>5. \A t \in Thread : pc[t] = "blocked" => epoll'[ptr[t]].open = epoll[ptr[t]].open
  BY <1>3, QuietTypes
<1>6. \A t \in Thread : Lives(t)' <=> Lives(t)
  BY <1>1, <1>5 DEF Lives
<1>7. ServesOrSleeps'
  BY <1>1, <1>5, <1>6 DEF QuietInv, ServesOrSleeps
<1>8. Armed' <=> Armed
  BY <1>1 DEF Armed, Registered
<1>9. SomeServes' /\ Unhurried'
  BY <1>1, <1>6, <1>8 DEF QuietInv, SomeServes, Unhurried, Idle, NoOp
<1> QED BY <1>4, <1>7, <1>9 DEF QuietInv

LEMMA NextQuiet ==
  ASSUME RegistryInv, CleanupInOrder, QuietInv, QuietProgram, [Next]_vars
  PROVE  QuietInv'
<1>1. ASSUME NEW a \in Thread \cup {Main}, ClientCall(a) \/ Cleanup(a, "all") PROVE QuietInv'
  <2>1. ASSUME NEW c \in Channel, NEW e \in Edges, NEW b \in BounceTimes, NEW added \in BOOLEAN
        PROVE  ~AddFails(a, c, e, b, added)
    BY Parameters DEF AddFails, OpsOf, QuietProgram
  <2> QED BY <1>1, <2>1, AddEdgeDetectQuiet, NoEpollQuiet, CallQuiet, RemovalQuiet DEF ClientCall
<1>2. CASE WaitCall
  BY <1>2, WaitForEdgeQuiet, NoEpollQuiet DEF WaitCall
<1>3. CASE UNCHANGED vars
  <2>1. Armed' <=> Armed
    BY <1>3 DEF vars, Armed, Registered
  <2>2. op' = NoOp \/ Settled
    BY <1>3 DEF vars, QuietInv, Unhurried, Idle
  <2>3. op'.kind = "cleanup" => op'.target = "all"
    BY <1>3 DEF vars, QuietInv, Unhurried
  <2> QED BY <1>3, <2>1, <2>2, <2>3, QuietFrame DEF vars
<1> QED BY <1>1, <1>2, <1>3, OpQuiet, WaitStepQuiet, PollQuiet, EdgeQuiet DEF Next

LEMMA QuietInvariant ==
  ASSUME QuietProgram
  PROVE  Spec => []QuietInv
<1>1. Init => CleanupInOrder
  BY DEF Init, CleanupInOrder, CleansAll, NoOp
<1>2. RegistryInv /\ CleanupInOrder /\ [Next]_vars => CleanupInOrder'
  BY InOrderStep
<1>3. RegistryInv /\ CleanupInOrder /\ QuietInv /\ [Next]_vars => QuietInv'
  BY NextQuiet
<1> QED BY <1>1, <1>2, <1>3, InitQuiet, RegistryInvariant, PTL DEF Spec

\* In a quiet program a channel that is armed has a poll thread to serve it, which
\* has not ended and waits on no instance that was closed.
THEOREM QuietIsServed ==
  ASSUME QuietProgram
  PROVE  Spec => []ArmedHasPoller
<1>1. QuietInv => ArmedHasPoller
  BY DEF QuietInv, SomeServes, Armed, Lives, ServesOrSleeps, ArmedHasPoller
<1> QED BY <1>1, QuietInvariant, PTL

-----------------------------------------------------------------------------
(* EdgeService.                                                            *)

\* What a registered channel has in flight, and what keeps it apart from the rest.
Holders(c) == {t \in Thread : Carries(t, c)}
Reports(c) == {e \in Ep : e = epfdThread /\ rec[c].fd \in epoll[e].ready}

\* A channel that was armed and has not had its first report still has one in flight.
FirstInFlight ==
  \A c \in ArmedChannels : rec[c].initialThread => Holders(c) # {} \/ Reports(c) # {}

\* A channel that is registered for wait_for_edge only, or that add_edge_detect did
\* not get to arm, is not known to the poll threads.
UnarmedIsUnseen ==
  \A c \in Registered : ~rec[c].threadAdded =>
    /\ rec[c].initialThread
    /\ Holders(c) = {}
    /\ epfdThread # 0 => rec[c].fd \notin epoll[epfdThread].fds

\* Threads hold armed channels, and only those are flagged.
HeldIsArmed ==
  /\ \A t \in Thread : pc[t] \in {"use", "first"} => ptr[t] \in ArmedChannels
  /\ \A c \in Channel : eventOccurred[c] => c \in ArmedChannels
  /\ \A c \in Channel : HalfRemoved(c) => rec[c].edge = "none"

\* wait_for_edge waits on another instance than the poll threads.
InstancesApart == epfdThread # 0 => wait.ep # epfdThread /\ epfdBlocking # epfdThread

ServiceInv == FirstInFlight /\ UnarmedIsUnseen /\ HeldIsArmed /\ InstancesApart

LEMMA HoldersAreFinite ==
  ASSUME IsFiniteSet(Thread), NEW H \in SUBSET Thread
  PROVE  IsFiniteSet(H) /\ Cardinality(H) \in Nat /\ (H = {} <=> Cardinality(H) = 0)
<1>1. IsFiniteSet(H)
  BY FS_Subset
<1> QED BY <1>1, FS_CardinalityType, FS_EmptySet

LEMMA ReportsAreOne ==
  ASSUME NEW e, NEW R \in SUBSET {e}
  PROVE  Cardinality(R) = IF R = {} THEN 0 ELSE 1
<1>1. R = {} \/ R = {e}
  OBVIOUS
<1> QED BY <1>1, FS_EmptySet, FS_Singleton

\* The reports in flight, counted.
LEMMA FlightIs ==
  ASSUME IsFiniteSet(Thread), NEW c
  PROVE  /\ InFlight(c) = Cardinality(Holders(c)) + (IF Reports(c) = {} THEN 0 ELSE 1)
         /\ InFlight(c) \in Nat /\ Cardinality(Holders(c)) \in Nat
         /\ InFlight(c) > 0 <=> Holders(c) # {} \/ Reports(c) # {}
         /\ IsFiniteSet(Holders(c))
<1>1. Holders(c) \in SUBSET Thread /\ Reports(c) \in SUBSET {epfdThread}
  BY DEF Holders, Reports
<1>2. /\ IsFiniteSet(Holders(c)) /\ Cardinality(Holders(c)) \in Nat
      /\ Holders(c) = {} <=> Cardinality(Holders(c)) = 0
  BY <1>1, HoldersAreFinite
<1>3. Cardinality(Reports(c)) = IF Reports(c) = {} THEN 0 ELSE 1
  BY <1>1, ReportsAreOne
<1>4. InFlight(c) = Cardinality(Holders(c)) + Cardinality(Reports(c))
  BY DEF InFlight, Holders, Reports
<1> QED BY <1>2, <1>3, <1>4

LEMMA FlightIsNext ==
  ASSUME IsFiniteSet(Thread), NEW c
  PROVE  /\ InFlight(c)' = Cardinality(Holders(c)') + (IF Reports(c)' = {} THEN 0 ELSE 1)
         /\ InFlight(c)' \in Nat /\ Cardinality(Holders(c)') \in Nat
         /\ InFlight(c)' > 0 <=> Holders(c)' # {} \/ Reports(c)' # {}
         /\ IsFiniteSet(Holders(c)')
<1>1. Holders(c)' \in SUBSET Thread /\ Reports(c)' \in SUBSET {epfdThread'}
  BY DEF Holders, Reports
<1>2. /\ IsFiniteSet(Holders(c)') /\ Cardinality(Holders(c)') \in Nat
      /\ Holders(c)' = {} <=> Cardinality(Holders(c)') = 0
  BY <1>1, HoldersAreFinite
<1>3. Cardinality(Reports(c)') = IF Reports(c)' = {} THEN 0 ELSE 1
  BY <1>1, ReportsAreOne
<1>4. InFlight(c)' = Cardinality(Holders(c)') + Cardinality(Reports(c)')
  BY DEF InFlight, Holders, Reports
<1> QED BY <1>2, <1>3, <1>4

\* The edges of a channel that were not delivered yet are a natural number.
LEMMA UndeliveredIs ==
  ASSUME IsFiniteSet(Thread), FirstInFlight, NEW c \in Channel
  PROVE  /\ Undelivered[c] \in Nat
         /\ c \notin ArmedChannels => Undelivered[c] = 0
         /\ c \in ArmedChannels /\ rec[c].initialThread => Undelivered[c] = InFlight(c) - 1
         /\ c \in ArmedChannels /\ ~rec[c].initialThread => Undelivered[c] = InFlight(c)
<1>1. InFlight(c) \in Nat /\ (InFlight(c) > 0 <=> Holders(c) # {} \/ Reports(c) # {})
  BY FlightIs
<1> QED BY <1>1 DEF Undelivered, FirstInFlight

LEMMA UndeliveredIsNext ==
  ASSUME NEW c \in Channel
  PROVE  /\ c \notin ArmedChannels' => Undelivered'[c] = 0
         /\ c \in ArmedChannels' /\ rec'[c].initialThread => Undelivered'[c] = InFlight(c)' - 1
         /\ c \in ArmedChannels' /\ ~rec'[c].initialThread => Undelivered'[c] = InFlight(c)' - 0
BY DEF Undelivered

\* Nothing is different for c.
Same(c) == /\ Holders(c)' = Holders(c) /\ Reports(c)' = Reports(c)
           /\ rec'[c].initialThread = rec[c].initialThread

LEMMA SameUndelivered ==
  ASSUME NEW c \in Channel, c \in ArmedChannels' <=> c \in ArmedChannels, c \in ArmedChannels => Same(c)
  PROVE  Undelivered'[c] = Undelivered[c]
<1>1. InFlight(c) = Cardinality(Holders(c)) + Cardinality(Reports(c))
  BY DEF InFlight, Holders, Reports
<1>2. InFlight(c)' = Cardinality(Holders(c)') + Cardinality(Reports(c)')
  BY DEF InFlight, Holders, Reports
<1>3. c \in ArmedChannels => InFlight(c)' = InFlight(c)
  BY <1>1, <1>2 DEF Same
<1> QED BY <1>3 DEF Undelivered, Same

\* Nothing is different for any channel.
LEMMA Stutters ==
  ASSUME ArmedChannels' = ArmedChannels, \A c \in ArmedChannels : Same(c), UNCHANGED eventOccurred
  PROVE  UNCHANGED Service!vars
<1>1. \A c \in Channel : Undelivered'[c] = Undelivered[c]
  BY SameUndelivered
<1>2. Undelivered' = Undelivered
  BY <1>1 DEF Undelivered
<1> QED BY <1>2 DEF Service!vars

\* Nothing is different but for c.
LEMMA OnlyChannel ==
  ASSUME NEW c \in Channel, \A d \in Channel \ {c} : d \in ArmedChannels' <=> d \in ArmedChannels,
         \A d \in ArmedChannels \ {c} : Same(d)
  PROVE  \A n : Undelivered'[c] = n => Undelivered' = [Undelivered EXCEPT ![c] = n]
<1>1. \A d \in Channel \ {c} : Undelivered'[d] = Undelivered[d]
  BY SameUndelivered
<1> QED BY <1>1 DEF Undelivered

\* What is known of armed channels and of the threads that hold one.
LEMMA ServiceFacts ==
  ASSUME RegistryInv, QuietInv, ServiceInv
  PROVE  /\ ArmedChannels \subseteq Registered /\ Registered \subseteq Channel
         /\ \A c \in Registered : rec[c].fd \in Fd
         /\ \A c \in ArmedChannels : ~HalfRemoved(c) /\ valueFile[rec[c].fd] = c
         /\ \A f \in Fd : valueFile[f] # Null => valueFile[f] \in Registered /\ rec[valueFile[f]].fd = f
         /\ ArmedChannels # {} => epfdThread # 0
         /\ \A t \in Thread : pc[t] \in {"read", "lookup"} => ptr[t] \in Fd /\ valueFile[ptr[t]] # Null
         /\ Idle => \A c \in Registered : valueFile[rec[c].fd] = c /\ rec[c].edge # "none"
<1>1. ArmedChannels \subseteq Registered /\ Registered \subseteq Channel
  BY QuietTypes DEF ArmedChannels
<1>2. \A c \in Registered : rec[c].fd \in Fd /\ (~HalfRemoved(c) => rec[c].edge # "none")
  BY DEF RegistryInv, RecordsFilled
<1>3. \A c \in ArmedChannels : ~HalfRemoved(c)
  BY <1>1 DEF ArmedChannels, ServiceInv, HeldIsArmed
<1>4. \A c \in Registered : HalfRemoved(c) \/ valueFile[rec[c].fd] = c
  BY DEF RegistryInv, RegistryMatchesKernel
<1>5. \A f \in Fd : valueFile[f] # Null => valueFile[f] \in Registered /\ rec[valueFile[f]].fd = f
  BY DEF RegistryInv, RegistryMatchesKernel
<1>6. ArmedChannels # {} => epfdThread # 0
  BY <1>1 DEF ArmedChannels, QuietInv, SomeServes, Armed, ServesOrSleeps
<1>7. \A t \in Thread : pc[t] \in {"read", "lookup"} => ptr[t] \in Fd /\ valueFile[ptr[t]] # Null
  BY QuietTypes DEF QuietInv, ServesOrSleeps, PointsTo
<1>8. Idle => \A c : ~HalfRemoved(c)
  BY DEF Idle, NoOp, HalfRemoved
<1> QED BY <1>1, <1>2, <1>3, <1>4, <1>5, <1>6, <1>7, <1>8

\* Nothing that matters to the service happens.
LEMMA ServiceFrame ==
  ASSUME ServiceInv,
         UNCHANGED <<gpioList, rec, epoll, epfdThread, epfdBlocking, wait, pc, ptr, eventOccurred>>,
         \A c \in Channel : HalfRemoved(c)' => HalfRemoved(c)
  PROVE  ServiceInv' /\ UNCHANGED Service!vars
<1>1. Registered' = Registered /\ ArmedChannels' = ArmedChannels
  BY DEF Registered, ArmedChannels
<1>2. \A c : Holders(c)' = Holders(c) /\ Reports(c)' = Reports(c)
  BY DEF Holders, Carries, Reports
<1>3. UNCHANGED Service!vars
  BY <1>1, <1>2, Stutters DEF Same
<1>4. FirstInFlight' /\ UnarmedIsUnseen' /\ InstancesApart'
  BY <1>1, <1>2 DEF ServiceInv, FirstInFlight, UnarmedIsUnseen, InstancesApart
<1>5. HeldIsArmed'
  BY <1>1 DEF ServiceInv, HeldIsArmed
<1> QED BY <1>3, <1>4, <1>5 DEF ServiceInv

\* Threads move, and hold what they held.
LEMMA HeldFrame ==
  ASSUME RegistryInv, QuietInv, ServiceInv,
         UNCHANGED <<gpioList, rec, epoll, epfdThread, epfdBlocking, wait, op, eventOccurred>>,
         \A c \in Registered : Holders(c)' = Holders(c),
         \A t \in Thread : pc'[t] \in {"use", "first"} => ptr'[t] \in ArmedChannels
  PROVE  ServiceInv' /\ UNCHANGED Service!vars
<1>1. Registered' = Registered /\ ArmedChannels' = ArmedChannels /\ ArmedChannels \subseteq Registered
  BY ServiceFacts DEF Registered, ArmedChannels
<1>2. \A c : Reports(c)' = Reports(c)
  BY DEF Reports
<1>3. UNCHANGED Service!vars
  BY <1>1, <1>2, Stutters DEF Same
<1>4. FirstInFlight' /\ UnarmedIsUnseen' /\ InstancesApart'
  BY <1>1, <1>2 DEF ServiceInv, FirstInFlight, UnarmedIsUnseen, InstancesApart
<1>5. HeldIsArmed'
  BY <1>1 DEF ServiceInv, HeldIsArmed, HalfRemoved
<1> QED BY <1>3, <1>4, <1>5 DEF ServiceInv

\* What a place and a pointer hold.
Holds(l, p, c) == \/ l \in {"read", "lookup"} /\ p = rec[c].fd
                  \/ l \in {"use", "first"} /\ p = c

LEMMA HoldersMove ==
  ASSUME RegistryInv, NEW t \in Thread, NEW l, NEW p, Goto(t, l, p), NEW c, rec'[c].fd = rec[c].fd
  PROVE  /\ t \in Holders(c) <=> Holds(pc[t], ptr[t], c)
         /\ Holders(c)' = IF Holds(l, p, c) THEN Holders(c) \cup {t} ELSE Holders(c) \ {t}
<1>1. \A u \in Thread : /\ pc'[u] = IF u = t THEN l ELSE pc[u]
                        /\ ptr'[u] = IF u = t THEN p ELSE ptr[u]
  BY DEF Goto, RegistryInv, TypeOK
<1>2. \A u \in Thread : Carries(u, c)' <=> IF u = t THEN Holds(l, p, c) ELSE Carries(u, c)
  BY <1>1 DEF Carries, Holds
<1>3. Holders(c)' = {u \in Thread : IF u = t THEN Holds(l, p, c) ELSE Carries(u, c)}
  BY <1>2 DEF Holders
<1> QED BY <1>3 DEF Holders, Carries, Holds

\* A thread moves, and holds what it held, or still nothing.
LEMMA MoveHolds ==
  ASSUME RegistryInv, QuietInv, ServiceInv, NEW t \in Thread, NEW l, NEW p, Goto(t, l, p),
         UNCHANGED <<gpioList, rec, epoll, epfdThread, epfdBlocking, wait, op, eventOccurred>>,
         \A c \in Registered : Holds(l, p, c) <=> Holds(pc[t], ptr[t], c),
         l \in {"use", "first"} => p \in ArmedChannels
  PROVE  ServiceInv' /\ UNCHANGED Service!vars
<1>1. \A c \in Registered : Holders(c)' = Holders(c)
  BY HoldersMove
<1>2. \A u \in Thread : pc'[u] \in {"use", "first"} => ptr'[u] \in ArmedChannels
  BY DEF Goto, RegistryInv, TypeOK, ServiceInv, HeldIsArmed
<1> QED BY <1>1, <1>2, HeldFrame

\* A thread lets go of its channel, whose first report was seen: an edge is delivered or dropped.
LEMMA LetsGo ==
  ASSUME RegistryInv, QuietInv, ServiceInv, IsFiniteSet(Thread), NEW t \in Thread, NEW c \in Channel,
         pc[t] \in {"use", "first"}, ptr[t] = c, NEW l \in {"test", "walk"}, NEW p, Goto(t, l, p),
         UNCHANGED <<gpioList, epoll, epfdThread, epfdBlocking, wait, op>>,
         \A d \in Channel : /\ rec'[d].fd = rec[d].fd /\ rec'[d].edge = rec[d].edge
                            /\ rec'[d].threadAdded = rec[d].threadAdded
                            /\ d # c => rec'[d].initialThread = rec[d].initialThread,
         ~rec'[c].initialThread,
         \A d \in Channel : eventOccurred'[d] => eventOccurred[d] \/ d = c
  PROVE  /\ ServiceInv'
         /\ c \in ArmedChannels /\ ArmedChannels' = ArmedChannels
         /\ \A d \in ArmedChannels \ {c} : Same(d)
         /\ InFlight(c) > 0 /\ InFlight(c)' = InFlight(c) - 1
<1>1. c \in ArmedChannels /\ ArmedChannels \subseteq Registered /\ Registered \subseteq Channel
  BY ServiceFacts DEF ServiceInv, HeldIsArmed
<1>2. Registered' = Registered /\ ArmedChannels' = ArmedChannels
  BY <1>1 DEF Registered, ArmedChannels
<1>3. \A d \in Channel : Holders(d)' = Holders(d) \ {t}
  BY HoldersMove DEF Holds
<1>4. \A d \in Channel \ {c} : Holders(d)' = Holders(d)
  BY <1>3 DEF Holders, Carries
<1>5. t \in Holders(c)
  BY DEF Holders, Carries
<1>6. \A d \in Channel : Reports(d)' = Reports(d)
  BY DEF Reports
<1>7. Cardinality(Holders(c)') = Cardinality(Holders(c)) - 1 /\ IsFiniteSet(Holders(c))
  BY <1>3, <1>5, FlightIs, FS_RemoveElement
<1>8. InFlight(c) > 0 /\ InFlight(c)' = InFlight(c) - 1
  <2>1. InFlight(c) = Cardinality(Holders(c)) + (IF Reports(c) = {} THEN 0 ELSE 1)
    BY FlightIs
  <2>2. InFlight(c)' = Cardinality(Holders(c)') + (IF Reports(c)' = {} THEN 0 ELSE 1)
    BY FlightIsNext
  <2>3. InFlight(c) > 0 /\ Cardinality(Holders(c)) \in Nat
    BY <1>5, FlightIs
  <2> QED BY <1>6, <1>7, <2>1, <2>2, <2>3
<1>9. \A d \in ArmedChannels \ {c} : Same(d)
  BY <1>1, <1>4, <1>6 DEF Same
<1>10. FirstInFlight'
  BY <1>1, <1>2, <1>9 DEF ServiceInv, FirstInFlight, Same
<1>11. UnarmedIsUnseen'
  <2>1. c \in Registered /\ rec[c].threadAdded
    BY <1>1 DEF ArmedChannels
  <2> QED BY <1>1, <1>2, <1>3, <2>1 DEF ServiceInv, UnarmedIsUnseen
<1>12. HeldIsArmed'
  <2>1. \A u \in Thread : pc'[u] \in {"use", "first"} => ptr'[u] \in ArmedChannels
    BY DEF Goto, RegistryInv, TypeOK, ServiceInv, HeldIsArmed
  <2>2. \A d \in Channel : eventOccurred'[d] => d \in ArmedChannels
    BY <1>1 DEF ServiceInv, HeldIsArmed
  <2>3. \A d \in Channel : HalfRemoved(d)' => rec'[d].edge = "none"
    BY DEF ServiceInv, HeldIsArmed, HalfRemoved
  <2> QED BY <1>2, <2>1, <2>2, <2>3 DEF HeldIsArmed
<1>13. InstancesApart'
  BY DEF ServiceInv, InstancesApart
<1> QED BY <1>1, <1>2, <1>8, <1>9, <1>10, <1>11, <1>12, <1>13 DEF ServiceInv

\* The first report is done with: what is in flight less one becomes what is in flight.
LEMMA FirstDoneStutters ==
  ASSUME RegistryInv, QuietInv, ServiceInv, IsFiniteSet(Thread), NEW t \in Thread, PollFirstDone(t)
  PROVE  ServiceInv' /\ [Service!Next]_(Service!vars)
<1>1. pc[t] = "first" /\ ptr[t] # Dangling /\ rec \in [Channel -> Record]
  BY QuietTypes DEF PollFirstDone, QuietInv, ServesOrSleeps
<1>2. PICK c : c = ptr[t]
  OBVIOUS
<1>3. c \in ArmedChannels /\ c \in Channel
  BY <1>1, <1>2, ServiceFacts DEF ServiceInv, HeldIsArmed
<1>4. /\ rec' = [rec EXCEPT ![c].initialThread = FALSE] /\ Goto(t, "test", 0)
      /\ UNCHANGED <<gpioList, epoll, epfdThread, epfdBlocking, wait, op, eventOccurred>>
  BY <1>1, <1>2 DEF PollFirstDone, OthersUnchanged
<1>5. \A d \in Channel : /\ rec'[d].fd = rec[d].fd /\ rec'[d].edge = rec[d].edge
                         /\ rec'[d].threadAdded = rec[d].threadAdded
                         /\ d # c => rec'[d].initialThread = rec[d].initialThread
                         /\ d = c => ~rec'[d].initialThread
  BY <1>1, <1>4 DEF Record
<1>6. /\ ServiceInv' /\ ArmedChannels' = ArmedChannels
      /\ \A d \in ArmedChannels \ {c} : Same(d)
      /\ InFlight(c) > 0 /\ InFlight(c)' = InFlight(c) - 1
  BY <1>1, <1>2, <1>3, <1>4, <1>5, LetsGo
<1>7. InFlight(c) \in Nat /\ Undelivered[c] = IF rec[c].initialThread THEN InFlight(c) - 1 ELSE InFlight(c)
  BY <1>3, FlightIs, UndeliveredIs DEF ServiceInv
<1>8. Undelivered'[c] = InFlight(c) - 1
  BY <1>3, <1>5, <1>6, <1>7, UndeliveredIsNext
<1>9. Undelivered' = [Undelivered EXCEPT ![c] = InFlight(c) - 1]
  BY <1>3, <1>6, <1>8, OnlyChannel
<1>10. CASE rec[c].initialThread
  <2>1. Undelivered' = Undelivered
    BY <1>3, <1>7, <1>9, <1>10 DEF Undelivered
  <2> QED BY <1>4, <1>6, <2>1 DEF Service!vars
<1>11. CASE ~rec[c].initialThread
  <2>1. Service!Drop(c)
    BY <1>3, <1>4, <1>6, <1>7, <1>9, <1>11 DEF Service!Drop
  <2> QED BY <1>3, <1>6, <2>1 DEF Service!Next
<1> QED BY <1>10, <1>11

LEMMA BounceDrops ==
  ASSUME RegistryInv, QuietInv, ServiceInv, IsFiniteSet(Thread), NEW t \in Thread, PollBounce(t)
  PROVE  ServiceInv' /\ Service!Next
<1>1. PICK c : c = ptr[t]
  OBVIOUS
<1>2. pc[t] = "use" /\ c \in ArmedChannels /\ c \in Channel /\ rec \in [Channel -> Record]
  BY <1>1, ServiceFacts, QuietTypes DEF ServiceInv, HeldIsArmed, PollBounce
<1>3. /\ Goto(t, "test", 0) /\ ~rec[c].initialThread
      /\ UNCHANGED <<gpioList, rec, epoll, epfdThread, epfdBlocking, wait, op, eventOccurred>>
  BY <1>1 DEF PollBounce, OthersUnchanged
<1>4. /\ ServiceInv' /\ ArmedChannels' = ArmedChannels
      /\ \A d \in ArmedChannels \ {c} : Same(d)
      /\ InFlight(c) > 0 /\ InFlight(c)' = InFlight(c) - 1
  BY <1>1, <1>2, <1>3, LetsGo
<1>5. InFlight(c) \in Nat /\ Undelivered[c] = InFlight(c)
  BY <1>2, <1>3, FlightIs, UndeliveredIs DEF ServiceInv
<1>6. Undelivered'[c] = InFlight(c) - 1
  BY <1>2, <1>3, <1>4, <1>5, UndeliveredIsNext
<1>7. Undelivered' = [Undelivered EXCEPT ![c] = InFlight(c) - 1]
  BY <1>2, <1>4, <1>6, OnlyChannel
<1>8. Service!Drop(c)
  BY <1>2, <1>3, <1>4, <1>5, <1>7 DEF Service!Drop
<1> QED BY <1>2, <1>4, <1>8 DEF Service!Next

LEMMA DeliverDelivers ==
  ASSUME RegistryInv, QuietInv, ServiceInv, IsFiniteSet(Thread), NEW t \in Thread, PollDeliver(t)
  PROVE  ServiceInv' /\ Service!Next
<1>1. PICK c : c = ptr[t]
  OBVIOUS
<1>2. pc[t] = "use" /\ c \in ArmedChannels /\ c \in Channel /\ rec \in [Channel -> Record]
  BY <1>1, ServiceFacts, QuietTypes DEF ServiceInv, HeldIsArmed, PollDeliver
<1>3. /\ Goto(t, "walk", NextCell(callbacks, 0)) /\ ~rec[c].initialThread
      /\ rec' = [rec EXCEPT ![c].called = TRUE]
      /\ eventOccurred' = [eventOccurred EXCEPT ![c] = TRUE]
      /\ UNCHANGED <<gpioList, epoll, epfdThread, epfdBlocking, wait, op>>
  BY <1>1 DEF PollDeliver, OthersUnchanged
<1>4. \A d \in Channel : /\ rec'[d].fd = rec[d].fd /\ rec'[d].edge = rec[d].edge
                         /\ rec'[d].threadAdded = rec[d].threadAdded
                         /\ rec'[d].initialThread = rec[d].initialThread
  BY <1>2, <1>3 DEF Record
<1>5. eventOccurred \in [Channel -> BOOLEAN]
  BY DEF RegistryInv, TypeOK
<1>6. \A d \in Channel : eventOccurred'[d] <=> eventOccurred[d] \/ d = c
  BY <1>2, <1>3, <1>5
<1>7. /\ ServiceInv' /\ ArmedChannels' = ArmedChannels
      /\ \A d \in ArmedChannels \ {c} : Same(d)
      /\ InFlight(c) > 0 /\ InFlight(c)' = InFlight(c) - 1
  BY <1>1, <1>2, <1>3, <1>4, <1>6, LetsGo
<1>8. InFlight(c) \in Nat /\ Undelivered[c] = InFlight(c)
  BY <1>2, <1>3, FlightIs, UndeliveredIs DEF ServiceInv
<1>9. Undelivered'[c] = InFlight(c) - 1
  BY <1>2, <1>3, <1>4, <1>7, <1>8, UndeliveredIsNext
<1>10. Undelivered' = [Undelivered EXCEPT ![c] = InFlight(c) - 1]
  BY <1>2, <1>7, <1>9, OnlyChannel
<1>11. {d \in Channel : eventOccurred'[d]} = {d \in Channel : eventOccurred[d]} \cup {c}
  BY <1>2, <1>6
<1>12. Service!Deliver(c)
  BY <1>2, <1>7, <1>8, <1>10, <1>11 DEF Service!Deliver
<1> QED BY <1>2, <1>7, <1>12 DEF Service!Next

\* The kernel hands a report to a thread: it stays in flight.
LEMMA ReportStaysInFlight ==
  ASSUME RegistryInv, QuietInv, ServiceInv, IsFiniteSet(Thread), NEW t \in Thread, PollReport(t)
  PROVE  ServiceInv' /\ UNCHANGED Service!vars
<1>1. PICK e : e = ptr[t]
  OBVIOUS
<1>2. PICK f \in epoll[e].ready : epoll' = Reported(epoll, e, f) /\ Goto(t, "read", f)
  BY <1>1 DEF PollReport
<1>3. /\ UNCHANGED <<gpioList, rec, epfdThread, epfdBlocking, wait, op, eventOccurred>>
      /\ pc[t] = "blocked" /\ e \in Ep
      /\ epoll \in [Ep -> [open : BOOLEAN, fds : SUBSET Fd, ready : SUBSET Fd]]
  BY <1>1, QuietTypes DEF PollReport, OthersUnchanged
<1>4. f \in epoll[e].fds /\ e = epfdThread /\ f \in Fd /\ valueFile[f] # Null /\ epfdThread # 0
  BY <1>1, <1>2, <1>3, QuietTypes DEF QuietInv, WatchedIsOpen, ServesOrSleeps
<1>5. PICK c : c = valueFile[f]
  OBVIOUS
<1>6. c \in Registered /\ c \in Channel /\ rec[c].fd = f
  BY <1>4, <1>5, ServiceFacts
<1>7. Registered' = Registered /\ ArmedChannels' = ArmedChannels /\ ArmedChannels \subseteq Registered
  BY <1>3, ServiceFacts DEF Registered, ArmedChannels
<1>8. rec[c].threadAdded
  BY <1>4, <1>6 DEF ServiceInv, UnarmedIsUnseen
<1>9. \A d \in Registered : d # c => rec[d].fd # f \/ d \notin ArmedChannels
  BY <1>5, ServiceFacts
<1>10. epoll'[e].ready = epoll[e].ready \ {f} /\ epoll'[e].fds = epoll[e].fds
  BY <1>2, <1>3 DEF Reported
<1>11. t \notin Holders(c) /\ \A d : Holders(d)' = IF rec[d].fd = f THEN Holders(d) \cup {t} ELSE Holders(d) \ {t}
  BY <1>2, <1>3, <1>6, HoldersMove DEF Holds
<1>12. \A d \in ArmedChannels \ {c} : Same(d)
  <2> SUFFICES ASSUME NEW d \in ArmedChannels \ {c} PROVE Same(d)
    OBVIOUS
  <2>1. rec[d].fd # f
    BY <1>7, <1>9
  <2>2. Holders(d)' = Holders(d)
    BY <1>3, <1>11, <2>1 DEF Holders, Carries
  <2>3. Reports(d)' = Reports(d)
    BY <1>3, <1>4, <1>10, <2>1 DEF Reports
  <2> QED BY <1>3, <2>2, <2>3 DEF Same
<1>13. InFlight(c)' = InFlight(c)
  <2>1. Reports(c) # {} /\ Reports(c)' = {}
    BY <1>2, <1>3, <1>4, <1>6, <1>10 DEF Reports
  <2>2. Cardinality(Holders(c)') = Cardinality(Holders(c)) + 1
    BY <1>6, <1>11, FlightIs, FS_AddElement
  <2> QED BY <2>1, <2>2, FlightIs, FlightIsNext
<1>14. Undelivered'[c] = Undelivered[c]
  BY <1>3, <1>6, <1>7, <1>13 DEF Undelivered
<1>15. \A d \in Channel : Undelivered'[d] = Undelivered[d]
  BY <1>7, <1>12, <1>14, SameUndelivered
<1>16. UNCHANGED Service!vars
  BY <1>3, <1>7, <1>15 DEF Undelivered, Service!vars
<1>17. FirstInFlight'
  <2>1. Holders(c)' # {}
    BY <1>6, <1>11
  <2> QED BY <1>3, <1>7, <1>12, <2>1 DEF ServiceInv, FirstInFlight, Same
<1>18. UnarmedIsUnseen'
  <2> SUFFICES ASSUME NEW d \in Registered, ~rec[d].threadAdded
               PROVE  /\ rec[d].initialThread /\ Holders(d)' = {}
                      /\ epfdThread # 0 => rec[d].fd \notin epoll'[epfdThread].fds
    BY <1>3, <1>7 DEF UnarmedIsUnseen
  <2>1. /\ rec[d].initialThread /\ Holders(d) = {}
        /\ epfdThread # 0 => rec[d].fd \notin epoll[epfdThread].fds
    BY DEF ServiceInv, UnarmedIsUnseen
  <2>2. rec[d].fd # f
    BY <1>4, <2>1
  <2> QED BY <1>4, <1>10, <1>11, <2>1, <2>2
<1>19. HeldIsArmed' /\ InstancesApart'
  <2>1. \A u \in Thread : pc'[u] \in {"use", "first"} => ptr'[u] \in ArmedChannels
    BY <1>2 DEF Goto, RegistryInv, TypeOK, ServiceInv, HeldIsArmed
  <2> QED BY <1>3, <1>7, <2>1 DEF ServiceInv, HeldIsArmed, HalfRemoved, InstancesApart
<1> QED BY <1>16, <1>17, <1>18, <1>19 DEF ServiceInv

\* The steps of a poll thread.
LEMMA PollServes ==
  ASSUME RegistryInv, QuietInv, ServiceInv, IsFiniteSet(Thread), NEW t \in Thread, PollStep(t)
  PROVE  ServiceInv' /\ [Service!Next]_(Service!vars)
<1>1. /\ pc[t] # "exit"
      /\ pc[t] \in {"use", "first", "walk", "call"} => ptr[t] # Dangling
      /\ pc[t] \in {"read", "lookup"} => ptr[t] \in Fd /\ valueFile[ptr[t]] # Null
  BY ServiceFacts DEF QuietInv, ServesOrSleeps
<1>2. CASE PollStart(t) \/ PollTest(t) \/ PollWait(t) \/ PollWalk(t) \/ PollReturn(t)
  <2>1. pc[t] \in {"start", "test", "wait", "walk", "call"}
    BY <1>2 DEF PollStart, PollTest, PollWait, PollWalk, PollReturn
  <2>2. UNCHANGED <<gpioList, rec, epoll, epfdThread, epfdBlocking, wait, op, eventOccurred>>
    BY <1>2 DEF PollStart, PollTest, PollWait, PollWalk, PollReturn, OthersUnchanged
  <2>3. \E l, p : l \in {"test", "wait", "exit", "blocked", "call", "walk"} /\ Goto(t, l, p)
    BY <1>1, <1>2 DEF PollStart, PollTest, PollWait, PollWalk, PollReturn
  <2>4. PICK l, p : l \in {"test", "wait", "exit", "blocked", "call", "walk"} /\ Goto(t, l, p)
    BY <2>3
  <2>5. \A c : ~Holds(l, p, c) /\ ~Holds(pc[t], ptr[t], c)
    BY <2>1, <2>4 DEF Holds
  <2> QED BY <2>2, <2>4, <2>5, MoveHolds
<1>3. CASE PollRead(t)
  <2>1. Goto(t, "lookup", ptr[t]) /\ pc[t] = "read"
    BY <1>1, <1>3 DEF PollRead
  <2>2. UNCHANGED <<gpioList, rec, epoll, epfdThread, epfdBlocking, wait, op, eventOccurred>>
    BY <1>3 DEF PollRead, OthersUnchanged
  <2>3. \A c : Holds("lookup", ptr[t], c) <=> Holds(pc[t], ptr[t], c)
    BY <2>1 DEF Holds
  <2> QED BY <2>1, <2>2, <2>3, MoveHolds
<1>4. CASE PollLookup(t)
  <2>1. pc[t] = "lookup" /\ UNCHANGED <<gpioList, rec, epoll, epfdThread, epfdBlocking, wait, op, eventOccurred>>
    BY <1>4 DEF PollLookup, OthersUnchanged
  <2>2. valueFile[ptr[t]] \in Registered /\ rec[valueFile[ptr[t]]].fd = ptr[t]
    BY <1>1, <2>1, ServiceFacts
  <2>3. PICK c \in Registered : rec[c].fd = ptr[t] /\ Goto(t, "use", c)
    BY <1>4, <2>2 DEF PollLookup
  <2>4. Idle
    BY <2>1 DEF QuietInv, Unhurried, Settled
  <2>5. \A d \in Registered : valueFile[rec[d].fd] = d
    BY <2>4, ServiceFacts
  <2>6. \A d \in Registered : Holds("use", c, d) <=> Holds(pc[t], ptr[t], d)
    BY <2>1, <2>3, <2>5 DEF Holds
  <2>7. t \in Holders(c)
    BY <2>1, <2>3 DEF Holders, Carries
  <2>8. rec[c].threadAdded
    BY <2>7 DEF ServiceInv, UnarmedIsUnseen
  <2>9. c \in ArmedChannels
    BY <2>4, <2>8, ServiceFacts DEF ArmedChannels
  <2> QED BY <2>1, <2>3, <2>6, <2>9, MoveHolds
<1>5. CASE PollFirst(t)
  <2>1. Goto(t, "first", ptr[t]) /\ pc[t] = "use"
    BY <1>5 DEF PollFirst
  <2>2. UNCHANGED <<gpioList, rec, epoll, epfdThread, epfdBlocking, wait, op, eventOccurred>>
    BY <1>5 DEF PollFirst, OthersUnchanged
  <2>3. \A c : Holds("first", ptr[t], c) <=> Holds(pc[t], ptr[t], c)
    BY <2>1 DEF Holds
  <2>4. ptr[t] \in ArmedChannels
    BY <2>1 DEF ServiceInv, HeldIsArmed
  <2> QED BY <2>1, <2>2, <2>3, <2>4, MoveHolds
<1>6. ~PollUseFreed(t) /\ ~PollExit(t)
  BY <1>1 DEF PollUseFreed, PollExit
<1> QED BY <1>2, <1>3, <1>4, <1>5, <1>6, ReportStaysInFlight, FirstDoneStutters, BounceDrops,
           DeliverDelivers DEF PollStep

\* No thread and no report knows the descriptor that c has next.
Unseen(c) == /\ rec'[c].initialThread
             /\ \A t \in Thread : /\ pc[t] \in {"read", "lookup"} => ptr[t] # rec'[c].fd
                                  /\ pc[t] \in {"use", "first"} => ptr[t] # c
             /\ epfdThread # 0 => rec'[c].fd \notin epoll[epfdThread].fds

LEMMA NewIsUnseen ==
  ASSUME RegistryInv, QuietInv, ServiceInv, Idle, NEW c \in Channel, NEW e \in Edges,
         NEW b \in BounceTimes, NEW added \in BOOLEAN, EdgeAdded(c) = "none", NewGpio(c, e, b, added)
  PROVE  Unseen(c) /\ c \notin Registered /\ rec'[c].threadAdded = added
<1>1. c \notin Registered
  BY NoEdgeIsUnlisted
<1>2. LowestFd \in Fd /\ valueFile[LowestFd] = Null
  BY LowestFdIsFree DEF NewGpio, FreeFds
<1>3. rec'[c] = NewRecord(e, b, added)
  BY QuietTypes DEF NewGpio
<1>4. rec'[c].fd = LowestFd /\ rec'[c].initialThread /\ rec'[c].threadAdded = added
  BY <1>3 DEF NewRecord
<1>5. \A t \in Thread : pc[t] \in {"read", "lookup"} => ptr[t] # LowestFd
  BY <1>2, ServiceFacts
<1>6. \A t \in Thread : pc[t] \in {"use", "first"} => ptr[t] # c
  BY <1>1, ServiceFacts DEF ServiceInv, HeldIsArmed
<1>7. epfdThread # 0 => LowestFd \notin epoll[epfdThread].fds
  BY <1>2, QuietTypes DEF QuietInv, WatchedIsOpen
<1> QED BY <1>1, <1>4, <1>5, <1>6, <1>7 DEF Unseen

LEMMA UnarmedStaysUnseen ==
  ASSUME RegistryInv, QuietInv, ServiceInv, NEW c \in Registered, ~rec[c].threadAdded,
         rec'[c].initialThread = rec[c].initialThread, rec'[c].fd = rec[c].fd
  PROVE  Unseen(c)
BY DEF ServiceInv, UnarmedIsUnseen, Unseen, Holders, Carries

\* A channel is looked up or registered, and the poll threads learn nothing of it.
LEMMA RegistersUnseen ==
  ASSUME RegistryInv, QuietInv, ServiceInv, Idle, NEW c \in Channel, Registers(c),
         rec'[c].threadAdded <=> c \in ArmedChannels,
         c \in ArmedChannels => rec'[c].initialThread = rec[c].initialThread,
         c \notin ArmedChannels => Unseen(c),
         UNCHANGED <<epfdThread, pc, ptr, op, eventOccurred>>,
         epfdThread # 0 => epoll'[epfdThread] = epoll[epfdThread],
         InstancesApart'
  PROVE  ServiceInv' /\ UNCHANGED Service!vars
<1>1. ArmedChannels \subseteq Registered /\ Registered \subseteq Channel /\ 0 \notin Ep /\ epfdThread \in Ep \cup {0}
  BY ServiceFacts, QuietTypes
<1>2. /\ Registered' = Registered \cup {c} /\ \A d \in Channel \ {c} : rec'[d] = rec[d]
      /\ c \in Registered => rec'[c].fd = rec[c].fd
      /\ rec'[c].edge # "none"
  BY Parameters DEF Registers
<1>3. ArmedChannels' = ArmedChannels
  BY <1>1, <1>2 DEF ArmedChannels
<1>4. \A d \in Registered : rec'[d].fd = rec[d].fd
  BY <1>1, <1>2
<1>5. \A d \in Registered : Holders(d)' = Holders(d) /\ Reports(d)' = Reports(d)
  BY <1>1, <1>4 DEF Holders, Carries, Reports
<1>6. \A d \in ArmedChannels : Same(d)
  BY <1>1, <1>2, <1>5 DEF Same
<1>7. UNCHANGED Service!vars
  BY <1>3, <1>6, Stutters
<1>8. FirstInFlight'
  BY <1>3, <1>6 DEF ServiceInv, FirstInFlight, Same
<1>9. UnarmedIsUnseen'
  <2> SUFFICES ASSUME NEW d \in Registered', ~rec'[d].threadAdded
               PROVE  /\ rec'[d].initialThread /\ Holders(d)' = {}
                      /\ epfdThread # 0 => rec'[d].fd \notin epoll[epfdThread].fds
    BY <1>1, <1>2 DEF UnarmedIsUnseen
  <2>1. CASE d = c
    BY <2>1 DEF Unseen, Holders, Carries
  <2>2. CASE d # c
    BY <1>1, <1>2, <1>5, <2>2 DEF ServiceInv, UnarmedIsUnseen
  <2> QED BY <2>1, <2>2
<1>10. HeldIsArmed'
  BY <1>3 DEF ServiceInv, HeldIsArmed, Idle, NoOp, HalfRemoved
<1> QED BY <1>7, <1>8, <1>9, <1>10 DEF ServiceInv

\* A descriptor is watched by the instance in fd or by a new one: the others are as they were.
LEMMA OtherInstances ==
  ASSUME RegistryInv, NEW fd \in {epfdThread, epfdBlocking}, NEW ep \in EpollFor(fd),
         NEW f \in Fd, epoll' = Watched(Created(epoll, ep), ep, f)
  PROVE  /\ ep \in Ep /\ \A e \in Ep \ {ep} : epoll'[e] = epoll[e]
         /\ fd # 0 => ep = fd
         /\ fd = 0 => ~epoll[ep].open /\ ~Waited(ep)
         /\ f \in epoll'[ep].ready
         /\ fd # 0 /\ epoll[ep].open => \A g \in Fd : g # f => (g \in epoll'[ep].ready <=> g \in epoll[ep].ready)
         /\ fd # 0 /\ epoll[ep].open => \A g \in Fd : g # f => (g \in epoll'[ep].fds <=> g \in epoll[ep].fds)
         /\ fd = 0 => epoll'[ep].fds = {f} /\ epoll'[ep].ready = {f}
<1>1. /\ epoll \in [Ep -> [open : BOOLEAN, fds : SUBSET Fd, ready : SUBSET Fd]]
      /\ fd \in Ep \cup {0} /\ 0 \notin Ep
  BY QuietTypes
<1>2. ep \in Ep /\ (fd # 0 => ep = fd) /\ (fd = 0 => ~epoll[ep].open /\ ~Waited(ep))
  BY <1>1 DEF EpollFor, FreeEps
<1>3. PICK w : w = Created(epoll, ep)
  OBVIOUS
<1>4. /\ w \in [Ep -> [open : BOOLEAN, fds : SUBSET Fd, ready : SUBSET Fd]]
      /\ \A e \in Ep \ {ep} : w[e] = epoll[e]
      /\ w[ep].fds = IF epoll[ep].open THEN epoll[ep].fds ELSE {}
      /\ w[ep].ready = IF epoll[ep].open THEN epoll[ep].ready ELSE {}
  BY <1>1, <1>2, <1>3 DEF Created, NoEpoll
<1>5. /\ \A e \in Ep \ {ep} : epoll'[e] = w[e]
      /\ epoll'[ep].fds = w[ep].fds \cup {f} /\ epoll'[ep].ready = w[ep].ready \cup {f}
  BY <1>2, <1>3, <1>4 DEF Watched
<1> QED BY <1>2, <1>4, <1>5

\* What add_edge_detect works on is not armed.
LEMMA ObtainIsUnseen ==
  ASSUME RegistryInv, QuietInv, ServiceInv, Idle, NEW c \in Channel, NEW e \in Edges,
         NEW b \in BounceTimes, NEW added \in BOOLEAN, Obtain(c, e, b, added)
  PROVE  c \notin ArmedChannels /\ Unseen(c) /\ rec'[c].threadAdded = added /\ Registers(c)
<1>1. Registers(c)
  BY ObtainRegisters
<1>2. CASE EdgeAdded(c) = "none"
  <2>1. NewGpio(c, e, b, added)
    BY <1>2, Parameters DEF Obtain
  <2> QED BY <1>1, <1>2, <2>1, NewIsUnseen, ServiceFacts
<1>3. CASE EdgeAdded(c) # "none"
  <2>1. c \in Registered /\ ~rec[c].threadAdded /\ rec' = [rec EXCEPT ![c].threadAdded = added]
    BY <1>3 DEF Obtain, EdgeAdded
  <2>2. rec'[c].threadAdded = added /\ rec'[c].initialThread = rec[c].initialThread /\ rec'[c].fd = rec[c].fd
    BY <2>1, QuietTypes DEF Record
  <2>3. Unseen(c)
    BY <2>1, <2>2, UnarmedStaysUnseen
  <2> QED BY <1>1, <2>1, <2>2, <2>3 DEF ArmedChannels
<1> QED BY <1>2, <1>3

\* add_edge_detect: the channel is armed, with its first report and nothing else in flight.
LEMMA AddArms ==
  ASSUME RegistryInv, QuietInv, ServiceInv, IsFiniteSet(Thread), NEW a, NEW c \in Channel,
         NEW e \in Edges, NEW b \in BounceTimes, AddEdgeDetect(a, c, e, b)
  PROVE  ServiceInv' /\ Service!Next
<1>1. /\ Idle /\ Obtain(c, e, b, TRUE)
      /\ UNCHANGED <<eventOccurred, epfdBlocking, ptr, op, wait>>
  BY DEF AddEdgeDetect, CanCall
<1>2. PICK ep \in EpollFor(epfdThread) :
        epfdThread' = ep /\ epoll' = Watched(Created(epoll, ep), ep, rec'[c].fd)
  BY DEF AddEdgeDetect
<1>3. c \notin ArmedChannels /\ Unseen(c) /\ rec'[c].threadAdded /\ Registers(c)
  BY <1>1, ObtainIsUnseen
<1>4. PICK f : f = rec'[c].fd
  OBVIOUS
<1>5. /\ Registered' = Registered \cup {c} /\ \A d \in Channel \ {c} : rec'[d] = rec[d]
      /\ f \in Fd /\ rec'[c].edge # "none" /\ rec'[c].initialThread
      /\ \A d \in Registered \ {c} : rec[d].fd # f
  BY <1>3, <1>4, Parameters DEF Registers, Unseen
<1>6. /\ ep \in Ep /\ \A g \in Ep \ {ep} : epoll'[g] = epoll[g]
      /\ epfdThread # 0 => ep = epfdThread
      /\ epfdThread = 0 => ~epoll[ep].open /\ ~Waited(ep)
      /\ f \in epoll'[ep].ready
      /\ epfdThread # 0 /\ epoll[ep].open => \A g \in Fd : g # f => (g \in epoll'[ep].ready <=> g \in epoll[ep].ready)
      /\ epfdThread # 0 /\ epoll[ep].open => \A g \in Fd : g # f => (g \in epoll'[ep].fds <=> g \in epoll[ep].fds)
      /\ epfdThread = 0 => epoll'[ep].fds = {f} /\ epoll'[ep].ready = {f}
  BY <1>2, <1>4, <1>5, OtherInstances
<1>7. /\ ArmedChannels \subseteq Registered /\ Registered \subseteq Channel
      /\ ArmedChannels # {} => epfdThread # 0
      /\ \A d \in Registered : rec[d].fd \in Fd
      /\ epfdThread # 0 => epoll[epfdThread].open
  BY ServiceFacts DEF QuietInv, WatchedIsOpen
<1>8. ArmedChannels' = ArmedChannels \cup {c}
  BY <1>3, <1>5, <1>7 DEF ArmedChannels
<1>9. /\ \A t \in Thread : pc'[t] = pc[t] \/ (pc[t] = "none" /\ pc'[t] = "start")
      /\ \A t \in Thread : ptr'[t] = ptr[t]
  <2>1. pc' = pc \/ \E t \in Thread : pc[t] = "none" /\ pc' = [pc EXCEPT ![t] = "start"]
    BY DEF AddEdgeDetect, StartPoller
  <2> QED BY <1>1, <2>1, QuietTypes
<1>10. \A d \in Registered \ {c} : Holders(d)' = Holders(d)
  <2> SUFFICES ASSUME NEW d \in Registered \ {c} PROVE Holders(d)' = Holders(d)
    OBVIOUS
  <2>1. \A t \in Thread : Carries(t, d)' <=> Carries(t, d)
    BY <1>5, <1>7, <1>9 DEF Carries
  <2> QED BY <2>1 DEF Holders
<1>11. Holders(c)' = {} /\ Reports(c)' = {ep}
  <2>1. \A t \in Thread : ~Carries(t, c)'
    BY <1>3, <1>9 DEF Carries, Unseen
  <2> QED BY <1>2, <1>4, <1>6, <2>1 DEF Holders, Reports
<1>12. \A d \in ArmedChannels : Same(d)
  <2> SUFFICES ASSUME NEW d \in ArmedChannels PROVE Same(d)
    OBVIOUS
  <2>1. d \in Registered \ {c} /\ epfdThread # 0 /\ rec[d].fd # f /\ rec[d].fd \in Fd /\ rec'[d] = rec[d]
    BY <1>3, <1>5, <1>7
  <2>2. Reports(d)' = Reports(d)
    BY <1>2, <1>6, <1>7, <2>1 DEF Reports
  <2> QED BY <1>10, <2>1, <2>2 DEF Same
<1>13. Undelivered[c] = 0 /\ Undelivered'[c] = 0
  <2>1. Cardinality({}) = 0
    BY FS_EmptySet
  <2>2. InFlight(c)' = 1
    BY <1>11, <2>1, FlightIsNext
  <2> QED BY <1>3, <1>5, <1>8, <2>2, UndeliveredIsNext DEF Undelivered
<1>14. Undelivered' = Undelivered
  <2>1. Undelivered' = [Undelivered EXCEPT ![c] = 0]
    BY <1>8, <1>12, <1>13, OnlyChannel
  <2> QED BY <1>13, <2>1 DEF Undelivered
<1>15. Service!Arm(c)
  BY <1>1, <1>3, <1>8, <1>14 DEF Service!Arm
<1>16. FirstInFlight'
  BY <1>8, <1>11, <1>12 DEF ServiceInv, FirstInFlight, Same
<1>17. UnarmedIsUnseen'
  <2> SUFFICES ASSUME NEW d \in Registered', ~rec'[d].threadAdded
               PROVE  /\ rec'[d].initialThread /\ Holders(d)' = {} /\ rec'[d].fd \notin epoll'[ep].fds
    BY <1>2 DEF UnarmedIsUnseen
  <2>1. d \in Registered \ {c} /\ rec'[d] = rec[d] /\ rec[d].fd \in Fd /\ rec[d].fd # f
    BY <1>3, <1>5, <1>7
  <2>2. /\ rec[d].initialThread /\ Holders(d) = {}
        /\ epfdThread # 0 => rec[d].fd \notin epoll[epfdThread].fds
    BY <2>1 DEF ServiceInv, UnarmedIsUnseen
  <2> QED BY <1>6, <1>7, <1>10, <2>1, <2>2
<1>18. HeldIsArmed'
  <2>1. \A t \in Thread : pc'[t] \in {"use", "first"} => ptr'[t] \in ArmedChannels
    BY <1>9 DEF ServiceInv, HeldIsArmed
  <2>2. \A d \in Channel : ~HalfRemoved(d)'
    BY <1>1 DEF Idle, NoOp, HalfRemoved
  <2> QED BY <1>1, <1>8, <2>1, <2>2 DEF ServiceInv, HeldIsArmed
<1>19. InstancesApart'
  <2>1. CASE epfdThread # 0
    BY <1>1, <1>2, <1>6, <2>1 DEF ServiceInv, InstancesApart
  <2>2. CASE epfdThread = 0
    BY <1>1, <1>2, <1>6, <2>2 DEF InstancesApart, Waited, QuietInv, WatchedIsOpen
  <2> QED BY <2>1, <2>2
<1> QED BY <1>15, <1>16, <1>17, <1>18, <1>19 DEF Service!Next, ServiceInv

\* Those that register a channel without arming it change nothing of the service.
LEMMA NoEpollStutters ==
  ASSUME RegistryInv, QuietInv, ServiceInv, NEW a, NEW c \in Channel, NEW e \in Edges,
         NEW b \in BounceTimes, AddNoEpoll(a, c, e, b)
  PROVE  ServiceInv' /\ UNCHANGED Service!vars
<1>1. /\ Idle /\ Obtain(c, e, b, FALSE)
      /\ UNCHANGED <<epfdThread, epfdBlocking, epoll, pc, ptr, op, wait, eventOccurred>>
  BY DEF AddNoEpoll, CanCall, threadVars
<1>2. c \notin ArmedChannels /\ Unseen(c) /\ ~rec'[c].threadAdded /\ Registers(c)
  BY <1>1, ObtainIsUnseen
<1>3. InstancesApart'
  BY <1>1 DEF ServiceInv, InstancesApart
<1> QED BY <1>1, <1>2, <1>3, RegistersUnseen

\* wait_for_edge registers a channel, or takes one as it is, or changes its edge.
LEMMA WaitRecordIsUnseen ==
  ASSUME RegistryInv, QuietInv, ServiceInv, Idle, NEW c \in Channel, NEW e \in Edges,
         NEW b \in BounceTimes, WaitRecord(c, e, b)
  PROVE  /\ Registers(c)
         /\ rec'[c].threadAdded <=> c \in ArmedChannels
         /\ c \in ArmedChannels => rec'[c].initialThread = rec[c].initialThread
         /\ c \notin ArmedChannels => Unseen(c)
<1>1. Registers(c)
  BY WaitRecordRegisters
<1>2. CASE EdgeAdded(c) = "none"
  <2>1. NewGpio(c, e, b, FALSE)
    BY <1>2, Parameters DEF WaitRecord
  <2> QED BY <1>1, <1>2, <2>1, NewIsUnseen, ServiceFacts
<1>3. CASE EdgeAdded(c) # "none"
  <2>1. c \in Registered /\ rec[c].edge # "none"
    BY <1>3 DEF EdgeAdded
  <2>2. rec' = rec \/ rec' = [rec EXCEPT ![c].edge = e, ![c].bouncetime = b]
    BY <1>3 DEF WaitRecord
  <2>3. /\ rec'[c].threadAdded = rec[c].threadAdded /\ rec'[c].initialThread = rec[c].initialThread
        /\ rec'[c].fd = rec[c].fd /\ rec[c].threadAdded \in BOOLEAN
    BY <2>2, QuietTypes DEF Record
  <2>4. c \in ArmedChannels <=> rec[c].threadAdded
    BY <2>1 DEF ArmedChannels
  <2>5. ~rec[c].threadAdded => Unseen(c)
    BY <2>1, <2>3, UnarmedStaysUnseen
  <2> QED BY <1>1, <2>3, <2>4, <2>5
<1> QED BY <1>2, <1>3

LEMMA WaitCallStutters ==
  ASSUME RegistryInv, QuietInv, ServiceInv, WaitCall
  PROVE  ServiceInv' /\ UNCHANGED Service!vars
<1>1. PICK c \in Channel, e \in Edges, b \in BounceTimes : WaitForEdge(c, e, b) \/ WaitNoEpoll(c, e, b)
  BY DEF WaitCall
<1>2. Idle /\ WaitRecord(c, e, b) /\ UNCHANGED <<epfdThread, pc, ptr, op, eventOccurred>>
  BY <1>1 DEF WaitForEdge, WaitNoEpoll, CanCall, threadVars
<1>3. /\ Registers(c)
      /\ rec'[c].threadAdded <=> c \in ArmedChannels
      /\ c \in ArmedChannels => rec'[c].initialThread = rec[c].initialThread
      /\ c \notin ArmedChannels => Unseen(c)
  BY <1>2, WaitRecordIsUnseen
<1>4. CASE WaitNoEpoll(c, e, b)
  <2>1. UNCHANGED <<epoll, epfdBlocking, wait>>
    BY <1>4 DEF WaitNoEpoll
  <2>2. InstancesApart'
    BY <1>2, <2>1 DEF ServiceInv, InstancesApart
  <2> QED BY <1>2, <1>3, <2>1, <2>2, RegistersUnseen
<1>5. CASE WaitForEdge(c, e, b)
  <2>1. PICK ep \in EpollFor(epfdBlocking) :
          /\ epfdBlocking' = ep /\ epoll' = Watched(Created(epoll, ep), ep, rec'[c].fd)
          /\ wait' = [ch |-> c, ep |-> ep, initial |-> TRUE]
    BY <1>5 DEF WaitForEdge
  <2>2. rec'[c].fd \in Fd
    BY <1>3 DEF Registers
  <2>3. /\ ep \in Ep /\ \A g \in Ep \ {ep} : epoll'[g] = epoll[g]
        /\ epfdBlocking # 0 => ep = epfdBlocking
        /\ epfdBlocking = 0 => ~epoll[ep].open
    BY <2>1, <2>2, OtherInstances
  <2>4. epfdThread # 0 => ep # epfdThread /\ epfdThread \in Ep
    BY <2>3, QuietTypes DEF ServiceInv, InstancesApart, QuietInv, WatchedIsOpen
  <2>5. InstancesApart'
    BY <1>2, <2>1, <2>4 DEF InstancesApart
  <2>6. epfdThread # 0 => epoll'[epfdThread] = epoll[epfdThread]
    BY <2>3, <2>4
  <2> QED BY <1>2, <1>3, <2>5, <2>6, RegistersUnseen
<1> QED BY <1>1, <1>4, <1>5

LEMMA DetectDetects ==
  ASSUME RegistryInv, ServiceInv, NEW a, NEW c \in Channel, EventDetected(a, c)
  PROVE  ServiceInv' /\ Service!Next
<1>1. /\ eventOccurred[c] /\ eventOccurred' = [eventOccurred EXCEPT ![c] = FALSE]
      /\ UNCHANGED <<gpioList, rec, epoll, epfdThread, epfdBlocking, wait, pc, ptr, op>>
  BY DEF EventDetected, ClearFlag, listVars, kernelVars, threadVars
<1>2. eventOccurred \in [Channel -> BOOLEAN]
  BY DEF RegistryInv, TypeOK
<1>3. Registered' = Registered /\ ArmedChannels' = ArmedChannels
  BY <1>1 DEF Registered, ArmedChannels
<1>4. \A d : Holders(d)' = Holders(d) /\ Reports(d)' = Reports(d)
  BY <1>1 DEF Holders, Carries, Reports
<1>5. \A d \in Channel : Undelivered'[d] = Undelivered[d]
  BY <1>1, <1>3, <1>4, SameUndelivered DEF Same
<1>6. Undelivered' = Undelivered
  BY <1>5 DEF Undelivered
<1>7. {d \in Channel : eventOccurred'[d]} = {d \in Channel : eventOccurred[d]} \ {c}
  BY <1>1, <1>2
<1>8. Service!Detect(c)
  BY <1>1, <1>3, <1>6, <1>7 DEF Service!Detect
<1>9. FirstInFlight' /\ UnarmedIsUnseen' /\ InstancesApart'
  BY <1>1, <1>3, <1>4 DEF ServiceInv, FirstInFlight, UnarmedIsUnseen, InstancesApart
<1>10. HeldIsArmed'
  BY <1>1, <1>2, <1>3 DEF ServiceInv, HeldIsArmed, HalfRemoved
<1> QED BY <1>8, <1>9, <1>10 DEF Service!Next, ServiceInv

\* The first half of a removal disarms the channel, if it was armed.
LEMMA DisarmDisarms ==
  ASSUME RegistryInv, QuietInv, ServiceInv, IsFiniteSet(Thread), RemoveDisarm
  PROVE  ServiceInv' /\ [Service!Next]_(Service!vars)
<1>1. /\ \A t \in Thread : pc[t] \in {"none", "blocked"}
      /\ op.kind \in {"remove", "cleanup"}
  <2>1. op.kind \in {"remove", "cleanup"} /\ ~Idle
    BY DEF RemoveDisarm, Idle, NoOp
  <2> QED BY <2>1, SleepersKeepPointers
<1>2. PICK c \in Channel :
        /\ op.cur = c
        /\ epoll' = Unwatched(epoll, Ep, rec[c].fd)
        /\ eventOccurred' = ClearFlag(c)
        /\ rec' = [rec EXCEPT ![c].edge = "none"]
        /\ op' = [op EXCEPT !.phase = "end", !.temp = TempAfter(c)]
  BY DEF RemoveDisarm
<1>3. UNCHANGED <<gpioList, epfdThread, epfdBlocking, pc, wait>>
  BY DEF RemoveDisarm
<1>4. PICK f : f = rec[c].fd
  OBVIOUS
<1>5. /\ rec \in [Channel -> Record] /\ eventOccurred \in [Channel -> BOOLEAN]
      /\ op' \in [kind : {"idle", "remove", "cleanup"}, by : Thread \cup {Main, Null},
             target : Channel \cup {"all", Null}, cur : Channel \cup {Null, Dangling},
             temp : Channel \cup {Null, Dangling}, phase : {"begin", "end"}]
      /\ op'.phase = "end" /\ op'.cur = c
  BY <1>2, NextRegistryInv DEF RegistryInv, TypeOK, Next, OpStep, QuietInv, Unhurried
<1>6. /\ \A d \in Channel : /\ rec'[d].fd = rec[d].fd /\ rec'[d].threadAdded = rec[d].threadAdded
                            /\ rec'[d].initialThread = rec[d].initialThread
                            /\ rec'[d].edge = IF d = c THEN "none" ELSE rec[d].edge
      /\ \A d \in Channel : eventOccurred'[d] <=> eventOccurred[d] /\ d # c
  BY <1>2, <1>5 DEF Record, ClearFlag
<1>7. \A e \in Ep : epoll'[e].fds = epoll[e].fds \ {f} /\ epoll'[e].ready = epoll[e].ready \ {f}
  BY <1>2, <1>4, QuietTypes DEF Unwatched
<1>8. ArmedChannels \subseteq Registered /\ Registered \subseteq Channel /\ Registered' = Registered
  BY <1>3, ServiceFacts DEF Registered
<1>9. ArmedChannels' = ArmedChannels \ {c}
  BY <1>6, <1>8 DEF ArmedChannels
<1>10. \A d : Holders(d) = {} /\ Holders(d)' = {}
  BY <1>1, <1>3 DEF Holders, Carries
<1>11. c \in ArmedChannels => \A d \in ArmedChannels \ {c} : rec[d].fd # f
  BY <1>4, ServiceFacts
<1>12. c \in Registered /\ ~HalfRemoved(c)
  <2>1. op.phase = "begin"
    BY DEF RemoveDisarm
  <2> QED BY <1>1, <1>2, <2>1, Parameters DEF RegistryInv, OperationOnRegistered, HalfRemoved
<1>13. \A d \in ArmedChannels \ {c} : rec[d].fd # f
  <2>1. valueFile[f] = c
    BY <1>4, <1>12 DEF RegistryInv, RegistryMatchesKernel
  <2> QED BY <2>1, ServiceFacts
<1>14. \A d \in ArmedChannels \ {c} : Same(d)
  <2> SUFFICES ASSUME NEW d \in ArmedChannels \ {c} PROVE Same(d)
    OBVIOUS
  <2>1. rec'[d].fd = rec[d].fd /\ rec[d].fd # f /\ rec'[d].initialThread = rec[d].initialThread
    BY <1>6, <1>8, <1>13
  <2>2. Reports(d)' = Reports(d)
    BY <1>3, <1>7, <2>1 DEF Reports
  <2> QED BY <1>10, <2>1, <2>2 DEF Same
<1>15. Undelivered'[c] = 0
  BY <1>9 DEF Undelivered
<1>16. Undelivered' = [Undelivered EXCEPT ![c] = 0]
  BY <1>9, <1>14, <1>15, OnlyChannel
<1>17. {d \in Channel : eventOccurred'[d]} = {d \in Channel : eventOccurred[d]} \ {c}
  BY <1>6
<1>18. [Service!Next]_(Service!vars)
  <2>1. CASE c \in ArmedChannels
    <3>1. Service!Disarm(c)
      BY <1>9, <1>16, <1>17, <2>1 DEF Service!Disarm
    <3> QED BY <3>1 DEF Service!Next
  <2>2. CASE c \notin ArmedChannels
    <3>1. ~eventOccurred[c] /\ Undelivered[c] = 0
      BY <2>2 DEF ServiceInv, HeldIsArmed, Undelivered
    <3>2. Undelivered' = Undelivered
      BY <1>16, <3>1 DEF Undelivered
    <3>3. {d \in Channel : eventOccurred'[d]} = {d \in Channel : eventOccurred[d]}
      BY <1>17, <3>1
    <3> QED BY <1>9, <2>2, <3>2, <3>3 DEF Service!vars
  <2> QED BY <2>1, <2>2
<1>19. FirstInFlight'
  BY <1>9, <1>14 DEF ServiceInv, FirstInFlight, Same
<1>20. UnarmedIsUnseen'
  <2>1. epfdThread # 0 => epfdThread \in Ep
    BY QuietTypes
  <2> QED BY <1>3, <1>6, <1>7, <1>8, <1>10, <2>1 DEF ServiceInv, UnarmedIsUnseen
<1>21. HeldIsArmed'
  <2>1. \A d \in Channel : HalfRemoved(d)' => rec'[d].edge = "none"
    BY <1>5, <1>6 DEF HalfRemoved
  <2> QED BY <1>1, <1>3, <1>6, <1>9, <2>1 DEF ServiceInv, HeldIsArmed
<1>22. InstancesApart'
  BY <1>3 DEF ServiceInv, InstancesApart
<1> QED BY <1>18, <1>19, <1>20, <1>21, <1>22 DEF ServiceInv

\* The second half removes a record that is not armed any more.
LEMMA FreeStutters ==
  ASSUME RegistryInv, QuietInv, ServiceInv, RemoveFree
  PROVE  ServiceInv' /\ UNCHANGED Service!vars
<1>1. op.phase = "end" /\ ~Idle
  BY DEF RemoveFree, Idle, NoOp
<1>2. \A t \in Thread : pc[t] \in {"none", "blocked"}
  BY <1>1, SleepersKeepPointers
<1>3. PICK c \in Channel :
        /\ op.cur = c
        /\ gpioList' = RemoveAt(gpioList, Position(c))
        /\ rec' = [rec EXCEPT ![c] = NoRec]
        /\ LET next == IF op.temp = c THEN Dangling ELSE op.temp
           IN op' = IF op.kind = "remove" THEN NoOp
                    ELSE [op EXCEPT !.phase = "begin", !.cur = next, !.temp = next]
  BY DEF RemoveFree
<1>4. UNCHANGED <<epfdThread, epfdBlocking, epoll, pc, wait, eventOccurred>>
  BY DEF RemoveFree, kernelVars
<1>5. HalfRemoved(c) /\ gpioList \in Seq(Channel) /\ IsInjective(gpioList) /\ c \in Registered
  BY <1>1, <1>3 DEF RegistryInv, TypeOK, RegistryMatchesKernel, HalfRemovedIsDisarmed, HalfRemoved
<1>6. Registered' = Registered \ {c}
  <2>1. Position(c) \in 1..Len(gpioList) /\ gpioList[Position(c)] = c
    BY <1>5, PositionIsThere
  <2> QED BY <1>3, <1>5, <2>1, Unlink DEF Registered
<1>7. c \notin ArmedChannels /\ ArmedChannels \subseteq Registered /\ Registered \subseteq Channel
  BY <1>5, ServiceFacts
<1>8. \A d \in Channel \ {c} : rec'[d] = rec[d]
  BY <1>3, QuietTypes
<1>9. ArmedChannels' = ArmedChannels
  BY <1>6, <1>7, <1>8 DEF ArmedChannels
<1>10. \A d : Holders(d) = {} /\ Holders(d)' = {}
  BY <1>2, <1>4 DEF Holders, Carries
<1>11. \A d \in Channel \ {c} : Reports(d)' = Reports(d)
  BY <1>4, <1>8 DEF Reports
<1>12. \A d \in ArmedChannels : Same(d)
  BY <1>7, <1>8, <1>10, <1>11 DEF Same
<1>13. UNCHANGED Service!vars
  BY <1>4, <1>9, <1>12, Stutters
<1>14. FirstInFlight'
  BY <1>9, <1>12 DEF ServiceInv, FirstInFlight, Same
<1>15. UnarmedIsUnseen'
  BY <1>4, <1>6, <1>7, <1>8, <1>10 DEF ServiceInv, UnarmedIsUnseen
<1>16. op'.phase = "begin"
  BY <1>3 DEF NoOp, RegistryInv, TypeOK
<1>17. HeldIsArmed'
  BY <1>2, <1>4, <1>9, <1>16 DEF ServiceInv, HeldIsArmed, HalfRemoved
<1>18. InstancesApart'
  BY <1>4 DEF ServiceInv, InstancesApart
<1> QED BY <1>13, <1>14, <1>15, <1>17, <1>18 DEF ServiceInv

\* After cleanup nothing is registered: what was flagged and in flight is gone already.
LEMMA FinishStutters ==
  ASSUME RegistryInv, QuietInv, ServiceInv, CleanupInOrder, CleanupFinish
  PROVE  ServiceInv' /\ UNCHANGED Service!vars
<1>1. ~Idle /\ CleansAll /\ op.cur = Null
  <2>1. op.kind = "cleanup" /\ op.cur = Null
    BY DEF CleanupFinish
  <2> QED BY <2>1 DEF Idle, NoOp, QuietInv, Unhurried, CleansAll
<1>2. gpioList = <<>> /\ gpioList' = <<>>
  <2>1. gpioList \in Seq(Channel)
    BY DEF RegistryInv, TypeOK
  <2>2. ASSUME gpioList # <<>> PROVE gpioList[1] \in Channel
    BY <2>1, <2>2, LenProperties, EmptySeq, ElementOfSeq
  <2> QED BY <1>1, <2>2, Parameters DEF CleanupInOrder, FirstOf, CleanupFinish, listVars
<1>3. Registered = {} /\ Registered' = {}
  BY <1>2 DEF Registered, ToSet
<1>4. ArmedChannels = {} /\ ArmedChannels' = {}
  BY <1>3 DEF ArmedChannels
<1>5. epfdThread' = 0 /\ op' = NoOp /\ UNCHANGED <<pc, ptr, eventOccurred>>
  BY DEF CleanupFinish, threadVars
<1>6. UNCHANGED Service!vars
  BY <1>4, <1>5, Stutters
<1>7. FirstInFlight' /\ UnarmedIsUnseen' /\ InstancesApart'
  BY <1>3, <1>4, <1>5 DEF FirstInFlight, UnarmedIsUnseen, InstancesApart
<1>8. HeldIsArmed'
  BY <1>4, <1>5 DEF ServiceInv, HeldIsArmed, HalfRemoved, NoOp
<1> QED BY <1>6, <1>7, <1>8 DEF ServiceInv

\* A waiter has a report of its own instance, and touches no other.
LEMMA WaitStepStutters ==
  ASSUME RegistryInv, QuietInv, ServiceInv, WaitStep
  PROVE  ServiceInv' /\ UNCHANGED Service!vars
<1>1. UNCHANGED <<gpioList, epfdThread, epfdBlocking, pc, ptr, op, eventOccurred>>
  BY DEF WaitStep, WaitAgain, WaitReturn, listVars, threadVars
<1>2. /\ epoll \in [Ep -> [open : BOOLEAN, fds : SUBSET Fd, ready : SUBSET Fd]]
      /\ epfdThread \in Ep \cup {0} /\ 0 \notin Ep /\ Registered \subseteq Channel
  BY QuietTypes
<1>3. \A d \in Channel : /\ rec'[d].fd = rec[d].fd /\ rec'[d].edge = rec[d].edge
                         /\ rec'[d].threadAdded = rec[d].threadAdded
                         /\ rec'[d].initialThread = rec[d].initialThread
  <2>1. rec' = rec \/ rec' = [rec EXCEPT ![wait.ch].called = TRUE]
    BY DEF WaitStep, WaitAgain, WaitReturn, listVars
  <2> QED BY <2>1, QuietTypes DEF Record
<1>4. ASSUME epfdThread # 0 PROVE epoll'[epfdThread] = epoll[epfdThread]
  <2>1. wait.ep # epfdThread /\ epfdThread \notin DoneWith
    BY <1>4 DEF ServiceInv, InstancesApart, DoneWith
  <2>2. PICK f : \/ epoll' = Reported(epoll, wait.ep, f)
                 \/ epoll' = Unwatched(Reported(epoll, wait.ep, f), DoneWith, f)
    BY DEF WaitStep, WaitAgain, WaitReturn
  <2>3. Reported(epoll, wait.ep, f)[epfdThread] = epoll[epfdThread]
    BY <1>2, <1>4, <2>1 DEF Reported
  <2>4. \A ep : Unwatched(ep, DoneWith, f)[epfdThread] = ep[epfdThread]
    BY <1>2, <1>4, <2>1 DEF Unwatched
  <2> QED BY <2>2, <2>3, <2>4
<1>5. InstancesApart'
  <2>1. wait'.ep \in {0, epfdBlocking}
    <3>1. WaitsOn.ep \in {0, epfdBlocking} /\ NoWait.ep = 0
      BY DEF WaitsOn, NoWait, RegistryInv, TypeOK
    <3> QED BY <3>1 DEF WaitStep, WaitAgain, WaitReturn
  <2> QED BY <1>1, <2>1 DEF ServiceInv, InstancesApart
<1>6. Registered' = Registered /\ ArmedChannels' = ArmedChannels
  BY <1>1, <1>2, <1>3 DEF Registered, ArmedChannels
<1>7. \A d \in Registered : Holders(d)' = Holders(d) /\ Reports(d)' = Reports(d)
  BY <1>1, <1>2, <1>3, <1>4 DEF Holders, Carries, Reports
<1>8. UNCHANGED Service!vars
  BY <1>1, <1>2, <1>3, <1>6, <1>7, Stutters DEF Same, ArmedChannels
<1>9. FirstInFlight'
  BY <1>2, <1>3, <1>6, <1>7 DEF ServiceInv, FirstInFlight, ArmedChannels
<1>10. UnarmedIsUnseen'
  BY <1>1, <1>2, <1>3, <1>4, <1>6, <1>7 DEF ServiceInv, UnarmedIsUnseen
<1>11. HeldIsArmed'
  BY <1>1, <1>3, <1>6 DEF ServiceInv, HeldIsArmed, HalfRemoved
<1> QED BY <1>5, <1>8, <1>9, <1>10, <1>11 DEF ServiceInv

\* An edge is one more report, if the channel is armed and has none waiting already.
LEMMA EdgeIsRecorded ==
  ASSUME RegistryInv, QuietInv, ServiceInv, QuietProgram, IsFiniteSet(Thread),
         NEW c \in Channel, Edge(c)
  PROVE  ServiceInv' /\ [Service!Next]_(Service!vars)
<1>1. /\ Idle /\ c \in Registered
      /\ UNCHANGED <<gpioList, rec, epfdThread, epfdBlocking, pc, ptr, wait, op, eventOccurred>>
  BY DEF Edge, QuietProgram, listVars, threadVars
<1>2. /\ epoll \in [Ep -> [open : BOOLEAN, fds : SUBSET Fd, ready : SUBSET Fd]]
      /\ epfdThread \in Ep \cup {0} /\ 0 \notin Ep /\ Registered \subseteq Channel
  BY QuietTypes
<1>3. PICK f : f = rec[c].fd
  OBVIOUS
<1>4. \A d \in Registered : d # c => rec[d].fd # f
  BY <1>1, <1>3, ServiceFacts
<1>5. rec[c].edge # "none"
  BY DEF Edge
<1>6. /\ \A e \in Ep : epoll'[e].fds = epoll[e].fds
      /\ \A e \in Ep : \A g : g # f => (g \in epoll'[e].ready <=> g \in epoll[e].ready)
      /\ \A e \in Ep : f \in epoll[e].ready => f \in epoll'[e].ready
      /\ \A e \in Ep : f \notin epoll[e].fds => epoll'[e] = epoll[e]
      /\ \A e \in Ep : f \in epoll[e].fds /\ epoll[e].open => f \in epoll'[e].ready
  BY <1>2, <1>3 DEF Edge
<1>7. Registered' = Registered /\ ArmedChannels' = ArmedChannels
  BY <1>1 DEF Registered, ArmedChannels
<1>8. \A d : Holders(d)' = Holders(d)
  BY <1>1 DEF Holders, Carries
<1>9. \A d \in Registered : d # c => Reports(d)' = Reports(d)
  BY <1>1, <1>4, <1>6 DEF Reports
<1>10. Reports(c) \subseteq Reports(c)'
  BY <1>1, <1>3, <1>6 DEF Reports
<1>11. ServiceInv'
  <2>1. FirstInFlight'
    <3>1. ArmedChannels \subseteq Registered
      BY DEF ArmedChannels
    <3> QED BY <1>1, <1>7, <1>8, <1>9, <1>10, <3>1 DEF ServiceInv, FirstInFlight
  <2>2. UnarmedIsUnseen'
    BY <1>1, <1>2, <1>6, <1>7, <1>8 DEF ServiceInv, UnarmedIsUnseen
  <2>3. HeldIsArmed' /\ InstancesApart'
    BY <1>1, <1>7 DEF ServiceInv, HeldIsArmed, HalfRemoved, InstancesApart
  <2> QED BY <2>1, <2>2, <2>3 DEF ServiceInv
<1>12. CASE Reports(c)' = Reports(c)
  <2>1. UNCHANGED Service!vars
    BY <1>1, <1>7, <1>8, <1>9, <1>12, Stutters DEF Same, ArmedChannels
  <2> QED BY <1>11, <2>1
<1>13. CASE Reports(c)' # Reports(c)
  <2>1. PICK e \in Ep : e = epfdThread /\ f \in epoll'[e].ready /\ f \notin epoll[e].ready
    BY <1>1, <1>3, <1>10, <1>13 DEF Reports
  <2>2. f \in epoll[epfdThread].fds /\ epfdThread # 0
    BY <1>2, <1>6, <2>1
  <2>3. c \in ArmedChannels
    BY <1>1, <1>3, <1>5, <2>2 DEF ServiceInv, UnarmedIsUnseen, ArmedChannels
  <2>4. Reports(c) = {} /\ Reports(c)' # {}
    BY <1>1, <1>3, <2>1 DEF Reports
  <2>5. InFlight(c) \in Nat /\ InFlight(c)' = InFlight(c) + 1
    <3>1. /\ InFlight(c) = Cardinality(Holders(c)) + 0
          /\ InFlight(c) \in Nat /\ Cardinality(Holders(c)) \in Nat
      BY <2>4, FlightIs
    <3>2. InFlight(c)' = Cardinality(Holders(c)') + 1
      BY <2>4, FlightIsNext
    <3>3. Cardinality(Holders(c)') = Cardinality(Holders(c))
      BY <1>8
    <3> QED BY <3>1, <3>2, <3>3
  <2>6. Undelivered'[c] = Undelivered[c] + 1
    <3>1. CASE rec[c].initialThread
      <4>1. Undelivered[c] = InFlight(c) - 1
        BY <2>3, <3>1, UndeliveredIs DEF ServiceInv
      <4>2. Undelivered'[c] = InFlight(c)' - 1
        BY <1>1, <1>7, <2>3, <3>1, UndeliveredIsNext
      <4> QED BY <2>5, <4>1, <4>2
    <3>2. CASE ~rec[c].initialThread
      <4>1. Undelivered[c] = InFlight(c)
        BY <2>3, <3>2, UndeliveredIs DEF ServiceInv
      <4>2. Undelivered'[c] = InFlight(c)' - 0
        BY <1>1, <1>7, <2>3, <3>2, UndeliveredIsNext
      <4> QED BY <2>5, <4>1, <4>2
    <3> QED BY <3>1, <3>2
  <2>7. Undelivered' = [Undelivered EXCEPT ![c] = Undelivered[c] + 1]
    BY <1>1, <1>7, <1>8, <1>9, <2>6, OnlyChannel DEF Same, ArmedChannels
  <2>8. Service!Edge(c)
    BY <1>1, <1>7, <2>3, <2>7 DEF Service!Edge
  <2> QED BY <1>11, <2>8 DEF Service!Next
<1> QED BY <1>12, <1>13

\* Calls that only begin something, or add a callback.
LEMMA CallStutters ==
  ASSUME ServiceInv, NEW a, NEW c, NEW target,
         AddEdgeCallback(a, c) \/ RemoveEdgeDetect(a, c) \/ Cleanup(a, target)
  PROVE  ServiceInv' /\ UNCHANGED Service!vars
<1>1. UNCHANGED <<gpioList, rec, epoll, epfdThread, epfdBlocking, wait, pc, ptr, eventOccurred>>
  BY DEF AddEdgeCallback, RemoveEdgeDetect, Cleanup, listVars, kernelVars, threadVars
<1>2. op' = op \/ op'.phase = "begin"
  BY DEF AddEdgeCallback, RemoveEdgeDetect, Cleanup, NoOp
<1>3. \A d \in Channel : HalfRemoved(d)' => HalfRemoved(d)
  BY <1>2 DEF HalfRemoved
<1> QED BY <1>1, <1>3, ServiceFrame

LEMMA InitServes == Init => ServiceInv /\ Service!Init
<1> SUFFICES ASSUME Init PROVE ServiceInv /\ Service!Init
  OBVIOUS
<1>1. Registered = {} /\ ArmedChannels = {}
  BY DEF Init, Registered, ToSet, ArmedChannels
<1>2. FirstInFlight /\ UnarmedIsUnseen /\ InstancesApart
  BY <1>1 DEF Init, FirstInFlight, UnarmedIsUnseen, InstancesApart
<1>3. HeldIsArmed
  BY DEF Init, HeldIsArmed, HalfRemoved, NoOp
<1>4. Undelivered = [c \in Channel |-> 0]
  BY <1>1 DEF Undelivered
<1>5. {c \in Channel : eventOccurred[c]} = {}
  BY DEF Init
<1> QED BY <1>1, <1>2, <1>3, <1>4, <1>5 DEF ServiceInv, Service!Init

\* A quiet program's cleanup uses no freed record.
LEMMA NoFreedUsed ==
  ASSUME RegistryInv, QuietInv, CleanupInOrder
  PROVE  ~CleanupUsesFreed
<1> SUFFICES ASSUME CleanupUsesFreed PROVE FALSE
  OBVIOUS
<1>1. op.kind = "cleanup" /\ op.cur = Dangling
  BY DEF CleanupUsesFreed
<1>2. op.cur = FirstOf(gpioList)
  BY <1>1 DEF QuietInv, Unhurried, CleanupInOrder, CleansAll
<1>3. ASSUME gpioList # <<>> PROVE gpioList[1] \in Channel
  BY <1>3, LenProperties, EmptySeq, ElementOfSeq DEF RegistryInv, TypeOK
<1> QED BY <1>1, <1>2, <1>3, Parameters DEF FirstOf

\* Every step is a step of the service, or none that the program sees.
LEMMA NextServes ==
  ASSUME RegistryInv, CleanupInOrder, QuietInv, ServiceInv, QuietProgram, IsFiniteSet(Thread),
         [Next]_vars
  PROVE  ServiceInv' /\ [Service!Next]_(Service!vars)
<1>1. ASSUME NEW a \in Thread \cup {Main}, ClientCall(a) PROVE ServiceInv' /\ [Service!Next]_(Service!vars)
  <2>1. PICK c \in Channel :
          \/ \E e \in Edges, b \in BounceTimes :
               AddEdgeDetect(a, c, e, b) \/ AddNoEpoll(a, c, e, b) \/ \E added \in BOOLEAN : AddFails(a, c, e, b, added)
          \/ AddEdgeCallback(a, c) \/ RemoveEdgeDetect(a, c) \/ Cleanup(a, c) \/ EventDetected(a, c)
    BY <1>1 DEF ClientCall
  <2>2. CASE AddEdgeCallback(a, c) \/ RemoveEdgeDetect(a, c) \/ Cleanup(a, c)
    BY <2>2, CallStutters
  <2>3. CASE EventDetected(a, c)
    BY <2>3, DetectDetects
  <2>4. ASSUME NEW e \in Edges, NEW b \in BounceTimes,
               AddEdgeDetect(a, c, e, b) \/ AddNoEpoll(a, c, e, b) \/ \E added \in BOOLEAN : AddFails(a, c, e, b, added)
        PROVE  ServiceInv' /\ [Service!Next]_(Service!vars)
    <3>1. ASSUME NEW added \in BOOLEAN PROVE ~AddFails(a, c, e, b, added)
      BY Parameters DEF AddFails, OpsOf, QuietProgram
    <3> QED BY <2>4, <3>1, AddArms, NoEpollStutters
  <2> QED BY <2>1, <2>2, <2>3, <2>4
<1>2. ASSUME NEW a, Cleanup(a, "all") PROVE ServiceInv' /\ [Service!Next]_(Service!vars)
  BY <1>2, CallStutters
<1>3. CASE OpStep
  BY <1>3, DisarmDisarms, FreeStutters, FinishStutters, NoFreedUsed DEF OpStep
<1>4. CASE UNCHANGED vars
  <2>1. UNCHANGED <<gpioList, rec, epoll, epfdThread, epfdBlocking, wait, pc, ptr, eventOccurred, op>>
    BY <1>4 DEF vars
  <2>2. \A d \in Channel : HalfRemoved(d)' => HalfRemoved(d)
    BY <2>1 DEF HalfRemoved
  <2> QED BY <2>1, <2>2, ServiceFrame
<1> QED BY <1>1, <1>2, <1>3, <1>4, WaitCallStutters, WaitStepStutters, PollServes, EdgeIsRecorded DEF Next

\* To a quiet program with finitely many poll threads the library is an EdgeService:
\* only armed channels record edges, an event is delivered only for an edge recorded
\* since the channel was armed, the first report is none, and only a delivery sets
\* the flag.
THEOREM ServiceImplemented ==
  ASSUME QuietProgram, IsFiniteSet(Thread)
  PROVE  Spec => ServiceSpec
<1>1. Init => CleanupInOrder
  BY DEF Init, CleanupInOrder, CleansAll, NoOp
<1>2. RegistryInv /\ CleanupInOrder /\ [Next]_vars => CleanupInOrder'
  BY InOrderStep
<1>3. RegistryInv /\ CleanupInOrder /\ QuietInv /\ ServiceInv /\ [Next]_vars
        => ServiceInv' /\ [Service!Next]_(Service!vars)
  BY NextServes
<1>4. Spec => []RegistryInv /\ []QuietInv
  BY RegistryInvariant, QuietInvariant
<1> QED BY <1>1, <1>2, <1>3, <1>4, InitServes, PTL DEF Spec, ServiceSpec, Service!Spec
=============================================================================
