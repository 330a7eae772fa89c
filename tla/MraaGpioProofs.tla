--------------------------- MODULE MraaGpioProofs ---------------------------
(***************************************************************************)
(* Proofs about MraaGpio, for any number of contexts, pins and             *)
(* descriptors.                                                            *)
(***************************************************************************)
EXTENDS MraaGpio, WellFoundedInduction, TLAPS

-----------------------------------------------------------------------------
(* The kernel's choice of a descriptor, and its table.                     *)

LEMMA LowestIsFree ==
  ASSUME NEW fds, fds \subseteq Fd, FreeFds \cup fds # {}
  PROVE  LowestFree(fds) \in FreeFds \cup fds
<1> DEFINE S == FreeFds \cup fds
<1>1. FreeFds \subseteq Nat /\ Fd \subseteq Nat
  BY Parameters DEF FreeFds, Fd
<1>2. S \in SUBSET Nat /\ S # {}
  BY <1>1
<1> HIDE DEF S
<1>3. \E m \in S : \A n \in S : ~(<<n, m>> \in OpToRel(<, Nat))
  BY <1>2, NatLessThanWellFounded, WFMin
<1>4. PICK m \in S : \A n \in S : ~(<<n, m>> \in OpToRel(<, Nat))
  BY <1>3
<1>5. \A n \in S : ~(n < m)
  BY <1>2, <1>4 DEF OpToRel
<1>6. \E k \in S : \A n \in S : k <= n
  BY <1>2, <1>5
<1>7. (CHOOSE k \in S : \A n \in S : k <= n) \in S
  BY <1>6
<1> QED BY <1>7 DEF LowestFree, Min, S

Tables == file \in [Fd -> OpenFile] /\ queue \in [Fd -> 0..MaxEvents]

LEMMA FilesTyped ==
  ASSUME Tables, NEW fs, NEW f, NEW new \in OpenFile, Files(fs, f, new)
  PROVE  Tables'
<1>1. Closed \in OpenFile /\ 0 \in 0..MaxEvents
  BY Parameters DEF OpenFile
<1> QED BY <1>1 DEF Tables, Files

LEMMA FilesOfSteps ==
  /\ Closed \in OpenFile
  /\ \A d \in Dev : \A kind \in {"line", "event"} : File(d, kind) \in OpenFile
BY DEF OpenFile, File

-----------------------------------------------------------------------------
(* Types.                                                                  *)

LEMMA SomeIsPin == Some \in Pin
BY Parameters DEF Some

LEMMA NoneTyped == NoHandler \in Handler /\ NoContext \in Context
BY SomeIsPin DEF NoHandler, Handler, Pcs, NoContext, Context

LEMMA TypeInit == Init => TypeOK
<1> SUFFICES ASSUME Init PROVE TypeOK
  OBVIOUS
<1>1. chardev \in BOOLEAN /\ fault \in Faults \cup {"none"}
  BY Parameters DEF Init
<1>2. ctx \in [Dev -> Context] /\ handler \in [Dev -> Handler]
  BY NoneTyped DEF Init
<1>3. file \in [Fd -> OpenFile] /\ queue \in [Fd -> 0..MaxEvents]
  BY FilesOfSteps, Parameters DEF Init
<1>4. exported \subseteq Pin /\ edging \subseteq exported
  BY Parameters DEF Init
<1> QED BY <1>1, <1>2, <1>3, <1>4 DEF TypeOK

\* The updates of one context, and of one handler.
LEMMA ContextSet ==
  ASSUME TypeOK, NEW d \in Dev
  PROVE  /\ \A v \in BOOLEAN : /\ [ctx[d] EXCEPT !.open = v] \in Context
                               /\ [ctx[d] EXCEPT !.thread = v] \in Context
                               /\ [ctx[d] EXCEPT !.terminating = v] \in Context
         /\ \A f \in Fd \cup {0} : /\ [ctx[d] EXCEPT !.fp = f] \in Context
                                   /\ [ctx[d] EXCEPT !.ev = f] \in Context
         /\ \A e \in {"null", "live", "freed"} : [ctx[d] EXCEPT !.events = e] \in Context
BY DEF TypeOK, Context

LEMMA TypeCall == ASSUME TypeOK, NEW d \in Dev, Call(d) PROVE TypeOK'
<1>1. ASSUME NEW p \in Pin, InitContext(d, p) PROVE TypeOK'
  <2>1. [NoContext EXCEPT !.open = chardev, !.pin = p] \in Context
    BY SomeIsPin DEF TypeOK, NoContext, Context
  <2>2. ctx' \in [Dev -> Context]
    BY <1>1, <2>1 DEF TypeOK, InitContext
  <2> QED BY <1>1, <2>2 DEF TypeOK, InitContext, Begin, kernel
<1>2. CASE Isr(d) \/ IsrExit(d) \/ Close(d) \/ Use(d) \/ Dir(d)
  BY <1>2 DEF TypeOK, Isr, IsrExit, Close, Use, Dir, Begin, kernel
<1> QED BY <1>1, <1>2 DEF Call

LEMMA TypeCallStep == ASSUME TypeOK, NEW d \in Dev, CallStep(d) PROVE TypeOK'
<1>a. /\ ctx[d] \in Context /\ ctx \in [Dev -> Context] /\ Tables
      /\ handler[d] \in Handler /\ handler \in [Dev -> Handler]
  BY DEF TypeOK, Tables
<1>b. ctx[d].fp \in Fd \cup {0} /\ ctx[d].ev \in Fd \cup {0} /\ ctx[d].pin \in Pin
  BY <1>a DEF Context
<1>c. ctx[d].events \in {"null", "live", "freed"}
  BY <1>a DEF Context
<1>d. ASSUME NEW e \in {"null", "live", "freed"}, NEW f \in Fd \cup {0}, NEW g \in Fd \cup {0}
      PROVE  /\ [ctx[d] EXCEPT !.events = e, !.fp = f] \in Context
             /\ [ctx[d] EXCEPT !.events = e, !.fp = f, !.ev = g] \in Context
  BY <1>a DEF Context
<1>1. CASE StatExported(d)
  <2>1. ctx' \in [Dev -> Context]
    BY <1>1, <1>a, ContextSet DEF StatExported, Set
  <2> QED BY <1>1, <2>1 DEF TypeOK, StatExported, kernel
<1>2. CASE Export(d)
  <2>1. [ctx[d] EXCEPT !.owner = TRUE, !.open = TRUE] \in Context
    BY <1>a DEF Context
  <2>2. ctx' \in [Dev -> Context]
    BY <1>2, <1>a, <2>1 DEF Export, DoExport
  <2>3. exported' \subseteq Pin /\ exported \subseteq exported'
    BY <1>2, <1>b DEF Export, DoExport, TypeOK
  <2> QED BY <1>2, <2>2, <2>3 DEF TypeOK, Export
<1>3. CASE SysfsEdge(d)
  <2>1. Tables'
    BY <1>a, <1>3, FilesTyped, FilesOfSteps DEF SysfsEdge
  <2>2. PICK e \in {"null", "live", "freed"} : ctx' = [ctx EXCEPT ![d].events = e, ![d].fp = 0]
    BY <1>3, <1>c DEF SysfsEdge, NoFp
  <2>3. ctx' \in [Dev -> Context]
    BY <1>a, <1>d, <2>2
  <2>4. exported' = exported /\ edging' \subseteq exported
    BY <1>3 DEF SysfsEdge, TypeOK
  <2> QED BY <1>3, <2>1, <2>3, <2>4 DEF TypeOK, SysfsEdge, Tables
<1>4. CASE ChardevEdge(d)
  <2> DEFINE fds == {ctx[d].fp} \ {0}
  <2>1. fds \subseteq Fd
    BY <1>b
  <2>2. Tables'
    BY <1>a, <1>4, FilesTyped, FilesOfSteps DEF ChardevEdge
  <2>3. PICK e \in {"null", "live", "freed"}, g \in Fd \cup {0} :
          ctx' = [ctx EXCEPT ![d] = [ctx[d] EXCEPT !.events = e, !.fp = 0, !.ev = g]]
    BY <1>4, <1>c, <2>1, LowestIsFree DEF ChardevEdge, FreeFds
  <2>4. ctx' \in [Dev -> Context]
    <3>1. [ctx[d] EXCEPT !.events = e, !.fp = 0, !.ev = g] \in Context
      BY <1>d
    <3> QED BY <1>a, <2>3, <3>1
  <2> QED BY <1>4, <2>2, <2>4 DEF TypeOK, ChardevEdge, Tables
<1>5. CASE Silence(d)
  <2>1. Tables'
    BY <1>a, <1>5, FilesTyped, FilesOfSteps DEF Silence
  <2>2. Set(d, "ev", 0) \/ Set(d, "fp", 0)
    BY <1>5 DEF Silence, NoFp
  <2>3. ctx' \in [Dev -> Context]
    <3>1. CASE Set(d, "ev", 0)
      BY <1>a, <3>1, ContextSet DEF Set
    <3>2. CASE Set(d, "fp", 0)
      BY <1>a, <3>2, ContextSet DEF Set
    <3> QED BY <2>2, <3>1, <3>2
  <2> QED BY <1>5, <2>1, <2>3 DEF TypeOK, Silence, Tables
<1>6. CASE Destroy(d)
  <2>1. Tables'
    BY <1>a, <1>6, FilesTyped, FilesOfSteps DEF Destroy
  <2>2. [NoContext EXCEPT !.pin = ctx[d].pin] \in Context
    BY <1>b, NoneTyped DEF Context
  <2>3. ctx' \in [Dev -> Context] /\ handler' \in [Dev -> Handler]
    BY <1>6, <1>a, <2>2, NoneTyped DEF Destroy
  <2>4. exported' \subseteq Pin /\ edging' \subseteq exported'
    BY <1>6 DEF Destroy, TypeOK
  <2>5. fault' \in Faults \cup {"none"} /\ chardev' \in BOOLEAN
    BY <1>6 DEF Destroy, TypeOK, Faults
  <2> QED BY <2>1, <2>3, <2>4, <2>5 DEF TypeOK, Tables
<1>7. ASSUME NEW fds, fds \subseteq Fd, Open(d, fds),
             UNCHANGED <<chardev, exported, edging, handler, fault>>
      PROVE  TypeOK'
  <2>1. Tables'
    BY <1>a, <1>7, FilesTyped, FilesOfSteps DEF Open
  <2>2. PICK f \in Fd \cup {0} : Set(d, "fp", f)
    BY <1>7, LowestIsFree DEF Open, FreeFds
  <2>3. ctx' \in [Dev -> Context]
    BY <1>a, <2>2, ContextSet DEF Set
  <2> QED BY <1>7, <2>1, <2>3 DEF TypeOK, Tables
<1>8. CASE DoUse(d)
  <2>1. CASE ctx[d].fp = 0
    BY <1>8, <2>1, <1>7 DEF DoUse
  <2>2. CASE ctx[d].fp # 0
    BY <1>8, <2>2 DEF DoUse, Same, TypeOK
  <2> QED BY <2>1, <2>2
<1>9. CASE DoDir(d)
  <2>1. CASE chardev
    BY <1>9, <2>1, <1>7, <1>b DEF DoDir
  <2>2. CASE ~chardev
    <3>1. Tables'
      BY <1>a, <1>9, <2>2, FilesTyped, FilesOfSteps DEF DoDir
    <3>2. Set(d, "fp", 0)
      BY <1>9, <2>2 DEF DoDir, NoFp
    <3>3. ctx' \in [Dev -> Context]
      BY <1>a, <3>2, ContextSet DEF Set
    <3> QED BY <1>9, <3>1, <3>3 DEF TypeOK, DoDir, Tables
  <2> QED BY <2>1, <2>2
<1>10. CASE Terminate(d) \/ FreeEvents(d)
  <2>1. ctx' \in [Dev -> Context]
    BY <1>10, <1>a, <1>c, ContextSet DEF Terminate, FreeEvents, Set
  <2> QED BY <1>10, <2>1 DEF TypeOK, Terminate, FreeEvents, kernel
<1>11. CASE Create(d)
  <2>1. \A pc \in {"setup", "ended"} : [NoHandler EXCEPT !.pc = pc] \in Handler
    BY DEF NoHandler, Handler, Pcs
  <2>2. ctx' \in [Dev -> Context] /\ handler' \in [Dev -> Handler]
    BY <1>11, <1>a, <2>1, ContextSet DEF Create, Set
  <2> QED BY <1>11, <2>2 DEF TypeOK, Create, kernel
<1>12. CASE Cancel(d) \/ Join(d)
  <2>1. [handler[d] EXCEPT !.cancel = TRUE] \in Handler
    BY <1>a DEF Handler
  <2>2. handler' \in [Dev -> Handler]
    BY <1>12, <1>a, <2>1, NoneTyped DEF Cancel, Join
  <2> QED BY <1>12, <2>2 DEF TypeOK, Cancel, Join, kernel
<1>13. CASE Reset(d)
  <2>1. [ctx[d] EXCEPT !.thread = FALSE, !.terminating = FALSE, !.events = "null"] \in Context
    BY <1>a DEF Context
  <2>2. ctx' \in [Dev -> Context]
    BY <1>13, <1>a, <2>1 DEF Reset
  <2>3. fault' \in Faults \cup {"none"}
    BY <1>13 DEF Reset, TypeOK, Faults
  <2> QED BY <1>13, <2>2, <2>3 DEF TypeOK, Reset, kernel
<1> QED BY <1>1, <1>2, <1>3, <1>4, <1>5, <1>6, <1>8, <1>9, <1>10, <1>11, <1>12, <1>13
        DEF CallStep

LEMMA TypeHandlerStep == ASSUME TypeOK, NEW d \in Dev, HandlerStep(d) PROVE TypeOK'
<1>a. /\ handler[d] \in Handler /\ handler \in [Dev -> Handler] /\ Tables
      /\ handler[d].fp \in Fd \cup {0} /\ ctx[d].ev \in Fd \cup {0}
  BY DEF TypeOK, Tables, Handler, Context
<1>b. \A pc \in Pcs : /\ [handler[d] EXCEPT !.pc = pc] \in Handler
                      /\ [NoHandler EXCEPT !.pc = pc] \in Handler
  BY <1>a, NoneTyped DEF Handler
<1>1. ASSUME NEW pc \in Pcs, Moves(d, pc) \/ Ends(d) PROVE handler' \in [Dev -> Handler]
  <2>1. "ended" \in Pcs
    BY DEF Pcs
  <2> QED BY <1>a, <1>b, <1>1, <2>1 DEF Moves, Ends
<1>c. {"clear", "poll", "in", "got", "call", "dying"} \subseteq Pcs
  BY DEF Pcs
<1>2. CASE HandlerCancelled(d) \/ HandlerPoll(d) \/ HandlerWake(d) \/ HandlerCall(d)
  <2>1. handler' \in [Dev -> Handler]
    BY <1>1, <1>2, <1>c DEF HandlerCancelled, HandlerPoll, HandlerWake, HandlerCall
  <2> QED BY <1>2, <2>1 DEF TypeOK, HandlerCancelled, HandlerPoll, HandlerWake, HandlerCall,
                            kernel
<1>3. CASE HandlerSetup(d)
  <2>1. Tables'
    BY <1>3, <1>a, FilesTyped, FilesOfSteps DEF HandlerSetup, Same, Tables
  <2>2. \/ Ends(d)
        \/ \E f \in Fd \cup {0} : handler' = [handler EXCEPT ![d].pc = "clear", ![d].fp = f]
    BY <1>3, <1>a, LowestIsFree DEF HandlerSetup, FreeFds
  <2>3. \A f \in Fd \cup {0} : [handler[d] EXCEPT !.pc = "clear", !.fp = f] \in Handler
    BY <1>a, <1>c DEF Handler
  <2>4. handler' \in [Dev -> Handler]
    BY <1>1, <1>a, <1>c, <2>2, <2>3
  <2>5. fault' \in Faults \cup {"none"}
    BY <1>3 DEF HandlerSetup, TypeOK, Faults
  <2> QED BY <1>3, <2>1, <2>4, <2>5 DEF TypeOK, HandlerSetup, Tables
<1>4. CASE HandlerClear(d)
  <2>1. handler' \in [Dev -> Handler]
    BY <1>1, <1>4, <1>c DEF HandlerClear
  <2>2. queue' \in [Fd -> 0..MaxEvents]
    BY <1>4, <1>a, Parameters DEF HandlerClear, Tables
  <2> QED BY <1>4, <2>1, <2>2 DEF TypeOK, HandlerClear
<1>5. CASE HandlerRead(d)
  <2>1. handler' \in [Dev -> Handler]
    BY <1>1, <1>5, <1>c DEF HandlerRead
  <2>2. queue' \in [Fd -> 0..MaxEvents]
    BY <1>5, <1>a, Parameters DEF HandlerRead, Tables
  <2>3. fault' \in Faults \cup {"none"}
    BY <1>5 DEF HandlerRead, TypeOK, Faults
  <2> QED BY <1>5, <2>1, <2>2, <2>3 DEF TypeOK, HandlerRead
<1>6. CASE HandlerDie(d)
  <2>1. handler' \in [Dev -> Handler]
    BY <1>1, <1>6, <1>c DEF HandlerDie
  <2>2. Tables'
    BY <1>a, <1>6, FilesTyped, FilesOfSteps DEF HandlerDie
  <2> QED BY <1>6, <2>1, <2>2 DEF TypeOK, HandlerDie, Tables
<1> QED BY <1>2, <1>3, <1>4, <1>5, <1>6 DEF HandlerStep

LEMMA TypeStep == TypeOK /\ [Next]_vars => TypeOK'
<1> SUFFICES ASSUME TypeOK, [Next]_vars PROVE TypeOK'
  OBVIOUS
<1>1. ASSUME NEW p \in Pin, Edge(p) PROVE TypeOK'
  BY <1>1, Parameters DEF TypeOK, Edge
<1>2. CASE UNCHANGED vars
  BY <1>2 DEF vars, TypeOK
<1> QED BY <1>1, <1>2, TypeCall, TypeCallStep, TypeHandlerStep DEF Next

\* Every variable keeps its type; in particular a context or handler holds a
\* number of the descriptor table, and no more events than the kernel keeps.
THEOREM TypeCorrect == Spec => []TypeOK
BY TypeInit, TypeStep, PTL DEF Spec

-----------------------------------------------------------------------------
(* Descriptors.                                                            *)

LEMMA FilesDiffer ==
  /\ \A d \in Dev : \A kind \in {"line", "event"} : File(d, kind) # Closed
  /\ \A d, e \in Dev : \A kind, other \in {"line", "event"} :
       File(d, kind) = File(e, other) => d = e /\ kind = other
BY DEF File, Closed

\* sysfs: contexts and handlers hold descriptors that are open on their own
\* files, of different kinds, so that closing one never closes another.
HandlerHolds(d) == handler[d].pc \in {"clear", "poll", "in", "got", "call", "dying"}
HoldsFiles(d) ==
  /\ ctx[d].ev = 0
  /\ ctx[d].fp # 0 => file[ctx[d].fp] = File(d, "line")
  /\ HandlerHolds(d) => handler[d].fp \in Fd /\ file[handler[d].fp] = File(d, "event")
FilesInv == ~chardev => \A d \in Dev : HoldsFiles(d)

LEMMA FilesInit == Init => FilesInv
BY DEF Init, FilesInv, HoldsFiles, HandlerHolds, NoContext, NoHandler

\* Nothing that concerns the descriptors changes.
LEMMA FilesSame ==
  ASSUME FilesInv, UNCHANGED <<chardev, file>>,
         \A e \in Dev : /\ ctx'[e].fp = ctx[e].fp /\ ctx'[e].ev = ctx[e].ev
                        /\ HandlerHolds(e)' => HandlerHolds(e) /\ handler'[e].fp = handler[e].fp
  PROVE  FilesInv'
BY DEF FilesInv, HoldsFiles

\* A call or handler of d closes its own descriptors fs, or opens one.
LEMMA FilesOfOne ==
  ASSUME FilesInv, TypeOK, NEW d \in Dev, ~chardev, ~chardev',
         NEW fs, NEW f, NEW kind \in {"line", "event"}, NEW new \in {Closed, File(d, kind)},
         Files(fs, f, new),
         f \in FreeFds \cup {0},
         \A x \in fs \cap Fd : \E k \in {"line", "event"} : file[x] = File(d, k),
         \A e \in Dev \ {d} : ctx'[e] = ctx[e] /\ handler'[e] = handler[e],
         HoldsFiles(d)'
  PROVE  FilesInv'
<1> SUFFICES ASSUME NEW e \in Dev, e # d PROVE HoldsFiles(e)'
  BY DEF FilesInv
<1>1. HoldsFiles(e) /\ ctx'[e] = ctx[e] /\ handler'[e] = handler[e]
  BY DEF FilesInv
<1>2. ASSUME NEW x \in Fd, NEW k \in {"line", "event"}, file[x] = File(e, k)
      PROVE  file'[x] = File(e, k)
  <2>1. x \notin fs /\ x # f
    BY <1>2, FilesDiffer DEF FreeFds, Fd, Parameters
  <2> QED BY <1>2, <2>1 DEF Files
<1>3. ctx[e].fp \in Fd \cup {0}
  BY DEF TypeOK, Context
<1> QED BY <1>1, <1>2, <1>3 DEF HoldsFiles, HandlerHolds

LEMMA FilesCallStep == ASSUME FilesInv, TypeOK, NEW d \in Dev, CallStep(d) PROVE FilesInv'
<1> SUFFICES ASSUME ~chardev PROVE FilesInv'
  <2>1. chardev' = chardev
    BY DEF CallStep, StatExported, Export, SysfsEdge, ChardevEdge, Create, Terminate, Silence,
           Cancel, Join, Reset, FreeEvents, Destroy, DoUse, DoDir
  <2> QED BY <2>1 DEF FilesInv
<1>a. /\ ctx \in [Dev -> Context] /\ handler \in [Dev -> Handler] /\ HoldsFiles(d)
      /\ ctx[d] \in Context /\ handler[d] \in Handler /\ ctx[d].fp \in Fd \cup {0}
  BY DEF TypeOK, FilesInv, Context
<1>b. 0 \notin Fd
  BY DEF Fd
<1>c. \A x \in {ctx[d].fp, 0} \cap Fd : file[x] = File(d, "line")
  BY <1>a, <1>b DEF HoldsFiles
<1>1. CASE StatExported(d) \/ Export(d) \/ Terminate(d) \/ Cancel(d) \/ Join(d) \/ Reset(d)
           \/ FreeEvents(d)
  <2>1. UNCHANGED <<chardev, file>>
    BY <1>1 DEF StatExported, Export, Terminate, Cancel, Join, Reset, FreeEvents, kernel
  <2>2. \A e \in Dev : ctx'[e].fp = ctx[e].fp /\ ctx'[e].ev = ctx[e].ev
    BY <1>1, <1>a DEF StatExported, Export, DoExport, Terminate, Cancel, Join, Reset, FreeEvents,
                      Set, Context
  <2>3. \A e \in Dev : HandlerHolds(e)' => HandlerHolds(e) /\ handler'[e].fp = handler[e].fp
    <3>1. CASE Join(d)
      BY <1>a, <3>1 DEF Join, NoHandler, HandlerHolds
    <3>2. CASE Cancel(d)
      BY <1>a, <3>2 DEF Cancel, Handler, HandlerHolds
    <3>3. CASE handler' = handler
      BY <3>3 DEF HandlerHolds
    <3> QED BY <1>1, <3>1, <3>2, <3>3
            DEF StatExported, Export, Terminate, Reset, FreeEvents, kernel
  <2> QED BY <2>1, <2>2, <2>3, FilesSame
<1>2. CASE Create(d)
  <2>1. UNCHANGED <<chardev, file>>
    BY <1>2 DEF Create, kernel
  <2>2. \A e \in Dev : ctx'[e].fp = ctx[e].fp /\ ctx'[e].ev = ctx[e].ev
    BY <1>2, <1>a DEF Create, Set, Context
  <2>3. \A e \in Dev : e # d => handler'[e] = handler[e]
    BY <1>2, <1>a DEF Create
  <2>4. ~HandlerHolds(d)' \/ handler' = handler
    BY <1>2, <1>a DEF Create, HandlerHolds, NoHandler
  <2> QED BY <2>1, <2>2, <2>3, <2>4, FilesSame DEF HandlerHolds
<1>3. ASSUME Files({ctx[d].fp}, 0, Closed), Set(d, "fp", 0) \/
               (\E ev : ctx' = [ctx EXCEPT ![d].events = ev, ![d].fp = 0]),
             UNCHANGED <<chardev, handler>>
      PROVE  FilesInv'
  <2>1. /\ ctx'[d].fp = 0 /\ ctx'[d].ev = 0
        /\ \A e \in Dev \ {d} : ctx'[e] = ctx[e]
    <3>1. CASE Set(d, "fp", 0)
      BY <1>a, <3>1 DEF Set, Context, HoldsFiles
    <3>2. CASE \E ev : ctx' = [ctx EXCEPT ![d].events = ev, ![d].fp = 0]
      BY <1>a, <3>2 DEF Context, HoldsFiles
    <3> QED BY <1>3, <3>1, <3>2
  <2>2. ASSUME HandlerHolds(d) PROVE file'[handler[d].fp] = File(d, "event")
    <3>1. handler[d].fp \in Fd /\ file[handler[d].fp] = File(d, "event")
      BY <1>a, <2>2 DEF HoldsFiles
    <3>2. handler[d].fp # ctx[d].fp
      BY <3>1, <1>b, <1>c, FilesDiffer
    <3> QED BY <1>3, <1>b, <3>1, <3>2 DEF Files
  <2>3. HoldsFiles(d)'
    BY <1>3, <1>a, <2>1, <2>2 DEF HoldsFiles, HandlerHolds
  <2> QED BY <1>3, <1>c, <2>1, <2>3, FilesOfOne
<1>4. CASE SysfsEdge(d)
  BY <1>3, <1>4 DEF SysfsEdge, NoFp
<1>5. CASE Silence(d)
  BY <1>3, <1>5 DEF Silence, NoFp
<1>6. CASE ChardevEdge(d)
  BY <1>6 DEF ChardevEdge
<1>7. CASE Destroy(d)
  <2>1. /\ ctx'[d].fp = 0 /\ ctx'[d].ev = 0 /\ ~HandlerHolds(d)'
        /\ \A e \in Dev \ {d} : ctx'[e] = ctx[e] /\ handler'[e] = handler[e]
    BY <1>7, <1>a DEF Destroy, NoContext, NoHandler, HandlerHolds
  <2>2. HoldsFiles(d)'
    BY <2>1 DEF HoldsFiles
  <2>3. Files({ctx[d].fp, 0}, 0, Closed) /\ chardev' = chardev
    BY <1>7, <1>a DEF Destroy, HoldsFiles
  <2> QED BY <1>c, <2>1, <2>2, <2>3, FilesOfOne
<1>8. CASE DoUse(d)
  <2>1. CASE ctx[d].fp # 0
    <3>1. UNCHANGED <<chardev, file, ctx, handler>>
      BY <1>8, <2>1 DEF DoUse, Same
    <3> QED BY <3>1, FilesSame DEF HandlerHolds
  <2>2. CASE ctx[d].fp = 0
    <3>1. PICK f \in FreeFds \cup {0} : \E new \in {Closed, File(d, "line")} :
            /\ Files({}, f, new) /\ Set(d, "fp", f) /\ (f # 0 => new = File(d, "line"))
            /\ UNCHANGED <<chardev, handler>>
      BY <1>8, <2>2, LowestIsFree DEF DoUse, Open, FreeFds
    <3>2. PICK new \in {Closed, File(d, "line")} :
            /\ Files({}, f, new) /\ Set(d, "fp", f) /\ (f # 0 => new = File(d, "line"))
            /\ UNCHANGED <<chardev, handler>>
      BY <3>1
    <3>3. /\ ctx'[d].fp = f /\ ctx'[d].ev = 0
          /\ \A e \in Dev \ {d} : ctx'[e] = ctx[e]
      BY <3>2, <1>a DEF Set, Context, HoldsFiles
    <3>4. f # 0 => file'[f] = File(d, "line")
      BY <3>2 DEF Files, FreeFds
    <3>5. ASSUME HandlerHolds(d) PROVE file'[handler[d].fp] = File(d, "event")
      <4>1. handler[d].fp \in Fd /\ file[handler[d].fp] = File(d, "event")
        BY <1>a, <3>5 DEF HoldsFiles
      <4>2. handler[d].fp # f
        BY <4>1, <1>b, FilesDiffer DEF FreeFds
      <4> QED BY <3>2, <4>1, <4>2 DEF Files
    <3>6. HoldsFiles(d)'
      BY <1>a, <3>2, <3>3, <3>4, <3>5 DEF HoldsFiles, HandlerHolds
    <3> QED BY <3>2, <3>3, <3>6, FilesOfOne
  <2> QED BY <2>1, <2>2
<1>9. CASE DoDir(d)
  BY <1>3, <1>9 DEF DoDir, NoFp
<1> QED BY <1>1, <1>2, <1>4, <1>5, <1>6, <1>7, <1>8, <1>9 DEF CallStep

LEMMA FilesHandlerStep == ASSUME FilesInv, TypeOK, NEW d \in Dev, HandlerStep(d) PROVE FilesInv'
<1> SUFFICES ASSUME ~chardev, ~chardev' PROVE FilesInv'
  <2>1. chardev' = chardev
    BY DEF HandlerStep, HandlerCancelled, HandlerSetup, HandlerClear, HandlerPoll, HandlerWake,
           HandlerRead, HandlerCall, HandlerDie
  <2> QED BY <2>1 DEF FilesInv
<1>a. /\ handler \in [Dev -> Handler] /\ handler[d] \in Handler
      /\ HoldsFiles(d) /\ ctx[d].fp \in Fd \cup {0}
  BY DEF TypeOK, FilesInv, Context
<1>b. 0 \notin Fd
  BY DEF Fd
<1>1. ASSUME UNCHANGED <<chardev, file, ctx>>,
             \E pc : (Moves(d, pc) /\ HandlerHolds(d)) \/ Ends(d)
      PROVE  FilesInv'
  <2>1. \A e \in Dev : ctx'[e].fp = ctx[e].fp /\ ctx'[e].ev = ctx[e].ev
    BY <1>1
  <2>2. \A e \in Dev : HandlerHolds(e)' => HandlerHolds(e) /\ handler'[e].fp = handler[e].fp
    BY <1>1, <1>a DEF Moves, Ends, HandlerHolds, NoHandler, Handler
  <2> QED BY <1>1, <2>1, <2>2, FilesSame
<1>2. CASE HandlerCancelled(d) \/ HandlerClear(d) \/ HandlerPoll(d) \/ HandlerWake(d)
           \/ HandlerRead(d) \/ HandlerCall(d)
  BY <1>1, <1>2 DEF HandlerCancelled, HandlerClear, HandlerPoll, HandlerWake, HandlerRead,
                    HandlerCall, HandlerHolds, kernel
<1>3. CASE HandlerSetup(d)
  <2>1. CASE Ends(d) /\ Same
    BY <1>1, <1>3, <2>1 DEF HandlerSetup, Same
  <2>2. ASSUME NEW f \in FreeFds, Files({}, f, File(d, "event")), ctx' = ctx,
               handler' = [handler EXCEPT ![d].pc = "clear", ![d].fp = f]
        PROVE  FilesInv'
    <3>3. /\ handler'[d].fp = f /\ f \in Fd /\ file'[f] = File(d, "event")
          /\ \A e \in Dev \ {d} : handler'[e] = handler[e]
      BY <1>a, <2>2 DEF Files, FreeFds, Handler
    <3>4. ctx[d].fp # 0 => file'[ctx[d].fp] = File(d, "line")
      <4>1. SUFFICES ASSUME ctx[d].fp # 0 PROVE file'[ctx[d].fp] = File(d, "line")
        OBVIOUS
      <4>2. ctx[d].fp \in Fd /\ file[ctx[d].fp] = File(d, "line")
        BY <1>a, <4>1 DEF HoldsFiles
      <4>3. ctx[d].fp # f
        BY <4>2, FilesDiffer DEF FreeFds
      <4> QED BY <2>2, <4>2, <4>3 DEF Files
    <3>5. HoldsFiles(d)'
      BY <1>a, <2>2, <3>3, <3>4 DEF HoldsFiles
    <3>6. /\ f \in FreeFds \cup {0} /\ "event" \in {"line", "event"}
          /\ File(d, "event") \in {Closed, File(d, "event")}
          /\ \A x \in {} \cap Fd : \E k \in {"line", "event"} : file[x] = File(d, k)
          /\ \A e \in Dev \ {d} : ctx'[e] = ctx[e] /\ handler'[e] = handler[e]
      BY <2>2, <3>3
    <3> QED BY <2>2, <3>5, <3>6, FilesOfOne
  <2>3. \/ Ends(d) /\ Same
        \/ \E f \in FreeFds : /\ Files({}, f, File(d, "event")) /\ ctx' = ctx
                              /\ handler' = [handler EXCEPT ![d].pc = "clear", ![d].fp = f]
    BY <1>3, LowestIsFree DEF HandlerSetup
  <2> QED BY <2>1, <2>2, <2>3
<1>4. CASE HandlerDie(d)
  <2>1. HandlerHolds(d) /\ ctx' = ctx /\ Files({handler[d].fp}, 0, Closed)
    BY <1>4 DEF HandlerDie, HandlerHolds
  <2>2. handler[d].fp \in Fd /\ file[handler[d].fp] = File(d, "event")
    BY <1>a, <2>1 DEF HoldsFiles
  <2>3. ~HandlerHolds(d)' /\ \A e \in Dev \ {d} : handler'[e] = handler[e]
    BY <1>4, <1>a DEF HandlerDie, Ends, HandlerHolds, NoHandler
  <2>4. ctx[d].fp # 0 => file'[ctx[d].fp] = File(d, "line")
    <3>1. SUFFICES ASSUME ctx[d].fp # 0 PROVE file'[ctx[d].fp] = File(d, "line")
      OBVIOUS
    <3>2. ctx[d].fp \in Fd /\ file[ctx[d].fp] = File(d, "line")
      BY <1>a, <3>1 DEF HoldsFiles
    <3>3. ctx[d].fp # handler[d].fp
      BY <2>2, <3>2, FilesDiffer
    <3> QED BY <1>b, <2>1, <3>2, <3>3 DEF Files
  <2>5. HoldsFiles(d)'
    BY <1>a, <2>1, <2>3, <2>4 DEF HoldsFiles
  <2> QED BY <2>1, <2>2, <2>3, <2>5, FilesOfOne
<1> QED BY <1>2, <1>3, <1>4 DEF HandlerStep

LEMMA FilesStep == FilesInv /\ TypeOK /\ [Next]_vars => FilesInv'
<1> SUFFICES ASSUME FilesInv, TypeOK, [Next]_vars PROVE FilesInv'
  OBVIOUS
<1>1. ASSUME NEW d \in Dev, NEW p \in Pin, InitContext(d, p) PROVE FilesInv'
  <2>1. UNCHANGED <<chardev, file, queue, handler>>
    BY <1>1 DEF InitContext, Begin, kernel
  <2>2. /\ ctx'[d].fp = 0 /\ ctx'[d].ev = 0
        /\ \A e \in Dev \ {d} : ctx'[e] = ctx[e]
    BY <1>1 DEF InitContext, NoContext, TypeOK
  <2> QED BY <2>1, <2>2 DEF FilesInv, HoldsFiles, HandlerHolds
<1>2. ASSUME NEW d \in Dev, Isr(d) \/ IsrExit(d) \/ Close(d) \/ Use(d) \/ Dir(d) PROVE FilesInv'
  <2>1. UNCHANGED <<chardev, file, ctx, handler>>
    BY <1>2 DEF Isr, IsrExit, Close, Use, Dir, Begin, kernel
  <2> QED BY <2>1 DEF FilesInv, HoldsFiles, HandlerHolds
<1>3. ASSUME NEW p \in Pin, Edge(p) PROVE FilesInv'
  BY <1>3 DEF Edge, FilesInv, HoldsFiles, HandlerHolds
<1>4. CASE UNCHANGED vars
  BY <1>4 DEF vars, FilesInv, HoldsFiles, HandlerHolds
<1> QED BY <1>1, <1>2, <1>3, <1>4, FilesCallStep, FilesHandlerStep DEF Next, Call

\* sysfs: the descriptor in a context is open on its own pin, whichever files
\* other contexts and handlers open and close meanwhile.
THEOREM ContextsKeepTheirFiles == Spec => []KeepsItsFile
<1>1. FilesInv => KeepsItsFile
  BY DEF FilesInv, HoldsFiles, KeepsItsFile
<1> QED BY <1>1, FilesInit, FilesStep, TypeCorrect, PTL DEF Spec

-----------------------------------------------------------------------------
(* Exports.                                                                *)

\* An owner's pin is exported, so that nobody becomes its owner a second
\* time; a context that is not open owns nothing.
OwnedIsExported == \A d \in Dev : \A p \in Pin : Owns(d, p) => p \in exported
ClosedOwnsNothing == \A d \in Dev : ~ctx[d].open => ~ctx[d].owner
ExportsInv == ~chardev => OwnedIsExported /\ ClosedOwnsNothing /\ ExportsAreOwned

LEMMA ExportsInit == Init => ExportsInv
BY DEF Init, ExportsInv, OwnedIsExported, ClosedOwnsNothing, ExportsAreOwned, Owns, NoContext

LEMMA ExportsSame ==
  ASSUME ExportsInv, UNCHANGED <<chardev, exported>>,
         \A e \in Dev : /\ ctx'[e].open = ctx[e].open /\ ctx'[e].owner = ctx[e].owner
                        /\ ctx'[e].pin = ctx[e].pin
  PROVE  ExportsInv'
BY DEF ExportsInv, OwnedIsExported, ClosedOwnsNothing, ExportsAreOwned, Owns

\* Context d changes: what it owned it owns still, or nothing.
LEMMA ExportsKept ==
  ASSUME ExportsInv, TypeOK, NEW d \in Dev, UNCHANGED <<chardev, exported>>,
         \A e \in Dev \ {d} : ctx'[e] = ctx[e],
         \A p \in Pin : Owns(d, p)' <=> Owns(d, p),
         ~ctx'[d].open => ~ctx'[d].owner
  PROVE  ExportsInv'
<1> SUFFICES ASSUME ~chardev PROVE ExportsInv'
  BY DEF ExportsInv
<1>1. \A e \in Dev : \A p \in Pin : Owns(e, p)' <=> Owns(e, p)
  BY DEF Owns
<1>2. OwnedIsExported'
  BY <1>1 DEF ExportsInv, OwnedIsExported
<1>3. ClosedOwnsNothing'
  BY DEF ExportsInv, ClosedOwnsNothing
<1>4. ExportsAreOwned'
  <2>1. \A p \in exported \ Exported : \E e \in Dev : Owns(e, p)
    BY DEF ExportsInv, ExportsAreOwned
  <2>2. \A p \in exported' \ Exported : p \in Pin
    BY DEF TypeOK
  <2>3. \A p \in exported' \ Exported : \E e \in Dev : Owns(e, p)'
    BY <1>1, <2>1, <2>2
  <2>4. \A p \in Pin : \A e, g \in Dev : Owns(e, p)' /\ Owns(g, p)' => e = g
    BY <1>1 DEF ExportsInv, ExportsAreOwned
  <2> QED BY <2>3, <2>4 DEF ExportsAreOwned
<1> QED BY <1>2, <1>3, <1>4 DEF ExportsInv

LEMMA ExportsCallStep == ASSUME ExportsInv, TypeOK, NEW d \in Dev, CallStep(d) PROVE ExportsInv'
<1>a. /\ ctx \in [Dev -> Context] /\ ctx[d] \in Context /\ ctx[d].pin \in Pin
      /\ exported \subseteq Pin
  BY DEF TypeOK, Context
<1>1. CASE Terminate(d) \/ Cancel(d) \/ Join(d) \/ Reset(d) \/ FreeEvents(d) \/ Create(d)
           \/ Silence(d)
  <2>1. UNCHANGED <<chardev, exported>>
    BY <1>1 DEF Terminate, Cancel, Join, Reset, FreeEvents, Create, Silence, kernel
  <2>2. \A e \in Dev : /\ ctx'[e].open = ctx[e].open /\ ctx'[e].owner = ctx[e].owner
                       /\ ctx'[e].pin = ctx[e].pin
    BY <1>1, <1>a DEF Terminate, Cancel, Join, Reset, FreeEvents, Create, Silence, Set, Context
  <2> QED BY <2>1, <2>2, ExportsSame
<1>2. CASE SysfsEdge(d) \/ ChardevEdge(d)
  <2>1. UNCHANGED <<chardev, exported>>
    BY <1>2 DEF SysfsEdge, ChardevEdge
  <2>2. \A e \in Dev : /\ ctx'[e].open = ctx[e].open /\ ctx'[e].owner = ctx[e].owner
                       /\ ctx'[e].pin = ctx[e].pin
    <3>1. CASE SysfsEdge(d)
      BY <3>1, <1>a DEF SysfsEdge, Context
    <3>2. CASE ChardevEdge(d)
      <4>1. \E e, g : ctx' = [ctx EXCEPT ![d] = [ctx[d] EXCEPT !.events = e, !.fp = 0, !.ev = g]]
        BY <3>2 DEF ChardevEdge
      <4> QED BY <4>1, <1>a DEF Context
    <3> QED BY <1>2, <3>1, <3>2
  <2> QED BY <2>1, <2>2, ExportsSame
<1>3. CASE DoUse(d) \/ DoDir(d)
  <2>1. UNCHANGED <<chardev, exported>>
    BY <1>3 DEF DoUse, DoDir
  <2>2. (\E f : Set(d, "fp", f)) \/ ctx' = ctx
    BY <1>3 DEF DoUse, DoDir, Open
  <2>3. \A e \in Dev : /\ ctx'[e].open = ctx[e].open /\ ctx'[e].owner = ctx[e].owner
                       /\ ctx'[e].pin = ctx[e].pin
    BY <2>2, <1>a DEF Set, Context
  <2> QED BY <2>1, <2>3, ExportsSame
<1>4. CASE StatExported(d)
  <2>1. UNCHANGED <<chardev, exported>> /\ \A e \in Dev \ {d} : ctx'[e] = ctx[e]
    BY <1>4, <1>a DEF StatExported, Set, kernel
  <2>2. /\ ctx'[d].owner = ctx[d].owner /\ ctx'[d].pin = ctx[d].pin
        /\ ctx'[d].open = ctx[d].open \/ ctx'[d].open = TRUE
    BY <1>4, <1>a DEF StatExported, Set, Context
  <2>3. CASE chardev
    BY <2>1, <2>3 DEF ExportsInv
  <2>4. CASE ~chardev
    <3>1. ctx[d].open \/ ~ctx[d].owner
      BY <2>4 DEF ExportsInv, ClosedOwnsNothing
    <3>2. \A p \in Pin : Owns(d, p)' <=> Owns(d, p)
      BY <2>2, <3>1 DEF Owns
    <3> QED BY <2>1, <2>2, <3>1, <3>2, ExportsKept
  <2> QED BY <2>3, <2>4
<1>5. CASE Export(d)
  <2>1. CASE UNCHANGED <<exported, ctx>>
    BY <1>5, <2>1, ExportsSame DEF Export
  <2>2. CASE ctx[d].pin \notin exported
    <3> SUFFICES ASSUME ~chardev PROVE ExportsInv'
      BY <1>5 DEF Export, ExportsInv
    <3> DEFINE p == ctx[d].pin
    <3>1. /\ exported' = exported \cup {p}
          /\ ctx'[d].open /\ ctx'[d].owner /\ ctx'[d].pin = p
          /\ \A e \in Dev \ {d} : ctx'[e] = ctx[e]
      BY <1>5, <1>a, <2>2 DEF Export, DoExport, Context
    <3>2. \A q \in Pin : Owns(d, q)' <=> q = p
      BY <3>1 DEF Owns
    <3>3. \A e \in Dev \ {d} : \A q \in Pin : Owns(e, q)' <=> Owns(e, q)
      BY <3>1 DEF Owns
    <3>4. \A e \in Dev : ~Owns(e, p)
      BY <1>a, <2>2 DEF ExportsInv, OwnedIsExported
    <3>5. \A q \in Pin : ~Owns(d, q)
      BY <3>4 DEF Owns
    <3> HIDE DEF p
    <3>6. OwnedIsExported' /\ ClosedOwnsNothing'
      BY <3>1, <3>2, <3>3 DEF ExportsInv, OwnedIsExported, ClosedOwnsNothing
    <3>7. \A q \in exported' \ Exported : \E e \in Dev : Owns(e, q)'
      BY <1>a, <3>1, <3>2, <3>3, <3>5 DEF ExportsInv, ExportsAreOwned, p
    <3>8. \A q \in Pin : \A e, g \in Dev : Owns(e, q)' /\ Owns(g, q)' => e = g
      BY <3>2, <3>3, <3>4 DEF ExportsInv, ExportsAreOwned
    <3> QED BY <3>6, <3>7, <3>8 DEF ExportsInv, ExportsAreOwned
  <2> QED BY <1>5, <2>1, <2>2 DEF Export, DoExport
<1>6. CASE Destroy(d)
  <2> SUFFICES ASSUME ~chardev PROVE ExportsInv'
    BY <1>6 DEF Destroy, ExportsInv
  <2>1. /\ exported' = IF ctx[d].owner THEN exported \ {ctx[d].pin} ELSE exported
        /\ ~ctx'[d].open /\ ~ctx'[d].owner /\ \A e \in Dev \ {d} : ctx'[e] = ctx[e]
    BY <1>6, <1>a DEF Destroy, NoContext
  <2>2. /\ \A q \in Pin : ~Owns(d, q)'
        /\ \A e \in Dev \ {d} : \A q \in Pin : Owns(e, q)' <=> Owns(e, q)
    BY <2>1 DEF Owns
  <2>3. ctx[d].owner => Owns(d, ctx[d].pin)
    BY DEF ExportsInv, ClosedOwnsNothing, Owns
  <2>4. \A q \in Pin : Owns(d, q) => ctx[d].owner /\ q = ctx[d].pin
    BY DEF Owns
  <2>5. OwnedIsExported'
    BY <1>a, <2>1, <2>2, <2>3 DEF ExportsInv, OwnedIsExported, ExportsAreOwned
  <2>6. ClosedOwnsNothing'
    BY <2>1 DEF ExportsInv, ClosedOwnsNothing
  <2>7. \A q \in exported' \ Exported : \E e \in Dev : Owns(e, q)'
    BY <1>a, <2>1, <2>2, <2>4 DEF ExportsInv, ExportsAreOwned
  <2>8. \A q \in Pin : \A e, g \in Dev : Owns(e, q)' /\ Owns(g, q)' => e = g
    BY <2>2 DEF ExportsInv, ExportsAreOwned
  <2> QED BY <2>5, <2>6, <2>7, <2>8 DEF ExportsInv, ExportsAreOwned
<1> QED BY <1>1, <1>2, <1>3, <1>4, <1>5, <1>6 DEF CallStep

LEMMA ExportsStep == ExportsInv /\ TypeOK /\ [Next]_vars => ExportsInv'
<1> SUFFICES ASSUME ExportsInv, TypeOK, [Next]_vars PROVE ExportsInv'
  OBVIOUS
<1>1. ASSUME NEW d \in Dev, NEW p \in Pin, InitContext(d, p) PROVE ExportsInv'
  <2>1. UNCHANGED <<chardev, exported>> /\ \A e \in Dev \ {d} : ctx'[e] = ctx[e]
    BY <1>1 DEF InitContext, Begin, kernel, TypeOK
  <2>2. ~ctx[d].open /\ ~ctx'[d].owner
    BY <1>1 DEF InitContext, NoContext, TypeOK
  <2>3. \A q \in Pin : Owns(d, q)' <=> Owns(d, q)
    BY <2>2 DEF Owns
  <2> QED BY <2>1, <2>2, <2>3, ExportsKept
<1>2. ASSUME NEW d \in Dev, Isr(d) \/ IsrExit(d) \/ Close(d) \/ Use(d) \/ Dir(d)
      PROVE  UNCHANGED <<chardev, exported, ctx>>
  BY <1>2 DEF Isr, IsrExit, Close, Use, Dir, Begin, kernel
<1>3. ASSUME NEW d \in Dev, HandlerStep(d) PROVE UNCHANGED <<chardev, exported, ctx>>
  BY <1>3 DEF HandlerStep, HandlerCancelled, HandlerSetup, HandlerClear, HandlerPoll, HandlerWake,
              HandlerRead, HandlerCall, HandlerDie, kernel
<1>4. ASSUME NEW p \in Pin, Edge(p) PROVE UNCHANGED <<chardev, exported, ctx>>
  BY <1>4 DEF Edge
<1>5. CASE UNCHANGED vars
  BY <1>5, ExportsSame DEF vars
<1>6. ASSUME UNCHANGED <<chardev, exported, ctx>> PROVE ExportsInv'
  BY <1>6, ExportsSame
<1> QED BY <1>1, <1>2, <1>3, <1>4, <1>5, <1>6, ExportsCallStep DEF Next, Call

\* sysfs: a pin stays exported after the program only if it was so before, or
\* an open context owns it, and no pin has two owners, however the looks and
\* writes of two initialisations interleave.
THEOREM ExportsHaveOwners == Spec => []ExportsAreOwned
<1>1. ExportsInv => ExportsAreOwned
  BY DEF ExportsInv, ExportsAreOwned
<1> QED BY <1>1, ExportsInit, ExportsStep, TypeCorrect, PTL DEF Spec

-----------------------------------------------------------------------------
(* The events array.                                                       *)

Active(d) == handler[d].pc \notin {"none", "ended"}

\* What a careful program may be in the middle of, and what holds then.
Exiting == {<<"terminate", "silence", "cancel", "join", "reset">>,
            <<"silence", "cancel", "join", "reset">>, <<"cancel", "join", "reset">>,
            <<"join", "reset">>}
Elsewhere == {<<>>, <<"stat">>, <<"export">>, <<"use">>, <<"direct">>}
Where(d) ==
  \/ todo[d] \in Elsewhere \cup Exiting
  \/ todo[d] = <<"edge", "create">> /\ ctx[d].open
  \/ todo[d] = <<"create">> /\ ctx[d].open /\ ctx[d].events = "live"
  \/ todo[d] = <<"reset">> /\ handler[d].pc = "none"
  \/ todo[d] \in {<<"freeEvents", "destroy">>, <<"destroy">>} /\ ~ctx[d].thread

\* A handler that runs is the context's thread, and then the array is there.
\* It is freed on its own only in a close, where there is no thread.
ArrayOf(d) ==
  /\ Active(d) => ctx[d].thread
  /\ ctx[d].thread => ctx[d].events = "live"
  /\ ~ctx[d].open => ctx[d].events = "null"
  /\ ctx[d].events = "freed" => todo[d] = <<"destroy">>
ArrayInv == NoFault /\ DOMAIN todo = Dev /\ \A d \in Dev : Where(d) /\ ArrayOf(d)

LEMMA ArrayInit == Init => ArrayInv
BY DEF Init, ArrayInv, NoFault, Where, ArrayOf, Active, Elsewhere, NoContext, NoHandler

\* A step of d disturbs no other context.
LEMMA ArrayOfOne ==
  ASSUME ArrayInv, NEW d \in Dev, DOMAIN todo' = Dev,
         fault' = "none" \/ (chardev' /\ fault' # "array"),
         \A e \in Dev \ {d} : /\ ctx'[e] = ctx[e] /\ handler'[e] = handler[e]
                              /\ todo'[e] = todo[e],
         Where(d)', ArrayOf(d)'
  PROVE  ArrayInv'
BY DEF ArrayInv, NoFault, Where, ArrayOf, Active

\* The rest of a call.
LEMMA Rests ==
  /\ Tail(<<"stat">>) = <<>> /\ Tail(<<"export">>) = <<>> /\ Tail(<<"use">>) = <<>>
  /\ Tail(<<"direct">>) = <<>> /\ Tail(<<"destroy">>) = <<>>
  /\ Tail(<<"edge", "create">>) = <<"create">> /\ Tail(<<"create">>) = <<>>
  /\ Tail(<<"terminate", "silence", "cancel", "join", "reset">>)
       = <<"silence", "cancel", "join", "reset">>
  /\ Tail(<<"silence", "cancel", "join", "reset">>) = <<"cancel", "join", "reset">>
  /\ Tail(<<"cancel", "join", "reset">>) = <<"join", "reset">>
  /\ Tail(<<"join", "reset">>) = <<"reset">> /\ Tail(<<"reset">>) = <<>>
  /\ Tail(<<"freeEvents", "destroy">>) = <<"destroy">>
OBVIOUS
LEMMA Heads ==
  ASSUME NEW d \in Dev, Where(d)
  PROVE  /\ At(d, "stat") => todo[d] = <<"stat">>
         /\ At(d, "export") => todo[d] = <<"export">>
         /\ At(d, "use") => todo[d] = <<"use">>
         /\ At(d, "direct") => todo[d] = <<"direct">>
         /\ At(d, "destroy") => todo[d] = <<"destroy">> /\ ~ctx[d].thread
         /\ At(d, "edge") => todo[d] = <<"edge", "create">> /\ ctx[d].open
         /\ At(d, "create") => todo[d] = <<"create">> /\ ctx[d].open /\ ctx[d].events = "live"
         /\ At(d, "terminate") => todo[d] = <<"terminate", "silence", "cancel", "join", "reset">>
         /\ At(d, "silence") => todo[d] = <<"silence", "cancel", "join", "reset">>
         /\ At(d, "cancel") => todo[d] = <<"cancel", "join", "reset">>
         /\ At(d, "join") => todo[d] = <<"join", "reset">>
         /\ At(d, "reset") => todo[d] = <<"reset">> /\ handler[d].pc = "none"
         /\ At(d, "freeEvents") => todo[d] = <<"freeEvents", "destroy">> /\ ~ctx[d].thread
BY DEF Where, At, Elsewhere, Exiting

LEMMA ArrayCall == ASSUME Careful, Alive, ArrayInv, TypeOK, NEW d \in Dev, Call(d) PROVE ArrayInv'
<1>a. Where(d) /\ ArrayOf(d) /\ fault = "none"
  BY DEF ArrayInv, Alive
<1>1. ASSUME NEW steps, Begin(d, steps)
      PROVE  /\ UNCHANGED <<fault, handler>> /\ todo'[d] = steps
             /\ DOMAIN todo' = Dev /\ \A e \in Dev \ {d} : todo'[e] = todo[e]
  BY <1>1 DEF Begin, ArrayInv
<1>2. ASSUME NEW p \in Pin, InitContext(d, p) PROVE ArrayInv'
  <2>1. PICK steps \in {<<>>, <<"stat">>} : Begin(d, steps)
    BY <1>2 DEF InitContext
  <2>2. /\ ctx'[d].events = "null" /\ ctx'[d].thread = FALSE
        /\ \A e \in Dev \ {d} : ctx'[e] = ctx[e]
    BY <1>2 DEF InitContext, NoContext, TypeOK
  <2>3. ~Active(d)
    BY <1>a, <1>2 DEF ArrayOf, InitContext
  <2>4. ArrayOf(d)' /\ Where(d)'
    BY <1>1, <2>1, <2>2, <2>3 DEF ArrayOf, Active, Where, Elsewhere
  <2> QED BY <1>a, <1>1, <2>1, <2>2, <2>4, ArrayOfOne
<1>3. ASSUME NEW steps, Begin(d, steps), UNCHANGED ctx,
             \/ steps \in Elsewhere \cup Exiting
             \/ steps = <<"edge", "create">> /\ ctx[d].open
             \/ steps = <<"freeEvents", "destroy">> /\ ~ctx[d].thread
      PROVE  ArrayInv'
  <2>1. ctx[d].events # "freed"
    BY <1>a, <1>3 DEF ArrayOf, Begin
  <2>2. ArrayOf(d)' /\ Where(d)'
    BY <1>a, <1>1, <1>3, <2>1 DEF ArrayOf, Active, Where
  <2> QED BY <1>a, <1>1, <1>3, <2>2, ArrayOfOne
<1>4. CASE Isr(d)
  BY <1>3, <1>4 DEF Isr
<1>5. CASE IsrExit(d)
  BY <1>3, <1>5 DEF IsrExit, ExitSteps, Exiting
<1>6. CASE Use(d) \/ Dir(d)
  BY <1>3, <1>6 DEF Use, Dir, Elsewhere
<1>7. CASE Close(d)
  BY <1>3, <1>7 DEF Close
<1> QED BY <1>2, <1>4, <1>5, <1>6, <1>7 DEF Call

LEMMA ArrayCallStep ==
  ASSUME Alive, ArrayInv, TypeOK, NEW d \in Dev, CallStep(d)
  PROVE  ArrayInv'
<1>a. /\ Where(d) /\ ArrayOf(d) /\ fault = "none" /\ DOMAIN todo = Dev
      /\ ctx \in [Dev -> Context] /\ handler \in [Dev -> Handler]
      /\ ctx[d] \in Context /\ handler[d] \in Handler
      /\ ctx[d].events \in {"null", "live", "freed"}
  BY DEF ArrayInv, Alive, TypeOK, Context
<1>b. ASSUME Done(d) \/ Fails(d) \/ (\E steps : todo' = [todo EXCEPT ![d] = steps])
      PROVE  /\ DOMAIN todo' = Dev
             /\ \A e \in Dev \ {d} : todo'[e] = todo[e]
             /\ Done(d) => todo'[d] = Tail(todo[d])
             /\ Fails(d) => todo'[d] = <<>>
  BY <1>a, <1>b DEF Done, Fails
<1>1. CASE StatExported(d)
  <2>1. todo[d] = <<"stat">>
    BY <1>1, <1>a, Heads DEF StatExported
  <2>2. todo'[d] \in {<<>>, <<"export">>} /\ DOMAIN todo' = Dev
        /\ \A e \in Dev \ {d} : todo'[e] = todo[e]
    BY <1>1, <1>a, <1>b, <2>1, Rests DEF StatExported
  <2>3. /\ ctx'[d].events = ctx[d].events /\ ctx'[d].thread = ctx[d].thread
        /\ ctx[d].open => ctx'[d].open
        /\ \A e \in Dev \ {d} : ctx'[e] = ctx[e]
    BY <1>1, <1>a DEF StatExported, Set, Context
  <2>4. handler' = handler /\ fault' = fault
    BY <1>1 DEF StatExported
  <2>5. Where(d)' /\ ArrayOf(d)'
    BY <1>a, <2>1, <2>2, <2>3, <2>4 DEF Where, ArrayOf, Active, Elsewhere
  <2> QED BY <1>a, <2>2, <2>3, <2>4, <2>5, ArrayOfOne
<1>2. CASE Export(d)
  <2>1. todo[d] = <<"export">>
    BY <1>2, <1>a, Heads DEF Export
  <2>2. todo'[d] = <<>> /\ DOMAIN todo' = Dev /\ \A e \in Dev \ {d} : todo'[e] = todo[e]
    BY <1>2, <1>b, <2>1, Rests DEF Export
  <2>3. /\ ctx'[d].events = ctx[d].events /\ ctx'[d].thread = ctx[d].thread
        /\ ctx[d].open => ctx'[d].open
        /\ \A e \in Dev \ {d} : ctx'[e] = ctx[e]
    BY <1>2, <1>a DEF Export, DoExport, Context
  <2>4. handler' = handler /\ fault' = fault
    BY <1>2 DEF Export
  <2>5. Where(d)' /\ ArrayOf(d)'
    BY <1>a, <2>1, <2>2, <2>3, <2>4 DEF Where, ArrayOf, Active, Elsewhere
  <2> QED BY <1>a, <2>2, <2>3, <2>4, <2>5, ArrayOfOne
<1>3. CASE SysfsEdge(d) \/ ChardevEdge(d)
  <2>1. todo[d] = <<"edge", "create">> /\ ctx[d].open
    BY <1>3, <1>a, Heads DEF SysfsEdge, ChardevEdge
  <2>2. todo'[d] \in {<<>>, <<"create">>} /\ DOMAIN todo' = Dev
        /\ \A e \in Dev \ {d} : todo'[e] = todo[e]
    BY <1>3, <1>b, <2>1, Rests DEF SysfsEdge, ChardevEdge
  <2>3. handler' = handler /\ fault' = fault
    BY <1>3 DEF SysfsEdge, ChardevEdge
  <2>4. /\ ctx'[d].events = "live" /\ ctx'[d].open /\ ctx'[d].thread = ctx[d].thread
        /\ \A e \in Dev \ {d} : ctx'[e] = ctx[e]
    <3>1. ctx[d].events = "null" \/ ctx[d].events = "live"
      BY <1>a, <2>1 DEF ArrayOf
    <3>2. CASE SysfsEdge(d)
      BY <1>a, <2>1, <3>1, <3>2 DEF SysfsEdge, Context
    <3>3. CASE ChardevEdge(d)
      <4>1. \E g : ctx' = [ctx EXCEPT ![d] =
                            [ctx[d] EXCEPT !.events = "live", !.fp = 0, !.ev = g]]
        BY <3>1, <3>3 DEF ChardevEdge
      <4> QED BY <1>a, <2>1, <4>1 DEF Context
    <3> QED BY <1>3, <3>2, <3>3
  <2>5. Where(d)' /\ ArrayOf(d)'
    BY <1>a, <2>1, <2>2, <2>3, <2>4 DEF Where, ArrayOf, Active, Elsewhere
  <2> QED BY <1>a, <2>2, <2>3, <2>4, <2>5, ArrayOfOne
<1>4. CASE Create(d)
  <2>1. todo[d] = <<"create">> /\ ctx[d].open /\ ctx[d].events = "live"
    BY <1>4, <1>a, Heads DEF Create
  <2>2. todo'[d] = <<>> /\ DOMAIN todo' = Dev /\ \A e \in Dev \ {d} : todo'[e] = todo[e]
    BY <1>4, <1>b, <2>1, Rests DEF Create
  <2>3. /\ fault' = fault /\ ctx'[d].events = "live" /\ ctx'[d].open
        /\ ctx'[d].thread \/ (ctx'[d].thread = ctx[d].thread /\ handler'[d] = handler[d])
        /\ \A e \in Dev \ {d} : ctx'[e] = ctx[e] /\ handler'[e] = handler[e]
    BY <1>4, <1>a, <2>1 DEF Create, Set, Context
  <2>4. Where(d)' /\ ArrayOf(d)'
    BY <1>a, <2>2, <2>3 DEF Where, ArrayOf, Active, Elsewhere
  <2> QED BY <1>a, <2>2, <2>3, <2>4, ArrayOfOne
<1>5. CASE Terminate(d) \/ Silence(d)
  <2>1. \/ todo[d] = <<"terminate", "silence", "cancel", "join", "reset">>
        \/ todo[d] = <<"silence", "cancel", "join", "reset">>
    BY <1>5, <1>a, Heads DEF Terminate, Silence
  <2>2. todo'[d] \in Exiting /\ DOMAIN todo' = Dev /\ \A e \in Dev \ {d} : todo'[e] = todo[e]
    BY <1>5, <1>b, <2>1, Rests DEF Terminate, Silence, Exiting
  <2>3. /\ fault' = fault /\ handler' = handler
        /\ ctx'[d].events = ctx[d].events /\ ctx'[d].thread = ctx[d].thread
        /\ ctx'[d].open = ctx[d].open
        /\ \A e \in Dev \ {d} : ctx'[e] = ctx[e]
    BY <1>5, <1>a DEF Terminate, Silence, Set, Context
  <2>4. Where(d)' /\ ArrayOf(d)'
    BY <1>a, <2>1, <2>2, <2>3 DEF Where, ArrayOf, Active
  <2> QED BY <1>a, <2>2, <2>3, <2>4, ArrayOfOne
<1>6. CASE Cancel(d)
  <2>1. todo[d] = <<"cancel", "join", "reset">>
    BY <1>6, <1>a, Heads DEF Cancel
  <2>2. /\ todo'[d] = <<"join", "reset">> /\ DOMAIN todo' = Dev
        /\ \A e \in Dev \ {d} : todo'[e] = todo[e]
    BY <1>6, <1>b, <2>1, Rests DEF Cancel
  <2>3. /\ fault' = fault /\ ctx' = ctx /\ handler'[d].pc = handler[d].pc
        /\ \A e \in Dev \ {d} : handler'[e] = handler[e]
    BY <1>6, <1>a DEF Cancel, Handler
  <2>4. Where(d)' /\ ArrayOf(d)'
    BY <1>a, <2>1, <2>2, <2>3 DEF Where, ArrayOf, Active, Exiting
  <2> QED BY <1>a, <2>2, <2>3, <2>4, ArrayOfOne
<1>7. CASE Join(d)
  <2>1. todo[d] = <<"join", "reset">> /\ handler[d].pc = "ended"
    BY <1>7, <1>a, Heads DEF Join
  <2>2. /\ todo'[d] = <<"reset">> /\ DOMAIN todo' = Dev
        /\ \A e \in Dev \ {d} : todo'[e] = todo[e]
    BY <1>7, <1>b, <2>1, Rests DEF Join
  <2>3. /\ UNCHANGED <<fault, ctx>> /\ handler'[d].pc = "none"
        /\ \A e \in Dev \ {d} : handler'[e] = handler[e]
    BY <1>7, <1>a DEF Join, NoHandler
  <2>4. Where(d)' /\ ArrayOf(d)'
    BY <1>a, <2>1, <2>2, <2>3 DEF Where, ArrayOf, Active
  <2> QED BY <1>a, <2>2, <2>3, <2>4, ArrayOfOne
<1>8. CASE Reset(d)
  <2>1. todo[d] = <<"reset">> /\ handler[d].pc = "none" /\ ctx[d].events # "freed"
    BY <1>8, <1>a, Heads DEF Reset, ArrayOf
  <2>2. todo'[d] = <<>> /\ DOMAIN todo' = Dev /\ \A e \in Dev \ {d} : todo'[e] = todo[e]
    BY <1>8, <1>b, <2>1, Rests DEF Reset
  <2>3. /\ fault' = "none" /\ handler' = handler
        /\ ctx'[d].events = "null" /\ ctx'[d].thread = FALSE
        /\ \A e \in Dev \ {d} : ctx'[e] = ctx[e]
    BY <1>8, <1>a, <2>1 DEF Reset, Context
  <2>4. Where(d)' /\ ArrayOf(d)'
    BY <2>1, <2>2, <2>3 DEF Where, ArrayOf, Active, Elsewhere
  <2> QED BY <2>2, <2>3, <2>4, ArrayOfOne
<1>9. CASE FreeEvents(d)
  <2>1. todo[d] = <<"freeEvents", "destroy">> /\ ~ctx[d].thread
    BY <1>9, <1>a, Heads DEF FreeEvents
  <2>2. todo'[d] = <<"destroy">> /\ DOMAIN todo' = Dev /\ \A e \in Dev \ {d} : todo'[e] = todo[e]
    BY <1>9, <1>b, <2>1, Rests DEF FreeEvents
  <2>3. /\ fault' = fault /\ handler' = handler
        /\ ctx'[d].thread = ctx[d].thread /\ ctx'[d].open = ctx[d].open
        /\ ctx[d].events = "null" => ctx'[d].events = "null"
        /\ \A e \in Dev \ {d} : ctx'[e] = ctx[e]
    BY <1>9, <1>a, <2>1 DEF FreeEvents, Set, Context
  <2>4. Where(d)' /\ ArrayOf(d)'
    BY <1>a, <2>1, <2>2, <2>3 DEF Where, ArrayOf, Active, Elsewhere
  <2> QED BY <1>a, <2>2, <2>3, <2>4, ArrayOfOne
<1>10. CASE Destroy(d)
  <2>1. todo[d] = <<"destroy">>
    BY <1>10, <1>a, Heads DEF Destroy
  <2>2. todo'[d] = <<>> /\ DOMAIN todo' = Dev /\ \A e \in Dev \ {d} : todo'[e] = todo[e]
    BY <1>10, <1>b, <2>1, Rests DEF Destroy
  <2>3. /\ fault' = "none" \/ (chardev' /\ fault' # "array")
        /\ handler'[d].pc = "none"
        /\ ctx'[d].events = "null" /\ ctx'[d].thread = FALSE
        /\ \A e \in Dev \ {d} : ctx'[e] = ctx[e] /\ handler'[e] = handler[e]
    BY <1>10, <1>a DEF Destroy, NoContext, NoHandler
  <2>4. Where(d)' /\ ArrayOf(d)'
    BY <2>2, <2>3 DEF Where, ArrayOf, Active, Elsewhere
  <2> QED BY <2>2, <2>3, <2>4, ArrayOfOne
<1>11. CASE DoUse(d) \/ DoDir(d)
  <2>1. todo[d] = <<"use">> \/ todo[d] = <<"direct">>
    BY <1>11, <1>a, Heads DEF DoUse, DoDir
  <2>2. todo'[d] = <<>> /\ DOMAIN todo' = Dev /\ \A e \in Dev \ {d} : todo'[e] = todo[e]
    BY <1>11, <1>b, <2>1, Rests DEF DoUse, DoDir
  <2>3. handler' = handler /\ fault' = fault /\ ((\E f : Set(d, "fp", f)) \/ ctx' = ctx)
    BY <1>11 DEF DoUse, DoDir, Open
  <2>4. /\ ctx'[d].events = ctx[d].events /\ ctx'[d].thread = ctx[d].thread
        /\ ctx'[d].open = ctx[d].open
        /\ \A e \in Dev \ {d} : ctx'[e] = ctx[e]
    BY <1>a, <2>3 DEF Set, Context
  <2>5. Where(d)' /\ ArrayOf(d)'
    BY <1>a, <2>1, <2>2, <2>3, <2>4 DEF Where, ArrayOf, Active, Elsewhere
  <2> QED BY <1>a, <2>2, <2>3, <2>4, <2>5, ArrayOfOne
<1> QED BY <1>1, <1>2, <1>3, <1>4, <1>5, <1>6, <1>7, <1>8, <1>9, <1>10, <1>11 DEF CallStep

\* Only a handler that runs makes a step; while it runs the array is there.
LEMMA ArrayHandlerStep ==
  ASSUME Alive, ArrayInv, TypeOK, NEW d \in Dev, HandlerStep(d)
  PROVE  ArrayInv'
<1>a. /\ Where(d) /\ ArrayOf(d) /\ fault = "none" /\ DOMAIN todo = Dev
      /\ handler \in [Dev -> Handler] /\ handler[d] \in Handler
  BY DEF ArrayInv, Alive, TypeOK
<1>1. Active(d)
  BY DEF HandlerStep, HandlerCancelled, HandlerSetup, HandlerClear, HandlerPoll, HandlerWake,
         HandlerRead, HandlerCall, HandlerDie, Cancelled, Cancellable, Active
<1>2. ctx[d].thread /\ ctx[d].events = "live"
  BY <1>a, <1>1 DEF ArrayOf
<1>3. UNCHANGED <<ctx, todo>> /\ (fault' = "none" \/ (chardev' /\ fault' # "array"))
  <2>1. CASE HandlerRead(d)
    BY <1>a, <1>2, <2>1 DEF HandlerRead
  <2>2. CASE ~HandlerRead(d)
    BY <1>a, <2>2 DEF HandlerStep, HandlerCancelled, HandlerSetup, HandlerClear, HandlerPoll,
                      HandlerWake, HandlerCall, HandlerDie
  <2> QED BY <2>1, <2>2
<1>4. \A e \in Dev \ {d} : handler'[e] = handler[e]
  BY <1>a DEF HandlerStep, HandlerCancelled, HandlerSetup, HandlerClear, HandlerPoll,
         HandlerWake, HandlerRead, HandlerCall, HandlerDie, Moves, Ends
<1>5. Where(d)'
  BY <1>a, <1>1, <1>3 DEF Where, Active
<1>6. ArrayOf(d)'
  BY <1>a, <1>2, <1>3 DEF ArrayOf
<1> QED BY <1>a, <1>3, <1>4, <1>5, <1>6, ArrayOfOne

LEMMA ArrayStep == Careful /\ ArrayInv /\ TypeOK /\ [Next]_vars => ArrayInv'
<1> SUFFICES ASSUME Careful, ArrayInv, TypeOK, [Next]_vars PROVE ArrayInv'
  OBVIOUS
<1>1. ASSUME NEW p \in Pin, Edge(p) PROVE ArrayInv'
  BY <1>1 DEF Edge, ArrayInv, NoFault, Where, ArrayOf, Active
<1>2. CASE UNCHANGED vars
  BY <1>2 DEF vars, ArrayInv, NoFault, Where, ArrayOf, Active
<1> QED BY <1>1, <1>2, ArrayCall, ArrayCallStep, ArrayHandlerStep DEF Next

\* In a program that leaves a context's interrupt before it closes it, also
\* after interrupts that failed, the handler never uses the events array after
\* it was freed, and through sysfs no memory fault happens at all.
THEOREM ArrayIsNotFreedEarly == ASSUME Careful PROVE Spec => []NoFault
<1>1. ArrayInv => NoFault
  BY DEF ArrayInv
<1>2. ArrayInv /\ TypeOK /\ [Next]_vars => ArrayInv'
  BY ArrayStep
<1> QED BY <1>1, <1>2, ArrayInit, TypeCorrect, PTL DEF Spec
=============================================================================
