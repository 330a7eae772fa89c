------------------------------ MODULE MraaGpio ------------------------------
(***************************************************************************)
(* GPIO contexts of mraa (gpio.c, gpio_chardev.c): their export or line    *)
(* request, the descriptors they keep, and the interrupt handler thread    *)
(* of a context, which shares descriptors and the events array with the    *)
(* program's threads.  The board offers the sysfs or the character device  *)
(* interface.                                                              *)
(*                                                                         *)
(* Each context belongs to one program thread, so calls on different       *)
(* contexts interleave.  A call is a sequence of steps.                    *)
(***************************************************************************)
EXTENDS Naturals, Sequences, FiniteSets, SequencesExt, FiniteSetsExt

CONSTANTS
  Dev,       \* the contexts a program makes
  Pin,       \* the pins it makes them for
  MaxFd,     \* descriptors the process may have
  MaxEvents, \* events the kernel keeps for a descriptor
  Exported,  \* the pins exported before the program starts
  Boards,    \* values of chardev_capable
  Careful    \* TRUE: a context with an interrupt thread is closed after isr_exit

ASSUME Parameters ==
  /\ Pin # {} /\ MaxFd \in Nat /\ MaxEvents \in Nat \ {0}
  /\ Exported \subseteq Pin /\ Boards \subseteq BOOLEAN /\ Careful \in BOOLEAN

Fd == 1..MaxFd     \* 0 stands for -1, and for a NULL event_handles
\* The events array is used after it was freed; it is freed twice; the array
\* event_handles is read after it was freed, or where the pointer is NULL.
Faults == {"array", "twice", "handles"}
Some == CHOOSE p \in Pin : TRUE

VARIABLES
  chardev,   \* plat->chardev_capable
  exported,  \* sysfs: the pins exported
  edging,    \* sysfs: those whose edge is not "none"
  file,      \* what each descriptor is open on
  queue,     \* the events poll would report for it
  ctx,       \* the contexts
  handler,   \* the interrupt handler threads
  todo,      \* the steps that the call on a context has yet to make
  fault      \* the memory fault met, which ends the behaviour

vars == <<chardev, exported, edging, file, queue, ctx, handler, todo, fault>>
kernel == <<exported, edging, file, queue>>

Closed == [dev |-> "none", kind |-> "none"]
File(d, kind) == [dev |-> d, kind |-> kind]

\* fp is value_fp or gpiod_handle, ev is event_handles[0].
NoContext == [open |-> FALSE, pin |-> Some, owner |-> FALSE, fp |-> 0, ev |-> 0,
              events |-> "null", thread |-> FALSE, terminating |-> FALSE]
NoHandler == [pc |-> "none", fp |-> 0, cancel |-> FALSE]

Init ==
  /\ chardev \in Boards
  /\ exported = Exported /\ edging = {}
  /\ file = [f \in Fd |-> Closed] /\ queue = [f \in Fd |-> 0]
  /\ ctx = [d \in Dev |-> NoContext]
  /\ handler = [d \in Dev |-> NoHandler]
  /\ todo = [d \in Dev |-> <<>>]
  /\ fault = "none"

-----------------------------------------------------------------------------
(* The kernel.                                                             *)

FreeFds == {f \in Fd : file[f] = Closed}

\* The descriptors fs are closed, one opened on new where f is not 0.
Files(fs, f, new) ==
  /\ file' = [x \in Fd |-> IF x = f THEN new ELSE IF x \in fs THEN Closed ELSE file[x]]
  /\ queue' = [x \in Fd |-> IF x = f \/ x \in fs THEN 0 ELSE queue[x]]
Same == UNCHANGED <<file, queue>>
LowestFree(fs) == Min(FreeFds \cup fs)

\* The character device gives a line to one request at a time.
On(f, p) == file[f] # Closed /\ ctx[file[f].dev].pin = p
Requested(p, fs) == \E f \in Fd \ fs : On(f, p) /\ file[f].kind \in {"line", "event"}

\* An edge is reported to whoever watches the pin.
Edge(p) ==
  /\ chardev \/ p \in edging
  /\ LET watched == {f \in Fd : On(f, p) /\ file[f].kind = "event"}
     IN /\ \E f \in watched : queue[f] < MaxEvents
        /\ queue' = [f \in Fd |-> IF f \in watched /\ queue[f] < MaxEvents
                                  THEN queue[f] + 1 ELSE queue[f]]
  /\ UNCHANGED <<chardev, exported, edging, file, ctx, handler, todo, fault>>

-----------------------------------------------------------------------------
(* Calls, as steps.                                                        *)

Set(d, field, v) == ctx' = [ctx EXCEPT ![d][field] = v]
Begin(d, steps) ==
  /\ todo[d] = <<>>
  /\ todo' = [todo EXCEPT ![d] = steps]
  /\ UNCHANGED <<chardev, kernel, handler, fault>>

\* mraa_gpio_init.
InitContext(d, p) ==
  /\ ~ctx[d].open
  /\ ctx' = [ctx EXCEPT ![d] = [NoContext EXCEPT !.open = chardev, !.pin = p]]
  /\ Begin(d, IF chardev THEN <<>> ELSE <<"stat">>)

\* mraa_gpio_isr, which allows one isr per context.
Isr(d) == ctx[d].open /\ ~ctx[d].thread /\ Begin(d, <<"edge", "create">>) /\ UNCHANGED ctx

\* mraa_gpio_isr_exit, if there is a thread.
\* (Mutants: the thread is not cancelled; the array goes first.)
ExitNoCancel == <<"terminate", "silence", "join", "reset">>
ExitFreeFirst == <<"terminate", "silence", "reset", "cancel", "join">>
ExitSteps == <<"terminate", "silence", "cancel", "join", "reset">>
IsrExit(d) == ctx[d].open /\ ctx[d].thread /\ Begin(d, ExitSteps) /\ UNCHANGED ctx

\* mraa_gpio_close.
Close(d) ==
  /\ ctx[d].open
  /\ Careful => ~ctx[d].thread
  /\ Begin(d, IF ctx[d].thread THEN <<"freeEvents">> \o ExitSteps \o <<"destroy">>
                               ELSE <<"freeEvents", "destroy">>)
  /\ UNCHANGED ctx

\* mraa_gpio_read, _write; mraa_gpio_dir and mraa_gpio_mode.
Use(d) == ctx[d].open /\ Begin(d, <<"use">>) /\ UNCHANGED ctx
Dir(d) == ctx[d].open /\ Begin(d, <<"direct">>) /\ UNCHANGED ctx

-----------------------------------------------------------------------------
At(d, step) == todo[d] # <<>> /\ Head(todo[d]) = step
Done(d) == todo' = [todo EXCEPT ![d] = Tail(@)]
Fails(d) == todo' = [todo EXCEPT ![d] = <<>>]

\* init: a pin that is exported already belongs to somebody else.
StatExported(d) ==
  /\ At(d, "stat")
  /\ \/ /\ ctx[d].pin \in exported
        /\ Set(d, "open", TRUE) /\ Done(d)
     \/ /\ ctx[d].pin \notin exported
        /\ todo' = [todo EXCEPT ![d] = <<"export">>]
        /\ UNCHANGED ctx
  /\ UNCHANGED <<chardev, kernel, handler, fault>>

\* The write fails if the pin was exported since.
\* (Mutant: that failure is taken for success.)
ExportAnyway(d) ==
  /\ exported' = exported \cup {ctx[d].pin}
  /\ ctx' = [ctx EXCEPT ![d].owner = TRUE, ![d].open = TRUE]
DoExport(d) ==
  \/ /\ ctx[d].pin \notin exported
     /\ exported' = exported \cup {ctx[d].pin}
     /\ ctx' = [ctx EXCEPT ![d].owner = TRUE, ![d].open = TRUE]
  \/ /\ ctx[d].pin \in exported
     /\ UNCHANGED <<exported, ctx>>
Export(d) ==
  /\ At(d, "export")
  /\ DoExport(d)
  /\ Done(d)
  /\ UNCHANGED <<chardev, edging, file, queue, handler, fault>>

\* mraa_gpio_edge_mode with an edge.  value_fp or the line handle is closed.
\* (Mutant: but kept in the context.)
StaleFp(fp) == fp
NoFp(fp) == 0
SysfsEdge(d) ==
  /\ At(d, "edge") /\ ~chardev
  /\ ctx' = [ctx EXCEPT ![d].events = IF @ = "null" THEN "live" ELSE @, ![d].fp = NoFp(@)]
  /\ Files({ctx[d].fp}, 0, Closed)
  /\ IF ctx[d].pin \in exported
     THEN edging' = edging \cup {ctx[d].pin} /\ Done(d)
     ELSE edging' = edging /\ Fails(d)
  /\ UNCHANGED <<chardev, exported, handler, fault>>
\* The array event_handles is new; where the request fails it keeps what the
\* memory held.
ChardevEdge(d) ==
  /\ At(d, "edge") /\ chardev
  /\ LET fds == {ctx[d].fp} \ {0}
         c == [ctx[d] EXCEPT !.events = IF @ = "null" THEN "live" ELSE @, !.fp = 0]
     IN \/ /\ ~Requested(c.pin, fds) /\ FreeFds \cup fds # {}
           /\ LET f == LowestFree(fds)
              IN Files(fds, f, File(d, "event")) /\ ctx' = [ctx EXCEPT ![d] = [c EXCEPT !.ev = f]]
           /\ Done(d)
        \/ /\ Requested(c.pin, fds) \/ FreeFds \cup fds = {}
           /\ Files(fds, 0, Closed)
           /\ \E garbage \in Fd \cup {0} : ctx' = [ctx EXCEPT ![d] = [c EXCEPT !.ev = garbage]]
           /\ Fails(d)
  /\ UNCHANGED <<chardev, exported, edging, handler, fault>>

\* The result of pthread_create is not looked at.  Where it fails, thread_id is
\* still 0, or names a thread that has ended.
Create(d) ==
  /\ At(d, "create")
  /\ \/ /\ \E pc \in {"setup", "ended"} :
             handler' = [handler EXCEPT ![d] = [NoHandler EXCEPT !.pc = pc]]
        /\ Set(d, "thread", TRUE)
     \/ UNCHANGED <<handler, ctx>>
  /\ Done(d)
  /\ UNCHANGED <<chardev, kernel, fault>>

\* mraa_gpio_isr_exit.
Terminate(d) ==
  /\ At(d, "terminate")
  /\ Set(d, "terminating", TRUE) /\ Done(d)
  /\ UNCHANGED <<chardev, kernel, handler, fault>>

\* _mraa_close_gpio_event_handles, or edge mode "none".
Silence(d) ==
  /\ At(d, "silence")
  /\ \/ /\ chardev
        /\ Files({ctx[d].ev}, 0, Closed)
        /\ Set(d, "ev", 0)
        /\ UNCHANGED edging
     \/ /\ ~chardev
        /\ Files({ctx[d].fp}, 0, Closed)
        /\ Set(d, "fp", NoFp(ctx[d].fp))
        /\ edging' = edging \ {ctx[d].pin}
  /\ Done(d)
  /\ UNCHANGED <<chardev, exported, handler, fault>>

Cancel(d) ==
  /\ At(d, "cancel")
  /\ handler' = [handler EXCEPT ![d].cancel = TRUE]
  /\ Done(d)
  /\ UNCHANGED <<chardev, kernel, ctx, fault>>

Join(d) ==
  /\ At(d, "join") /\ handler[d].pc = "ended"
  /\ handler' = [handler EXCEPT ![d] = NoHandler]
  /\ Done(d)
  /\ UNCHANGED <<chardev, kernel, ctx, fault>>

Reset(d) ==
  /\ At(d, "reset")
  /\ ctx' = [ctx EXCEPT ![d].thread = FALSE, ![d].terminating = FALSE, ![d].events = "null"]
  /\ fault' = IF ctx[d].events = "freed" THEN "twice" ELSE fault
  /\ Done(d)
  /\ UNCHANGED <<chardev, kernel, handler>>

\* mraa_gpio_close: the array is freed, the pointer to it stays.
FreeEvents(d) ==
  /\ At(d, "freeEvents")
  /\ Set(d, "events", IF ctx[d].events = "live" THEN "freed" ELSE ctx[d].events)
  /\ Done(d)
  /\ UNCHANGED <<chardev, kernel, handler, fault>>

\* _mraa_free_gpio_groups, which frees it again, or _mraa_gpio_close_internal.
Destroy(d) ==
  /\ At(d, "destroy")
  /\ Files({ctx[d].fp, ctx[d].ev}, 0, Closed)
  /\ exported' = IF ctx[d].owner THEN exported \ {ctx[d].pin} ELSE exported
  /\ edging' = edging \cap exported'
  /\ fault' = IF chardev /\ ctx[d].events = "freed" THEN "twice" ELSE fault
  /\ ctx' = [ctx EXCEPT ![d] = [NoContext EXCEPT !.pin = ctx[d].pin]]
  /\ handler' = [handler EXCEPT ![d] = NoHandler]
  /\ Done(d)
  /\ UNCHANGED chardev

\* The value file, or a line handle, is opened unless there is one.
Open(d, fds) ==
  LET ok == IF chardev THEN ~Requested(ctx[d].pin, fds) ELSE ctx[d].pin \in exported
  IN \/ /\ ok /\ FreeFds \cup fds # {}
        /\ Files(fds, LowestFree(fds), File(d, "line"))
        /\ Set(d, "fp", LowestFree(fds))
     \/ /\ ~ok \/ FreeFds \cup fds = {}
        /\ Files(fds, 0, Closed)
        /\ Set(d, "fp", 0)
DoUse(d) ==
  /\ At(d, "use")
  /\ IF ctx[d].fp = 0 THEN Open(d, {}) ELSE Same /\ UNCHANGED ctx
  /\ Done(d)
  /\ UNCHANGED <<chardev, exported, edging, handler, fault>>
DoDir(d) ==
  /\ At(d, "direct")
  /\ IF chardev THEN Open(d, {ctx[d].fp} \ {0})
                ELSE Files({ctx[d].fp}, 0, Closed) /\ Set(d, "fp", NoFp(ctx[d].fp))
  /\ Done(d)
  /\ UNCHANGED <<chardev, exported, edging, handler, fault>>

-----------------------------------------------------------------------------
(* mraa_gpio_interrupt_handler.  A cancellation ends the thread where it    *)
(* opens, reads or polls, and leaves the descriptor it opened.             *)

Moves(d, pc) == handler' = [handler EXCEPT ![d].pc = pc]
Ends(d) == handler' = [handler EXCEPT ![d] = [NoHandler EXCEPT !.pc = "ended"]]
Cancellable(d) == \/ handler[d].pc \in {"poll", "in", "got"}
                  \/ ~chardev /\ handler[d].pc \in {"setup", "clear"}
Cancelled(d) == handler[d].cancel /\ Cancellable(d)
HandlerCancelled(d) ==
  /\ Cancelled(d)
  /\ Ends(d)
  /\ UNCHANGED <<chardev, kernel, ctx, todo, fault>>

\* The value file is opened; the character device has its event handle, in
\* the array event_handles, which isr_exit frees and sets to NULL.
HandlerSetup(d) ==
  /\ handler[d].pc = "setup" /\ ~Cancelled(d)
  /\ fault' = IF chardev /\ ctx[d].ev = 0 THEN "handles" ELSE fault
  /\ \/ /\ chardev
        /\ handler' = [handler EXCEPT ![d].pc = "clear", ![d].fp = ctx[d].ev]
        /\ Same
     \/ /\ ~chardev /\ FreeFds # {} /\ ctx[d].pin \in exported
        /\ LET f == LowestFree({})
           IN /\ handler' = [handler EXCEPT ![d].pc = "clear", ![d].fp = f]
              /\ Files({}, f, File(d, "event"))
     \/ /\ ~chardev /\ (FreeFds = {} \/ ctx[d].pin \notin exported)
        /\ Ends(d) /\ Same
  /\ UNCHANGED <<chardev, exported, edging, ctx, todo>>

\* sysfs: an initial read clears what is pending.
\* (Mutant: of the character device too.)
ClearsBoth == TRUE
Clears == ~chardev
HandlerClear(d) ==
  /\ handler[d].pc = "clear" /\ ~Cancelled(d)
  /\ Moves(d, "poll")
  /\ queue' = IF Clears /\ handler[d].fp # 0 THEN [queue EXCEPT ![handler[d].fp] = 0] ELSE queue
  /\ UNCHANGED <<chardev, exported, edging, file, ctx, todo, fault>>

\* poll returns at once for a descriptor that is closed, or that is open on
\* something else now.
HandlerPoll(d) ==
  /\ handler[d].pc = "poll" /\ ~Cancelled(d)
  /\ Moves(d, IF handler[d].fp # 0 /\ file[handler[d].fp] = File(d, "event") THEN "in" ELSE "got")
  /\ UNCHANGED <<chardev, kernel, ctx, todo, fault>>
HandlerWake(d) ==
  /\ handler[d].pc = "in" /\ ~Cancelled(d)
  /\ \/ file[handler[d].fp] = File(d, "event") /\ queue[handler[d].fp] > 0
     \/ ~chardev /\ ctx[d].pin \notin exported
  /\ Moves(d, "got")
  /\ UNCHANGED <<chardev, kernel, ctx, todo, fault>>

\* The event is read and recorded in the array, and the function called, or
\* the thread ends.
HandlerRead(d) ==
  /\ handler[d].pc = "got" /\ ~Cancelled(d)
  /\ fault' = IF ctx[d].events # "live" THEN "array" ELSE fault
  /\ LET f == handler[d].fp
     IN queue' = IF f # 0 /\ queue[f] > 0
                 THEN [queue EXCEPT ![f] = IF chardev THEN @ - 1 ELSE 0] ELSE queue
  /\ Moves(d, IF ctx[d].terminating THEN "dying" ELSE "call")
  /\ UNCHANGED <<chardev, exported, edging, file, ctx, todo>>
HandlerCall(d) ==
  /\ handler[d].pc = "call"
  /\ Moves(d, "clear")
  /\ UNCHANGED <<chardev, kernel, ctx, todo, fault>>
HandlerDie(d) ==
  /\ handler[d].pc = "dying"
  /\ Files({handler[d].fp}, 0, Closed)
  /\ Ends(d)
  /\ UNCHANGED <<chardev, exported, edging, ctx, todo, fault>>

-----------------------------------------------------------------------------
Call(d) == \/ \E p \in Pin : InitContext(d, p)
           \/ Isr(d) \/ IsrExit(d) \/ Close(d)
           \/ Use(d) \/ Dir(d)
CallStep(d) == \/ StatExported(d) \/ Export(d)
               \/ SysfsEdge(d) \/ ChardevEdge(d) \/ Create(d)
               \/ Terminate(d) \/ Silence(d) \/ Cancel(d) \/ Join(d) \/ Reset(d)
               \/ FreeEvents(d) \/ Destroy(d) \/ DoUse(d) \/ DoDir(d)
HandlerStep(d) == \/ HandlerCancelled(d) \/ HandlerSetup(d) \/ HandlerClear(d)
                  \/ HandlerPoll(d) \/ HandlerWake(d) \/ HandlerRead(d)
                  \/ HandlerCall(d) \/ HandlerDie(d)

Alive == fault = "none"
Next == /\ Alive
        /\ \/ \E d \in Dev : Call(d) \/ CallStep(d) \/ HandlerStep(d)
           \/ \E p \in Pin : Edge(p)

Spec == Init /\ [][Next]_vars

\* Threads that can run do, and the interrupt function returns.
FairSpec == /\ Spec
            /\ \A d \in Dev : /\ WF_vars(Alive /\ CallStep(d))
                              /\ WF_vars(Alive /\ HandlerStep(d))

-----------------------------------------------------------------------------
(* Properties.                                                             *)

Pcs == {"none", "setup", "clear", "poll", "in", "got", "call", "dying", "ended"}
OpenFile == {Closed} \cup [dev : Dev, kind : {"line", "event"}]
Context == [open : BOOLEAN, pin : Pin, owner : BOOLEAN, fp : Fd \cup {0}, ev : Fd \cup {0},
            events : {"null", "live", "freed"}, thread : BOOLEAN, terminating : BOOLEAN]
Handler == [pc : Pcs, fp : Fd \cup {0}, cancel : BOOLEAN]
TypeOK ==
  /\ chardev \in BOOLEAN /\ fault \in Faults \cup {"none"}
  /\ exported \subseteq Pin /\ edging \subseteq exported
  /\ file \in [Fd -> OpenFile] /\ queue \in [Fd -> 0..MaxEvents]
  /\ ctx \in [Dev -> Context] /\ handler \in [Dev -> Handler]

\* No order of the program's steps and the handler's lets the handler use the
\* events array after it was freed; with sysfs no memory is freed twice either.
\* (The character device frees the array twice where a context is closed after
\* an isr that failed, and the handler may read the handles isr_exit freed.)
NoFault == fault # "array" /\ (~chardev => fault = "none")

\* sysfs: the descriptor in a context is open on its own pin, so that no call
\* writes, or closes, a file of another context.
KeepsItsFile == ~chardev => \A d \in Dev : ctx[d].fp # 0 => file[ctx[d].fp] = File(d, "line")

\* sysfs: the pins left exported are those that were before the program, and
\* those that open contexts own; each has one owner.
Owns(d, p) == ctx[d].open /\ ctx[d].owner /\ ctx[d].pin = p
ExportsAreOwned ==
  ~chardev => /\ \A p \in exported \ Exported : \E d \in Dev : Owns(d, p)
              /\ \A p \in Pin : \A d, e \in Dev : Owns(d, p) /\ Owns(e, p) => d = e

\* isr_exit returns, wherever the handler is, unless the process faults: for one
\* where the handler was still to read the handles that isr_exit has freed.
ExitReturns == \A d \in Dev : At(d, "join") ~> (~At(d, "join") \/ ~Alive)

\* An event of a handler that is polling leads to a call, unless its context
\* stops it, or another context closed its file or reads it, or the process
\* faults; with the character device wherever the handler is.
Serving(d) == handler[d].pc \notin {"none", "ended"}
Deaf(d) == \/ handler[d].fp = 0 \/ file[handler[d].fp] # File(d, "event")
           \/ \E e \in Dev \ {d} : Serving(e) /\ handler[e].fp = handler[d].fp
Hears(d) == /\ handler[d].pc \in {"poll", "in"} \/ (chardev /\ Serving(d))
            /\ ~Deaf(d) /\ queue[handler[d].fp] > 0
EventsAreServed == \A d \in Dev :
  Hears(d) ~> (handler[d].pc = "call" \/ ctx[d].terminating \/ ~Serving(d) \/ Deaf(d) \/ ~Alive)
=============================================================================
