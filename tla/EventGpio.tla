----------------------------- MODULE EventGpio -----------------------------
(***************************************************************************)
(* Edge events of the Python GPIO library, event_gpio.c: a registry of     *)
(* channels armed for edge detection (gpio_list), the C callback list, the *)
(* "an edge happened" flags, and the detached poll threads that wait on an *)
(* epoll instance, look the channel up, set its flag and walk the          *)
(* callbacks.                                                              *)
(*                                                                         *)
(* The registry has no lock.  The library calls of Python code exclude     *)
(* each other by the interpreter lock (the GIL), which the operation in    *)
(* progress, op, stands for; a poll thread takes no lock at all, so its    *)
(* steps interleave with everything.  wait_for_edge gives the GIL up.      *)
(*                                                                         *)
(* Pointers: a thread's pointer to a list cell is the channel (or the cell *)
(* number) of that cell; freeing a cell turns the pointers that other      *)
(* parties still hold into Dangling.  Dereferencing Dangling or Null sets  *)
(* fault, and the behaviour ends there: the C program has none any more.   *)
(***************************************************************************)
EXTENDS Integers, FiniteSets, SequencesExt

CONSTANTS
  Channel,      \* the GPIO numbers the program uses, each set up as an input
  Thread,       \* slots for poll threads; none free is a failing pthread_create
  Main,         \* the main thread of the Python program
  Edges,        \* edge kinds an operation may ask for: RISING, FALLING, BOTH
  NoBounce,     \* the bounce time -666, "no filter"
  BounceTimes,  \* the bounce times an operation may ask for
  MaxFd,        \* descriptors the process can have open on value files
  MaxEp,        \* epoll instances the process can have
  MaxCb,        \* cells of the callback list
  Ops,          \* the operations the program uses
  CallbackOps,  \* those its callbacks use
  Quiet,        \* TRUE: channels are removed only while nothing is in flight
  Null, Dangling

ASSUME Parameters ==
  /\ MaxFd \in Nat /\ MaxEp \in Nat /\ MaxCb \in Nat
  /\ Main \notin Thread
  /\ Null \notin Channel /\ Dangling \notin Channel \cup (0..MaxCb) /\ Null # Dangling
  /\ "none" \notin Edges /\ NoBounce \in BounceTimes
  /\ Ops \subseteq {"add", "addFails", "callback", "remove", "cleanup", "cleanupAll", "wait"}
  /\ CallbackOps \subseteq Ops \ {"wait"}
  /\ Quiet \in BOOLEAN

Fd   == 1..MaxFd      \* value file descriptors; 0 is none
Ep   == 1..MaxEp      \* epoll instances; 0 is the -1 of epfd_thread
Cell == 1..MaxCb      \* callback cells in list order; 0 is the NULL that ends it

VARIABLES
  gpioList,       \* gpio_list, head first
  rec,            \* what the record of a listed channel holds
  callbacks,      \* the callback list: the channel of a live cell, or Null
  eventOccurred,  \* event_occurred[]
  threadRunning,  \* thread_running
  epfdThread, epfdBlocking,
  valueFile,      \* kernel: the channel whose value file a descriptor is open on
  epoll,          \* kernel: per instance whether open, what it watches, what is ready
  pc,             \* where a poll thread is
  ptr,            \* its locals: the instance, descriptor, channel or cell it holds
  arg,            \* the channel run_callbacks was called for
  op,             \* the library operation in progress, under the GIL
  wait,           \* the wait_for_edge the main thread blocks in
  fault           \* a freed or NULL pointer was dereferenced

listVars   == <<gpioList, rec, callbacks>>
kernelVars == <<valueFile, epoll>>
threadVars == <<pc, ptr, arg>>
vars == <<gpioList, rec, callbacks, eventOccurred, threadRunning, epfdThread,
          epfdBlocking, valueFile, epoll, pc, ptr, arg, op, wait, fault>>

NoRec  == [fd |-> 0, edge |-> "none", initialThread |-> FALSE,
           threadAdded |-> FALSE, bouncetime |-> NoBounce, called |-> FALSE]
NoOp   == [kind |-> "idle", by |-> Null, target |-> Null, cur |-> Null,
           temp |-> Null, phase |-> "begin"]
NoWait == [ch |-> Null, ep |-> 0, initial |-> FALSE]
NoEpoll == [open |-> FALSE, fds |-> {}, ready |-> {}]

Registered == ToSet(gpioList)

Init ==
  /\ gpioList = <<>>
  /\ rec = [c \in Channel |-> NoRec]
  /\ callbacks = [k \in Cell |-> Null]
  /\ eventOccurred = [c \in Channel |-> FALSE]
  /\ threadRunning = FALSE
  /\ epfdThread = 0 /\ epfdBlocking = 0
  /\ valueFile = [f \in Fd |-> Null]
  /\ epoll = [e \in Ep |-> NoEpoll]
  /\ pc = [t \in Thread |-> "none"]
  /\ ptr = [t \in Thread |-> 0]
  /\ arg = [t \in Thread |-> Null]
  /\ op = NoOp /\ wait = NoWait
  /\ fault = FALSE

-----------------------------------------------------------------------------
(* The kernel: descriptors and epoll instances.                            *)

FreeFds == {f \in Fd : valueFile[f] = Null}
LowestFd == CHOOSE f \in FreeFds : \A h \in FreeFds : f <= h

\* An instance lives while it is open or a thread is inside epoll_wait on it.
Waited(e) == wait.ep = e \/ \E t \in Thread : pc[t] = "blocked" /\ ptr[t] = e
FreeEps == {e \in Ep : ~epoll[e].open /\ ~Waited(e)}

\* The epoll table after EPOLL_CTL_ADD of f to e, which reports f at once.
Watched(ep, e, f) ==
  [ep EXCEPT ![e] = [open |-> TRUE, fds |-> @.fds \cup {f}, ready |-> @.ready \cup {f}]]
\* ... after f is no longer watched by the instances in es.
Unwatched(ep, es, f) ==
  [e \in Ep |-> IF e \in es
                THEN [ep[e] EXCEPT !.fds = @ \ {f}, !.ready = @ \ {f}]
                ELSE ep[e]]
\* ... after epoll_create returned e, if it was not open already.
Created(ep, e) == IF ep[e].open THEN ep
                  ELSE [ep EXCEPT ![e] = [NoEpoll EXCEPT !.open = TRUE]]
Closed(ep, e)  == IF e = 0 THEN ep ELSE [ep EXCEPT ![e].open = FALSE]

\* The instance an operation that needs the global fd gets: the one it has,
\* or a new one.  Empty when epoll_create fails.
EpollFor(fd) == IF fd # 0 THEN {fd} ELSE FreeEps

-----------------------------------------------------------------------------
(* The lists.                                                              *)

Live(cbs) == {k \in Cell : cbs[k] # Null}
\* The cell after k (the first one for k = 0): cb->next, or callbacks itself.
NextCell(cbs, k) ==
  LET later == {j \in Live(cbs) : j > k}
  IN IF later = {} THEN 0 ELSE CHOOSE j \in later : \A i \in later : j <= i

LastCell == CHOOSE k \in Live(callbacks) \cup {0} : \A j \in Live(callbacks) : j <= k

CallbackExists(c) == \E k \in Cell : callbacks[k] = c
EdgeAdded(c) == IF c \in Registered THEN rec[c].edge ELSE "none"

\* The content of a new record.  (Mutant: initial_thread is not set.)
NewRecordNoInitial(e, b, added) ==
  [fd |-> LowestFd, edge |-> e, initialThread |-> FALSE,
   threadAdded |-> added, bouncetime |-> b, called |-> FALSE]
NewRecord(e, b, added) ==
  [fd |-> LowestFd, edge |-> e, initialThread |-> TRUE,
   threadAdded |-> added, bouncetime |-> b, called |-> FALSE]

\* new_gpio(c), and the edge and bounce time its callers set next: a record at
\* the head of the list.  Where a step of it fails the lists stay as they are.
\* (The pins that sysfs has exported are no state of this module: one is
\* unexported where the open fails, but not where its direction cannot be set.)
NewGpio(c, e, b, added) ==
  /\ FreeFds # {}
  /\ gpioList' = <<c>> \o gpioList
  /\ rec' = [rec EXCEPT ![c] = NewRecord(e, b, added)]
  /\ valueFile' = [valueFile EXCEPT ![LowestFd] = c]

-----------------------------------------------------------------------------
(* Who may call the library.                                               *)

Idle == op = NoOp
CanCall(a) == /\ Idle
              /\ IF a = Main THEN wait = NoWait ELSE pc[a] = "call"
OpsOf(a) == IF a = Main THEN Ops ELSE CallbackOps

\* Nothing in flight: every poll thread sits in epoll_wait with nothing to report.
Settled == \A t \in Thread : \/ pc[t] = "none"
                             \/ pc[t] = "blocked" /\ epoll[ptr[t]].ready = {}

-----------------------------------------------------------------------------
(* add_edge_detect and add_edge_callback.                                  *)

\* The record add_edge_detect works on: a new one, or the one wait_for_edge
\* left.  Any other existing record is a conflict, which changes nothing.
Obtain(c, e, b, added) ==
  \/ EdgeAdded(c) = "none" /\ NewGpio(c, e, b, added)
  \/ /\ EdgeAdded(c) = e
     /\ b \in {NoBounce, rec[c].bouncetime}
     /\ ~rec[c].threadAdded
     /\ rec' = [rec EXCEPT ![c].threadAdded = added]
     /\ UNCHANGED <<gpioList, valueFile>>

\* A poll thread is created unless thread_running says that one has started.
StartPoller ==
  IF threadRunning THEN UNCHANGED pc
  ELSE \E t \in Thread : pc[t] = "none" /\ pc' = [pc EXCEPT ![t] = "start"]

AddEdgeDetect(a, c, e, b) ==
  /\ "add" \in OpsOf(a) /\ CanCall(a)
  /\ Obtain(c, e, b, TRUE)
  /\ \E ep \in EpollFor(epfdThread) :
       /\ epfdThread' = ep
       /\ epoll' = Watched(Created(epoll, ep), ep, rec'[c].fd)
  /\ StartPoller
  /\ UNCHANGED <<callbacks, eventOccurred, threadRunning, epfdBlocking, ptr, arg,
                 op, wait, fault>>

\* epoll_create fails: the record stays, armed nowhere.
AddNoEpoll(a, c, e, b) ==
  /\ "add" \in OpsOf(a) /\ CanCall(a)
  /\ EpollFor(epfdThread) = {}
  /\ Obtain(c, e, b, FALSE)
  /\ UNCHANGED <<callbacks, eventOccurred, threadRunning, epfdThread, epfdBlocking,
                 epoll, threadVars, op, wait, fault>>

\* EPOLL_CTL_ADD or pthread_create fails: the operation goes on as a removal.
AddFails(a, c, e, b, added) ==
  /\ "addFails" \in OpsOf(a) /\ CanCall(a)
  /\ added => ~threadRunning
  /\ Obtain(c, e, b, added)
  /\ \E ep \in EpollFor(epfdThread) :
       /\ epfdThread' = ep
       /\ epoll' = IF added THEN Watched(Created(epoll, ep), ep, rec'[c].fd)
                            ELSE Created(epoll, ep)
  /\ op' = [NoOp EXCEPT !.kind = "remove", !.by = a, !.cur = c]
  /\ UNCHANGED <<callbacks, eventOccurred, threadRunning, epfdBlocking, threadVars,
                 wait, fault>>

\* add_edge_callback, which its caller reaches only for a channel with an edge.
AddEdgeCallback(a, c) ==
  /\ "callback" \in OpsOf(a) /\ CanCall(a)
  /\ EdgeAdded(c) # "none"
  /\ LastCell + 1 \in Cell
  /\ callbacks' = [callbacks EXCEPT ![LastCell + 1] = c]
  /\ UNCHANGED <<gpioList, rec, eventOccurred, threadRunning, epfdThread, epfdBlocking,
                 kernelVars, threadVars, op, wait, fault>>

-----------------------------------------------------------------------------
(* remove_edge_detect, on its own, after a failed arming, or as one round   *)
(* of event_cleanup's loop.  Poll threads see it in two steps: the flag is  *)
(* cleared by the first, the record freed by the second.                   *)

\* remove_edge_detect of a channel that is not registered changes nothing.
RemoveEdgeDetect(a, c) ==
  /\ "remove" \in OpsOf(a) /\ CanCall(a)
  /\ Quiet => Settled
  /\ c \in Registered
  /\ op' = [NoOp EXCEPT !.kind = "remove", !.by = a, !.cur = c]
  /\ UNCHANGED <<listVars, eventOccurred, threadRunning, epfdThread, epfdBlocking,
                 kernelVars, threadVars, wait, fault>>

\* Where a registered channel is in the list, and the record after it.
Position(c) == CHOOSE n \in 1..Len(gpioList) : gpioList[n] = c
NextRecord(c) ==
  IF Position(c) < Len(gpioList) THEN gpioList[Position(c) + 1] ELSE Null

\* event_cleanup keeps the next record in temp, but only for a match.
\* (Mutants: the record itself is kept; -666 is not taken for every channel.)
TempItself(c) ==
  IF op.kind = "cleanup" /\ op.target \in {"all", c} THEN c ELSE op.temp
TempOfTarget(c) ==
  IF op.kind = "cleanup" /\ op.target = c THEN NextRecord(c) ELSE op.temp
TempAfter(c) ==
  IF op.kind = "cleanup" /\ op.target \in {"all", c} THEN NextRecord(c) ELSE op.temp

\* What closing, freeing and resetting leave.  (Mutants: the first two
\* are forgotten.)
RemoveNoCallbacks(c) == callbacks
LeaveValueFile(c) == valueFile
RemoveCallbacks(c) == [k \in Cell |-> IF callbacks[k] = c THEN Null ELSE callbacks[k]]
CloseValueFile(c) == [valueFile EXCEPT ![rec[c].fd] = Null]
ClearFlag(c) == [eventOccurred EXCEPT ![c] = FALSE]

\* Up to event_occurred[gpio] = 0: the descriptor closed, the callbacks freed.
RemoveDisarm ==
  /\ op.kind \in {"remove", "cleanup"} /\ op.phase = "begin"
  /\ \E c \in Channel :
       /\ op.cur = c
       /\ epoll' = Unwatched(epoll, Ep, rec[c].fd)
       /\ callbacks' = RemoveCallbacks(c)
       /\ ptr' = [t \in Thread |->
                   IF /\ pc[t] \in {"walk", "call"}
                      /\ \E k \in Cell : ptr[t] = k /\ callbacks[k] = c
                   THEN Dangling ELSE ptr[t]]
       /\ valueFile' = CloseValueFile(c)
       /\ rec' = [rec EXCEPT ![c].edge = "none"]
       /\ eventOccurred' = ClearFlag(c)
       /\ op' = [op EXCEPT !.phase = "end", !.temp = TempAfter(c)]
  /\ UNCHANGED <<gpioList, threadRunning, epfdThread, epfdBlocking, pc, arg, wait, fault>>

\* delete_gpio.  A removal is then done; event_cleanup goes on with g = temp.
RemoveFree ==
  /\ op.phase = "end"
  /\ \E c \in Channel :
       /\ op.cur = c
       /\ gpioList' = RemoveAt(gpioList, Position(c))
       /\ rec' = [rec EXCEPT ![c] = NoRec]
       /\ ptr' = [t \in Thread |-> IF pc[t] \in {"use", "first"} /\ ptr[t] = c THEN Dangling ELSE ptr[t]]
       /\ LET next == IF op.temp = c THEN Dangling ELSE op.temp
          IN op' = IF op.kind = "remove" THEN NoOp
                   ELSE [op EXCEPT !.phase = "begin", !.cur = next, !.temp = next]
  /\ UNCHANGED <<callbacks, eventOccurred, threadRunning, epfdThread, epfdBlocking,
                 kernelVars, pc, arg, wait, fault>>

-----------------------------------------------------------------------------
(* event_cleanup, of one channel or (gpio = -666) of all of them.           *)

Cleanup(a, target) ==
  /\ (IF target = "all" THEN "cleanupAll" ELSE "cleanup") \in OpsOf(a) /\ CanCall(a)
  /\ Quiet => Settled
  /\ op' = [NoOp EXCEPT !.kind = "cleanup", !.by = a, !.target = target,
                        !.cur = IF gpioList = <<>> THEN Null ELSE Head(gpioList)]
  /\ UNCHANGED <<listVars, eventOccurred, threadRunning, epfdThread, epfdBlocking,
                 kernelVars, threadVars, wait, fault>>

\* The loop goes on with a record that an earlier round freed.
CleanupUsesFreed ==
  /\ op.kind = "cleanup" /\ op.phase = "begin" /\ op.cur = Dangling
  /\ fault' = TRUE
  /\ UNCHANGED <<listVars, eventOccurred, threadRunning, epfdThread, epfdBlocking,
                 kernelVars, threadVars, op, wait>>

\* After the loop: both instances forgotten, the blocking one closed only when
\* no record is left, and thread_running reset.  (Mutant: it is not reset.)
CleanupKeepsRunning ==
  /\ op.kind = "cleanup" /\ op.phase = "begin" /\ op.cur = Null
  /\ epoll' = LET e1 == IF gpioList = <<>> THEN Closed(epoll, epfdBlocking) ELSE epoll
              IN Closed(e1, epfdThread)
  /\ epfdThread' = 0 /\ epfdBlocking' = 0
  /\ op' = NoOp
  /\ UNCHANGED <<listVars, eventOccurred, valueFile, threadRunning, threadVars, wait, fault>>
CleanupFinish ==
  /\ op.kind = "cleanup" /\ op.phase = "begin" /\ op.cur = Null
  /\ epoll' = LET e1 == IF gpioList = <<>> THEN Closed(epoll, epfdBlocking) ELSE epoll
              IN Closed(e1, epfdThread)
  /\ epfdThread' = 0 /\ epfdBlocking' = 0
  /\ threadRunning' = FALSE
  /\ op' = NoOp
  /\ UNCHANGED <<listVars, eventOccurred, valueFile, threadVars, wait, fault>>

\* event_detected on a set flag; on a clear one it changes nothing.
EventDetected(a, c) ==
  /\ CanCall(a)
  /\ eventOccurred[c]
  /\ eventOccurred' = ClearFlag(c)
  /\ UNCHANGED <<listVars, threadRunning, epfdThread, epfdBlocking, kernelVars,
                 threadVars, op, wait, fault>>

-----------------------------------------------------------------------------
(* blocking_wait_for_edge, by the main thread, which gives up the GIL.  Its  *)
(* prefix, which looks the channel up and starts to watch it, is one step.  *)

\* The record it waits on: the channel's own, a new one, or that of another
\* edge, which is changed under whoever armed it.
WaitRecord(c, e, b) ==
  \/ EdgeAdded(c) = "none" /\ NewGpio(c, e, b, FALSE)
  \/ /\ EdgeAdded(c) = e
     /\ rec[c].bouncetime \in {NoBounce, b}
     /\ UNCHANGED <<gpioList, rec, valueFile>>
  \/ /\ EdgeAdded(c) \notin {"none", e}
     /\ rec' = [rec EXCEPT ![c].edge = e, ![c].bouncetime = b]
     /\ UNCHANGED <<gpioList, valueFile>>

WaitForEdge(c, e, b) ==
  /\ "wait" \in Ops /\ CanCall(Main)
  /\ ~CallbackExists(c)
  /\ WaitRecord(c, e, b)
  /\ \E ep \in EpollFor(epfdBlocking) :
       /\ epfdBlocking' = ep
       /\ epoll' = Watched(Created(epoll, ep), ep, rec'[c].fd)
       /\ wait' = [ch |-> c, ep |-> ep, initial |-> TRUE]
  /\ UNCHANGED <<callbacks, eventOccurred, threadRunning, epfdThread, threadVars, op, fault>>

\* epoll_create fails: the call returns, the record stays.
WaitNoEpoll(c, e, b) ==
  /\ "wait" \in Ops /\ CanCall(Main)
  /\ ~CallbackExists(c)
  /\ EpollFor(epfdBlocking) = {}
  /\ WaitRecord(c, e, b)
  /\ UNCHANGED <<callbacks, eventOccurred, threadRunning, epfdThread, epfdBlocking,
                 epoll, threadVars, op, wait, fault>>

\* epoll_wait reports the descriptor of the channel waited for.
WaitReady == /\ wait # NoWait
             /\ wait.ch \in Registered
             /\ rec[wait.ch].fd \in epoll[wait.ep].ready
Reported(ep, e, f) == [ep EXCEPT ![e].ready = @ \ {f}]

\* The bounce filter of both loops: an event is ignored only within the bounce
\* time of the last one, and whether that time is over is the clock's choice.
\* (Mutant: a channel without a bounce time is not exempt.)
MayIgnoreAny(c) == rec[c].called
MayIgnore(c) == rec[c].bouncetime # NoBounce /\ rec[c].called

\* The loop waits again, on the instance epfd_blocking names now, and gives up
\* when there is none.  (Mutant: initial_edge is not reset.)
WaitsOnAsInitial ==
  IF epfdBlocking = 0 THEN NoWait ELSE [wait EXCEPT !.ep = epfdBlocking]
WaitsOn ==
  IF epfdBlocking = 0 THEN NoWait
  ELSE [wait EXCEPT !.initial = FALSE, !.ep = epfdBlocking]

\* The first report is ignored, as is a bounce.
WaitAgain ==
  /\ WaitReady
  /\ wait.initial \/ MayIgnore(wait.ch)
  /\ epoll' = Reported(epoll, wait.ep, rec[wait.ch].fd)
  /\ wait' = WaitsOn
  /\ UNCHANGED <<listVars, eventOccurred, threadRunning, epfdThread, epfdBlocking,
                 valueFile, threadVars, op, fault>>

\* The instances the returning waiter deletes its descriptor from.
DoneWith == {epfdBlocking}

WaitReturn ==
  /\ WaitReady
  /\ ~wait.initial
  /\ rec' = [rec EXCEPT ![wait.ch].called = TRUE]
  /\ epoll' = Unwatched(Reported(epoll, wait.ep, rec[wait.ch].fd), DoneWith, rec[wait.ch].fd)
  /\ wait' = NoWait
  /\ UNCHANGED <<gpioList, callbacks, eventOccurred, threadRunning, epfdThread,
                 epfdBlocking, valueFile, threadVars, op, fault>>

-----------------------------------------------------------------------------
(* poll_thread.                                                            *)

\* Thread t goes on at l with the pointer p; nothing else of it changes.
Goto(t, l, p) == pc' = [pc EXCEPT ![t] = l] /\ ptr' = [ptr EXCEPT ![t] = p]
Crash(t) == fault' = TRUE /\ UNCHANGED <<pc, ptr>>
OthersUnchanged == UNCHANGED <<gpioList, callbacks, epfdThread, epfdBlocking,
                               valueFile, op, wait>>

\* thread_running = 1, by the thread itself.
PollStart(t) ==
  /\ pc[t] = "start"
  /\ threadRunning' = TRUE
  /\ Goto(t, "test", 0)
  /\ UNCHANGED <<rec, eventOccurred, epoll, arg, fault>> /\ OthersUnchanged

PollTest(t) ==
  /\ pc[t] = "test"
  /\ Goto(t, IF threadRunning THEN "wait" ELSE "exit", 0)
  /\ UNCHANGED <<rec, eventOccurred, threadRunning, epoll, arg, fault>> /\ OthersUnchanged

\* The call of epoll_wait reads epfd_thread; on -1 it fails and the thread ends.
PollWait(t) ==
  /\ pc[t] = "wait"
  /\ IF epfdThread = 0 THEN Goto(t, "exit", 0) ELSE Goto(t, "blocked", epfdThread)
  /\ UNCHANGED <<rec, eventOccurred, threadRunning, epoll, arg, fault>> /\ OthersUnchanged

\* epoll_wait returns one of the ready descriptors, edge-triggered.
PollReport(t) ==
  /\ pc[t] = "blocked"
  /\ \E f \in epoll[ptr[t]].ready :
       /\ epoll' = Reported(epoll, ptr[t], f)
       /\ Goto(t, "read", f)
  /\ UNCHANGED <<rec, eventOccurred, threadRunning, arg, fault>> /\ OthersUnchanged

\* read() fails on a descriptor that was closed meanwhile; the thread ends.
PollRead(t) ==
  /\ pc[t] = "read"
  /\ IF valueFile[ptr[t]] = Null THEN Goto(t, "exit", 0) ELSE Goto(t, "lookup", ptr[t])
  /\ UNCHANGED <<rec, eventOccurred, threadRunning, epoll, arg, fault>> /\ OthersUnchanged

\* get_gpio_from_value_fd, whose NULL is not checked.
PollLookup(t) ==
  /\ pc[t] = "lookup"
  /\ \/ /\ \A c \in Registered : rec[c].fd # ptr[t]
        /\ Crash(t)
     \/ \E c \in Registered : /\ rec[c].fd = ptr[t]
                              /\ Goto(t, "use", c)
                              /\ UNCHANGED fault
  /\ UNCHANGED <<rec, eventOccurred, threadRunning, epoll, arg>> /\ OthersUnchanged

PollUseFreed(t) ==
  /\ pc[t] = "use" /\ ptr[t] = Dangling
  /\ Crash(t)
  /\ UNCHANGED <<rec, eventOccurred, threadRunning, epoll, arg>> /\ OthersUnchanged

\* The first report of a record is ignored.  initial_thread is read here and
\* reset in a step of its own: a second thread may read it in between.
PollFirst(t) ==
  /\ pc[t] = "use" /\ ptr[t] # Dangling
  /\ rec[ptr[t]].initialThread
  /\ Goto(t, "first", ptr[t])
  /\ UNCHANGED <<rec, eventOccurred, threadRunning, epoll, arg, fault>> /\ OthersUnchanged

PollFirstDone(t) ==
  /\ pc[t] = "first"
  /\ IF ptr[t] = Dangling
     THEN Crash(t) /\ UNCHANGED rec
     ELSE /\ rec' = [rec EXCEPT ![ptr[t]].initialThread = FALSE]
          /\ Goto(t, "test", 0) /\ UNCHANGED fault
  /\ UNCHANGED <<eventOccurred, threadRunning, epoll, arg>> /\ OthersUnchanged

\* A bounce is ignored.
PollBounce(t) ==
  /\ pc[t] = "use" /\ ptr[t] # Dangling
  /\ ~rec[ptr[t]].initialThread /\ MayIgnore(ptr[t])
  /\ Goto(t, "test", 0)
  /\ UNCHANGED <<rec, eventOccurred, threadRunning, epoll, arg, fault>> /\ OthersUnchanged

\* An event: the flag is set and the walk of the callbacks begins.
PollDeliver(t) ==
  /\ pc[t] = "use" /\ ptr[t] # Dangling
  /\ ~rec[ptr[t]].initialThread
  /\ rec' = [rec EXCEPT ![ptr[t]].called = TRUE]
  /\ eventOccurred' = [eventOccurred EXCEPT ![ptr[t]] = TRUE]
  /\ arg' = [arg EXCEPT ![t] = ptr[t]]
  /\ Goto(t, "walk", NextCell(callbacks, 0))
  /\ UNCHANGED <<threadRunning, epoll, fault>> /\ OthersUnchanged

\* run_callbacks at one cell: done, a freed cell, a call, or the next cell.
PollWalk(t) ==
  /\ pc[t] = "walk"
  /\ \/ /\ ptr[t] = 0
        /\ Goto(t, "test", 0) /\ arg' = [arg EXCEPT ![t] = Null]
        /\ UNCHANGED fault
     \/ ptr[t] = Dangling /\ Crash(t) /\ UNCHANGED arg
     \/ /\ ptr[t] \in Cell
        /\ IF callbacks[ptr[t]] = arg[t]
           THEN Goto(t, "call", ptr[t])
           ELSE Goto(t, "walk", NextCell(callbacks, ptr[t]))
        /\ UNCHANGED <<arg, fault>>
  /\ UNCHANGED <<rec, eventOccurred, threadRunning, epoll>> /\ OthersUnchanged

\* func returns, after whatever library calls the Python callback made; then
\* the cell's next is read.
PollReturn(t) ==
  /\ pc[t] = "call"
  /\ op.by # t
  /\ IF ptr[t] = Dangling
     THEN Crash(t)
     ELSE Goto(t, "walk", NextCell(callbacks, ptr[t])) /\ UNCHANGED fault
  /\ UNCHANGED <<rec, eventOccurred, threadRunning, epoll, arg>> /\ OthersUnchanged

\* thread_running = 0 and pthread_exit, on each of the three ways out.
PollExit(t) ==
  /\ pc[t] = "exit"
  /\ threadRunning' = FALSE
  /\ Goto(t, "none", 0)
  /\ UNCHANGED <<rec, eventOccurred, epoll, arg, fault>> /\ OthersUnchanged

-----------------------------------------------------------------------------
(* The line: an edge of the kind the sysfs file selects makes the value     *)
(* file's descriptor ready wherever it is watched.  Quiet: the line is     *)
(* still while a channel is being removed.                                 *)
Edge(c) ==
  /\ c \in Registered /\ rec[c].edge # "none"
  /\ Quiet => Idle
  /\ epoll' = [e \in Ep |->
                IF rec[c].fd \in epoll[e].fds /\ (epoll[e].open \/ Waited(e))
                THEN [epoll[e] EXCEPT !.ready = @ \cup {rec[c].fd}]
                ELSE epoll[e]]
  /\ UNCHANGED <<listVars, eventOccurred, threadRunning, epfdThread, epfdBlocking,
                 valueFile, threadVars, op, wait, fault>>

-----------------------------------------------------------------------------
PollStep(t) ==
  \/ PollStart(t)  \/ PollTest(t)     \/ PollWait(t)   \/ PollReport(t)
  \/ PollRead(t)   \/ PollLookup(t)   \/ PollUseFreed(t)
  \/ PollFirst(t)  \/ PollFirstDone(t) \/ PollBounce(t) \/ PollDeliver(t)
  \/ PollWalk(t)   \/ PollReturn(t)   \/ PollExit(t)

ClientCall(a) ==
  \E c \in Channel :
    \/ \E e \in Edges, b \in BounceTimes :
         \/ AddEdgeDetect(a, c, e, b)
         \/ AddNoEpoll(a, c, e, b)
         \/ \E added \in BOOLEAN : AddFails(a, c, e, b, added)
    \/ AddEdgeCallback(a, c)
    \/ RemoveEdgeDetect(a, c)
    \/ Cleanup(a, c)
    \/ EventDetected(a, c)

WaitCall == \E c \in Channel, e \in Edges, b \in BounceTimes :
              WaitForEdge(c, e, b) \/ WaitNoEpoll(c, e, b)

\* An operation in progress, or a wait, goes on.
OpStep == RemoveDisarm \/ RemoveFree \/ CleanupUsesFreed \/ CleanupFinish
WaitStep == WaitAgain \/ WaitReturn

Next ==
  /\ ~fault
  /\ \/ \E a \in Thread \cup {Main} : ClientCall(a) \/ Cleanup(a, "all")
     \/ WaitCall
     \/ OpStep
     \/ WaitStep
     \/ \E t \in Thread : PollStep(t)
     \/ \E c \in Channel : Edge(c)

Spec == Init /\ [][Next]_vars

\* The scheduler runs every poll thread, a blocked waiter that has something
\* reported, and an operation that was begun; callbacks return.  Nothing makes
\* the program call the library or the line change.
FairSpec == /\ Spec
            /\ \A t \in Thread : WF_vars(~fault /\ PollStep(t))
            /\ WF_vars(~fault /\ OpStep)
            /\ WF_vars(~fault /\ WaitStep)

-----------------------------------------------------------------------------
(* Properties.                                                             *)

\* What the local of a thread points to, by the place the thread is at.
Locals == {"none", "start", "test", "wait", "blocked", "read", "lookup", "use",
           "first", "walk", "call", "exit"}
PointsTo(l, p) ==
  /\ l \in {"none", "start", "test", "wait", "exit"} => p = 0
  /\ l = "blocked" => p \in Ep
  /\ l \in {"read", "lookup"} => p \in Fd
  /\ l \in {"use", "first"} => p \in Channel \cup {Dangling}
  /\ l = "walk" => p \in Cell \cup {0, Dangling}
  /\ l = "call" => p \in Cell \cup {Dangling}

Record == [fd : Fd \cup {0}, edge : Edges \cup {"none"}, initialThread : BOOLEAN,
           threadAdded : BOOLEAN, bouncetime : BounceTimes, called : BOOLEAN]

TypeOK ==
  /\ gpioList \in Seq(Channel)
  /\ rec \in [Channel -> Record]
  /\ callbacks \in [Cell -> Channel \cup {Null}]
  /\ eventOccurred \in [Channel -> BOOLEAN]
  /\ threadRunning \in BOOLEAN
  /\ epfdThread \in Ep \cup {0} /\ epfdBlocking \in Ep \cup {0}
  /\ valueFile \in [Fd -> Channel \cup {Null}]
  /\ epoll \in [Ep -> [open : BOOLEAN, fds : SUBSET Fd, ready : SUBSET Fd]]
  /\ pc \in [Thread -> Locals]
  /\ ptr \in [Thread -> Ep \cup Fd \cup Cell \cup Channel \cup {0, Dangling}]
  /\ \A t \in Thread : PointsTo(pc[t], ptr[t])
  /\ arg \in [Thread -> Channel \cup {Null}]
  /\ op \in [kind : {"idle", "remove", "cleanup"}, by : Thread \cup {Main, Null},
             target : Channel \cup {"all", Null}, cur : Channel \cup {Null, Dangling},
             temp : Channel \cup {Null, Dangling}, phase : {"begin", "end"}]
  /\ wait \in [ch : Channel \cup {Null}, ep : Ep \cup {0}, initial : BOOLEAN]
  /\ fault \in BOOLEAN

\* The channel whose removal is half done.
HalfRemoved(c) == op.phase = "end" /\ op.cur = c

\* The registry and the kernel agree: no channel is registered twice, a
\* registered channel owns the descriptor open on its value file, and no value
\* file is open that no record owns.
RegistryMatchesKernel ==
  /\ IsInjective(gpioList)
  /\ \A c \in Registered : HalfRemoved(c) \/ valueFile[rec[c].fd] = c
  /\ \A f \in Fd : valueFile[f] # Null =>
       valueFile[f] \in Registered /\ rec[valueFile[f]].fd = f

\* No callback outlives the registration of its channel: a channel that is armed
\* again later does not run callbacks of its earlier life.
NoOrphanCallback == \A k \in Live(callbacks) : callbacks[k] \in Registered

\* What the two above need to be inductive.  A registered channel has a descriptor
\* and, until its removal, an edge.
RecordsFilled ==
  \A c \in Registered : /\ rec[c].fd \in Fd
                        /\ ~HalfRemoved(c) => rec[c].edge # "none"

\* A channel whose removal is half done is still listed, its value file is closed
\* and it has no callback.
HalfRemovedIsDisarmed ==
  \A c \in Channel : HalfRemoved(c) =>
    c \in Registered /\ valueFile[rec[c].fd] = Null /\ \A k \in Cell : callbacks[k] # c

\* What an operation in progress works on is registered, or was freed under it.
OperationOnRegistered ==
  /\ op.kind = "idle" => op.phase = "begin"
  /\ op.kind = "remove" => op.cur \in Registered
  /\ op.kind = "cleanup" => {op.cur, op.temp} \subseteq Registered \cup {Null, Dangling}

RegistryInv ==
  /\ TypeOK /\ RegistryMatchesKernel /\ NoOrphanCallback
  /\ RecordsFilled /\ HalfRemovedIsDisarmed /\ OperationOnRegistered

\* While a channel is armed some poll thread is there to serve it: one that has
\* not ended and is not stuck on an instance that was closed.
ArmedHasPoller ==
  (\E c \in Registered : rec[c].threadAdded) /\ Idle =>
     \E t \in Thread : /\ pc[t] \notin {"none", "exit"}
                       /\ pc[t] = "blocked" => epoll[ptr[t]].open

\* Every edge after the first report, on a channel without a bounce filter, is
\* seen: while one is to be reported, the flag gets set, unless wait_for_edge
\* gives the channel a filter meanwhile.
Reportable(c) == /\ c \in Registered /\ rec[c].threadAdded
                 /\ ~rec[c].initialThread /\ rec[c].bouncetime = NoBounce
                 /\ epfdThread # 0 /\ rec[c].fd \in epoll[epfdThread].ready
EdgeIsFlagged == \A c \in Channel :
  Reportable(c) ~> (eventOccurred[c] \/ rec[c].bouncetime # NoBounce)

\* wait_for_edge returns if the line keeps changing: the report it ignores first
\* is not followed by another one that it ignores.
WaitReturns == \A c \in Channel :
  []<><<Edge(c)>>_epoll => (wait.ch = c /\ rec[c].bouncetime = NoBounce ~> wait = NoWait)

\* GPIO.cleanup() leaves no channel, no callback and no open value file.
CleanupAllIsClean ==
  [][op.kind = "cleanup" /\ op.target = "all" /\ op' = NoOp =>
       gpioList' = <<>> /\ Live(callbacks') = {} /\ FreeFds' = Fd]_vars

\* GPIO.cleanup(channel) removes event detection from that channel only.
CleanupSparesOthers ==
  [][op.kind = "cleanup" => \A c \in Registered \ Registered' : op.target \in {"all", c}]_vars

-----------------------------------------------------------------------------
(* EdgeService is what a Python program may rely on.  The reports of a      *)
(* channel in flight, in the kernel or in the hands of a thread, less the   *)
(* first one, are the edges that were not delivered yet.                    *)

Carries(t, c) == \/ pc[t] \in {"read", "lookup"} /\ ptr[t] = rec[c].fd
                 \/ pc[t] \in {"use", "first"} /\ ptr[t] = c
InFlight(c) ==
  Cardinality({t \in Thread : Carries(t, c)})
    + Cardinality({e \in Ep : e = epfdThread /\ rec[c].fd \in epoll[e].ready})
ArmedChannels == {c \in Registered : rec[c].threadAdded /\ rec[c].edge # "none"}
Undelivered == [c \in Channel |->
  IF c \notin ArmedChannels THEN 0
  ELSE InFlight(c) - IF rec[c].initialThread THEN 1 ELSE 0]

Service == INSTANCE EdgeService WITH
  armed <- ArmedChannels, edges <- Undelivered, flagged <- {c \in Channel : eventOccurred[c]}
ServiceSpec == Service!Spec
=============================================================================
