---------------------------- MODULE PowerConsole ----------------------------
(* The power management console of the board: the kernel's frequency limits, *)
(* governors and thermal zones, the settings kept in /boot/config.txt, the   *)
(* console that edits both one shell command at a time, and the boot script  *)
(* that restores the settings.  A frequency is its index in the table of its *)
(* cluster.  The user, a Ctrl+C and a loss of power may come at any moment.  *)
EXTENDS Integers, Sequences

CONSTANTS
  Last,      \* Last[cl]: the highest index of the frequency table of cl
  TornSaves  \* whether a Ctrl+C may cut a save short

Cluster == {"a53", "a72", "t86x"}
Side == {"cpu", "gpu"}
SideOf == [a53 |-> "cpu", a72 |-> "cpu", t86x |-> "gpu"]
ClustersOf == [cpu |-> <<"a53", "a72">>, gpu |-> <<"t86x">>]
Bound == {"min", "max"}
Item == [cl : Cluster, bound : Bound]
NoItem == [cl |-> "none", bound |-> "none"]
FirstItem == [cpu |-> [cl |-> "a53", bound |-> "min"],
              gpu |-> [cl |-> "t86x", bound |-> "min"]]
Other == [cpu |-> "gpu", gpu |-> "cpu", min |-> "max", max |-> "min"]

ASSUME LastAssumption == Last \in [Cluster -> Nat]
ASSUME TornAssumption == TornSaves \in BOOLEAN

\* The four entries of a governor page, in their order on the screen.
Automatic == 0
Manual == 1
Performance == 3
Choice == 0 .. 3
GovernorOf(t) == CASE t \in {Automatic, Manual} -> "ondemand"
                   [] t = 2 -> "powersave"
                   [] t = Performance -> "performance"
Governor == {"ondemand", "powersave", "performance"}

Limits == [min : Nat, max : Nat]
Unlimited == [cl \in Cluster |-> [min |-> 0, max |-> Last[cl]]]

VARIABLES
  limit,      \* scaling_min_freq and scaling_max_freq, min_freq and max_freq
  governor,   \* scaling_governor of the two policies, governor of the GPU
  thermal,    \* whether the thermal zone of a side is enabled
  config,     \* the settings of /boot/config.txt
  running,    \* whether the console runs
  ui,         \* menu, shown governor, dirty flag and cached limits of the console
  mode,       \* cpu_mode and gpu_mode
  switchTag,  \* the entry of the open page the user stands on
  saving,     \* whether the console is inside the handler of the space key
  pending,    \* the shell commands that handler has yet to run
  torn        \* history: a Ctrl+C cut a save short

kernel == <<limit, governor, thermal>>
vars == <<limit, governor, thermal, config, running, ui, mode, switchTag, saving, pending, torn>>

Limited(lim, s) == \E cl \in Cluster : SideOf[cl] = s /\ lim[cl] # Unlimited[cl]
At(lim, i) == lim[i.cl][i.bound]
Accepts(lim, cl, b, v) == IF b = "min" THEN v <= lim[cl].max ELSE lim[cl].min <= v

-----------------------------------------------------------------------------
(* What the console draws, and what it learns by drawing it.                 *)

\* A box of the table is drawn from the file of its limit: the cache and the
\* tag shared by every box take the value read.
\* (Mutant: only the tag does.)
DrawTag(u, i) == IF i = NoItem THEN u ELSE [u EXCEPT !.currTag = At(limit, i)]
Draw(u, i) ==
  IF i = NoItem THEN u
  ELSE [u EXCEPT !.seen[i.cl][i.bound] = At(limit, i), !.currTag = At(limit, i)]

\* All the boxes of some clusters, the one of i last.
DrawAll(u, cls, i) ==
  [u EXCEPT !.seen = [cl \in Cluster |-> IF cl \in cls THEN limit[cl] ELSE u.seen[cl]],
            !.currTag = At(limit, i)]

Highlight(u, s) == Draw(u, u.menu[s])

\* The governor line of one side: dirty is worked out from the cached limits,
\* and a limited side under ondemand is manual even when nobody said so.
Policy == [cpu |-> "a53", gpu |-> "t86x"]
BoardLine(u, s) ==
  LET d == Limited(u.seen, s)
      g == governor[Policy[s]]
      v == [u EXCEPT !.dirty[s] = d]
  IN CASE g = "powersave" -> [v EXCEPT !.shown[s] = 2]
       [] g = "performance" -> [v EXCEPT !.shown[s] = Performance]
       [] g = "ondemand" /\ u.menu[s] # NoItem -> [v EXCEPT !.shown[s] = Manual]
       [] g = "ondemand" /\ u.menu[s] = NoItem /\ ~d -> [v EXCEPT !.shown[s] = Automatic]
       [] g = "ondemand" /\ u.menu[s] = NoItem /\ d ->
            [v EXCEPT !.shown[s] = Manual, !.menu[s] = FirstItem[s], !.priority = s]

Board(u) == BoardLine(BoardLine(u, "gpu"), "cpu")

Off == [menu |-> [s \in Side |-> NoItem], shown |-> [s \in Side |-> Automatic],
        dirty |-> [s \in Side |-> FALSE], priority |-> "cpu",
        seen |-> Unlimited, currTag |-> 0]
Closed == [s \in Side |-> "main"]

-----------------------------------------------------------------------------
(* The shell commands of a save.                                             *)

SetLimit(i, v) == <<[to |-> "kernel", what |-> "limit", of |-> i, value |-> v],
                    [to |-> "config", what |-> "limit", of |-> i, value |-> v]>>

ResetCluster(cl) == SetLimit([cl |-> cl, bound |-> "min"], 0)
                    \o SetLimit([cl |-> cl, bound |-> "max"], Last[cl])

Reset(s) ==
  (IF s = "cpu" THEN ResetCluster("a53") \o ResetCluster("a72") ELSE ResetCluster("t86x"))
  \o <<[to |-> "console", what |-> "limit", of |-> s, value |-> 0]>>

\* (Mutant: one policy is forgotten.)
SetGovernorOne(s, t) ==
  <<[to |-> "kernel", what |-> "governor", of |-> ClustersOf[s][1], value |-> GovernorOf(t)],
    [to |-> "config", what |-> "governor", of |-> s, value |-> GovernorOf(t)],
    [to |-> "kernel", what |-> "thermal", of |-> s, value |-> t # Performance]>>
SetGovernor(s, t) ==
  [k \in DOMAIN ClustersOf[s] |->
     [to |-> "kernel", what |-> "governor", of |-> ClustersOf[s][k], value |-> GovernorOf(t)]]
  \o <<[to |-> "config", what |-> "governor", of |-> s, value |-> GovernorOf(t)],
       [to |-> "kernel", what |-> "thermal", of |-> s, value |-> t # Performance]>>

\* (Mutant: the reset comes last.)
GovernorFirst(s, t) ==
  SetGovernor(s, t) \o (IF t # Manual /\ ui.dirty[s] THEN Reset(s) ELSE <<>>)
GovernorSave(s, t) ==
  (IF t # Manual /\ ui.dirty[s] THEN Reset(s) ELSE <<>>) \o SetGovernor(s, t)

-----------------------------------------------------------------------------
(* The console starts, stops and serves the keys of its three kinds of page. *)

Start ==
  /\ ~running
  /\ running' = TRUE
  /\ ui' = LET u == Board(DrawAll(Off, Cluster, FirstItem["gpu"]))
           IN Highlight(u, u.priority)
  /\ mode' = Closed
  /\ switchTag' = 0
  /\ UNCHANGED <<kernel, config, saving, pending, torn>>

Ready == running /\ ~saving
OnMain == Ready /\ mode = Closed
IsManual(u, s) == u.shown[s] = Manual

\* The box drawn last when a governor page opens.
LastDrawn == [cpu |-> [cl |-> "t86x", bound |-> "max"], gpu |-> [cl |-> "a72", bound |-> "max"]]

OpenGovernor(s) ==
  /\ OnMain
  /\ mode' = [mode EXCEPT ![s] = "governor"]
  /\ ui' = DrawAll(Board([ui EXCEPT !.priority = s]), Cluster, LastDrawn[s])
  /\ switchTag' = ui'.shown[s]
  /\ UNCHANGED <<kernel, config, running, saving, pending, torn>>

\* Where the highlighted box goes.  With both sides manual the three rows form
\* a ring; with one, the arrows stay on that side.
Above == [a53 |-> "t86x", a72 |-> "a53", t86x |-> "a72"]
Below == [a53 |-> "a72", a72 |-> "t86x", t86x |-> "a53"]
BothManual == \A s \in Side : IsManual(ui, s)
Vertical(cl) ==
  IF BothManual THEN {Above[cl], Below[cl]}
  ELSE IF SideOf[cl] = "cpu" THEN {"a53", "a72"} \ {cl} ELSE {}

Move(s) ==
  /\ OnMain
  /\ IsManual(ui, s) /\ (BothManual => ui.priority = s)
  /\ ui.menu[s] # NoItem
  /\ \E i \in [cl : Vertical(ui.menu[s].cl), bound : {ui.menu[s].bound}]
              \cup {[ui.menu[s] EXCEPT !.bound = Other[@]]} :
       ui' = LET t == SideOf[i.cl]
                 u == [Highlight(ui, s) EXCEPT !.menu[t] = i]
             IN Highlight(IF BothManual THEN [u EXCEPT !.priority = t] ELSE u, t)
  /\ UNCHANGED <<kernel, config, running, mode, switchTag, saving, pending, torn>>

\* The mode becomes the number of the menu plus one: one, the governor page,
\* when the side that has the priority has no menu.
OpenLimits ==
  /\ OnMain
  /\ \E s \in Side : IsManual(ui, s)
  /\ mode' = [mode EXCEPT ![ui.priority] =
                IF ui.menu[ui.priority] = NoItem THEN "governor" ELSE "limit"]
  /\ switchTag' = ui.currTag
  /\ UNCHANGED <<kernel, config, running, ui, saving, pending, torn>>

Open(s, p) == Ready /\ mode[s] = p

\* Left and right run round the entries of the page.
Round(t, top) == {IF t < top THEN t + 1 ELSE 0, IF t > 0 THEN t - 1 ELSE top}
Turn(s) ==
  /\ Ready /\ mode[s] # "main"
  /\ switchTag' \in Round(switchTag, IF mode[s] = "governor" THEN Performance
                                     ELSE Last[ui.menu[s].cl])
  /\ UNCHANGED <<kernel, config, running, ui, mode, saving, pending, torn>>

Run(commands) == saving' = TRUE /\ pending' = commands

SaveGovernor(s) ==
  /\ Open(s, "governor")
  /\ Run(GovernorSave(s, switchTag))
  /\ ui' = IF switchTag = Manual
             THEN Highlight([ui EXCEPT !.menu[s] = FirstItem[s], !.priority = s], s)
             ELSE [ui EXCEPT !.menu[s] = NoItem]
  /\ UNCHANGED <<kernel, config, running, mode, switchTag, torn>>

\* A limit is written only when the cached opposite limit allows it.
CanSave(i, t) == Accepts(ui.seen, i.cl, i.bound, t)

\* Writing the end of the table clears dirty whatever the other limits are.
SaveLimit(s) ==
  /\ Open(s, "limit")
  /\ LET i == ui.menu[s]
         ok == CanSave(i, switchTag)
         atEnd == switchTag = At(Unlimited, i)
     IN /\ Run(IF ok THEN SetLimit(i, switchTag) ELSE <<>>)
        /\ ui' = [ui EXCEPT !.dirty[s] = ~(ok /\ atEnd)]
  /\ UNCHANGED <<kernel, config, running, mode, switchTag, torn>>

-----------------------------------------------------------------------------
(* One shell command, and the end of the handler.                            *)

InKernel(w) ==
  /\ w.to = "kernel"
  /\ CASE w.what = "limit" ->
            /\ limit' = IF Accepts(limit, w.of.cl, w.of.bound, w.value)
                          THEN [limit EXCEPT ![w.of.cl][w.of.bound] = w.value] ELSE limit
            /\ UNCHANGED <<governor, thermal>>
       [] w.what = "governor" ->
            governor' = [governor EXCEPT ![w.of] = w.value] /\ UNCHANGED <<limit, thermal>>
       [] w.what = "thermal" ->
            thermal' = [thermal EXCEPT ![w.of] = w.value] /\ UNCHANGED <<limit, governor>>
  /\ UNCHANGED <<config, ui>>

InConfig(w) ==
  /\ w.to = "config"
  /\ config' = IF w.what = "limit"
                 THEN [config EXCEPT !.limit[w.of.cl][w.of.bound] = w.value]
                 ELSE [config EXCEPT !.governor[w.of] = w.value]
  /\ UNCHANGED <<kernel, ui>>

\* After a reset the boxes of the side are drawn again.
\* (Mutant: they are not.)
InConsoleBlind(w) == w.to = "console" /\ UNCHANGED <<ui, kernel, config>>
InConsole(w) ==
  /\ w.to = "console"
  /\ ui' = IF w.of = "cpu" THEN DrawAll(ui, {"a53", "a72"}, LastDrawn["gpu"])
           ELSE DrawAll(ui, {"t86x"}, LastDrawn["cpu"])
  /\ UNCHANGED <<kernel, config>>

Step ==
  /\ pending # <<>>
  /\ LET w == Head(pending) IN InKernel(w) \/ InConfig(w) \/ InConsole(w)
  /\ pending' = Tail(pending)
  /\ UNCHANGED <<running, mode, switchTag, saving, torn>>

\* Leaving a governor page, by the key q or after a save: the other side takes
\* the priority back when it alone is manual.
HandBack(u, s) ==
  IF ~IsManual(u, s) /\ IsManual(u, Other[s])
    THEN Highlight([u EXCEPT !.priority = Other[s]], Other[s]) ELSE u

\* (Mutants: the governor line is kept; a limit page closes without drawing its
\* box.)
LeaveGovernorKept(s) == mode[s] = "governor" /\ ui' = HandBack(Highlight(ui, s), s)
LeaveLimitQuiet(s) == mode[s] = "limit" /\ ui' = ui
LeaveGovernor(s) == mode[s] = "governor" /\ ui' = HandBack(Highlight(Board(ui), s), s)
LeaveLimit(s) == mode[s] = "limit" /\ ui' = Highlight(ui, s)

Leave(s) ==
  /\ running /\ pending = <<>>
  /\ LeaveGovernor(s) \/ LeaveLimit(s)
  /\ mode' = [mode EXCEPT ![s] = "main"]
  /\ saving' = FALSE
  /\ UNCHANGED <<kernel, config, running, switchTag, pending, torn>>

-----------------------------------------------------------------------------
(* Ctrl+C, and the loss of power with the boot that follows.                 *)

Stopped == /\ running' = FALSE
           /\ ui' = Off /\ mode' = Closed /\ switchTag' = 0
           /\ saving' = FALSE /\ pending' = <<>>

Interrupt ==
  /\ running /\ (pending # <<>> => TornSaves)
  /\ Stopped
  /\ torn' = (torn \/ pending # <<>>)
  /\ UNCHANGED <<kernel, config>>

\* The boot script writes the minimum and then the maximum of each cluster over
\* the limits the kernel starts with, the GPU's after the CPU's; it ends at the
\* first write that is refused, and leaves the thermal zones alone.
Refused(cl) == config.limit[cl].max < config.limit[cl].min
Reached(cl) == \A d \in CASE cl = "a53" -> {} [] cl = "a72" -> {"a53"}
                          [] cl = "t86x" -> {"a53", "a72"} : ~Refused(d)
Restored(cl) ==
  IF ~Reached(cl) THEN Unlimited[cl]
  ELSE [config.limit[cl] EXCEPT !.max = IF Refused(cl) THEN Last[cl] ELSE @]

Boot ==
  /\ limit' = [cl \in Cluster |-> Restored(cl)]
  /\ governor' = [cl \in Cluster |-> IF SideOf[cl] = "cpu" \/ Reached(cl)
                                    THEN config.governor[SideOf[cl]] ELSE "ondemand"]
  /\ thermal' = [s \in Side |-> TRUE]
  /\ Stopped
  /\ UNCHANGED <<config, torn>>

Init ==
  /\ limit = Unlimited
  /\ governor = [cl \in Cluster |-> "ondemand"]
  /\ thermal = [s \in Side |-> TRUE]
  /\ config = [limit |-> Unlimited, governor |-> [s \in Side |-> "ondemand"]]
  /\ running = FALSE /\ ui = Off /\ mode = Closed /\ switchTag = 0
  /\ saving = FALSE /\ pending = <<>> /\ torn = FALSE

Next ==
  \/ Start
  \/ \E s \in Side : \/ OpenGovernor(s) \/ Move(s) \/ Turn(s)
                     \/ SaveGovernor(s) \/ SaveLimit(s) \/ Leave(s)
  \/ OpenLimits
  \/ Step
  \/ Interrupt
  \/ Boot

Spec == Init /\ [][Next]_vars

-----------------------------------------------------------------------------
(* Properties.                                                               *)

\* Every variable keeps its type, and no two pages are open.
TypeOK ==
  /\ limit \in [Cluster -> Limits]
  /\ governor \in [Cluster -> Governor]
  /\ thermal \in [Side -> BOOLEAN]
  /\ config \in [limit : [Cluster -> Limits], governor : [Side -> Governor]]
  /\ running \in BOOLEAN /\ saving \in BOOLEAN /\ torn \in BOOLEAN
  /\ ui \in [menu : [Side -> Item \cup {NoItem}], shown : [Side -> Choice],
             dirty : [Side -> BOOLEAN], priority : Side,
             seen : [Cluster -> Limits], currTag : Nat]
  /\ mode \in [Side -> {"main", "governor", "limit"}]
  /\ \E s \in Side : mode[s] = "main"
  /\ switchTag \in Nat
  /\ pending # <<>> => saving

\* Between saves the settings that the next boot restores are those in force,
\* on both policies of the CPU: a save writes each value to both places, and
\* the kernel refuses none of them.  A save that Ctrl+C cut short is excepted.
ConfigAgrees ==
  ~saving /\ ~torn =>
    \A cl \in Cluster : /\ limit[cl] = config.limit[cl]
                        /\ governor[cl] = config.governor[SideOf[cl]]

\* The kernel refuses no write of the console: the guard of a save reads the
\* cached limits, and a reset lowers the minimum before it touches the maximum.
NeverRefused ==
  pending # <<>> =>
    LET w == Head(pending)
    IN w.to = "kernel" /\ w.what = "limit" => Accepts(limit, w.of.cl, w.of.bound, w.value)

\* Limits narrower than the table belong to the ondemand governor alone, in the
\* kernel and in the settings, in the middle of a save and after a power loss
\* there too: choosing another governor resets the limits first.
OnlyOndemandIsLimited ==
  ~torn => \A cl \in Cluster :
    /\ governor[cl] # "ondemand" => limit[cl] = Unlimited[cl]
    /\ config.governor[SideOf[cl]] # "ondemand" => config.limit[cl] = Unlimited[cl]

\* On the main page the tag every box shares is the value of the box the user
\* stands on, whatever was drawn since: the page that space opens starts there.
TagOfMenu ==
  OnMain /\ (\E s \in Side : IsManual(ui, s)) =>
    /\ ui.menu[ui.priority] # NoItem
    /\ ui.currTag = At(limit, ui.menu[ui.priority])

\* On a governor page dirty says whether the limits of the side are narrowed,
\* although a limit save clears it by the value saved alone: the reset that
\* another governor needs is never skipped.
DirtyIsExact ==
  \A s \in Side : Open(s, "governor") => (ui.dirty[s] <=> Limited(limit, s))

\* The main page tells the truth: a side shown as auto is not limited, one
\* shown as powersave or performance runs that governor, and the priority is
\* on a manual side whenever there is one.
ShownIsTrue ==
  OnMain =>
    /\ \A s \in Side : /\ ui.shown[s] = Automatic => ~Limited(limit, s)
                       /\ governor[Policy[s]] = GovernorOf(ui.shown[s])
    /\ (\E s \in Side : IsManual(ui, s)) => IsManual(ui, ui.priority)
=============================================================================
