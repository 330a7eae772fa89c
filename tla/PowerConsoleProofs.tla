------------------------ MODULE PowerConsoleProofs ------------------------
(***************************************************************************)
(* Proofs about PowerConsole, for frequency tables of any lengths and      *)
(* whether or not Ctrl+C may cut a save short: what the kernel, the        *)
(* settings and the screen say of each other, at every step of a save.     *)
(***************************************************************************)
EXTENDS PowerConsole, TLAPS

-----------------------------------------------------------------------------
(* The commands of a save.                                                  *)

LimitCommand == [to : {"kernel", "config"}, what : {"limit"}, of : Item, value : Nat]
KernelGovernorCommand == [to : {"kernel"}, what : {"governor"}, of : Cluster, value : Governor]
ConfigGovernorCommand == [to : {"config"}, what : {"governor"}, of : Side, value : Governor]
ThermalCommand == [to : {"kernel"}, what : {"thermal"}, of : Side, value : BOOLEAN]
RedrawCommand == [to : {"console"}, what : {"limit"}, of : Side, value : {0}]
Command == LimitCommand \cup KernelGovernorCommand \cup ConfigGovernorCommand
           \cup ThermalCommand \cup RedrawCommand

KernelLimit(w) == w.to = "kernel" /\ w.what = "limit"
ConfigLimit(w) == w.to = "config" /\ w.what = "limit"
KernelGovernor(w) == w.to = "kernel" /\ w.what = "governor"
ConfigGovernor(w) == w.to = "config" /\ w.what = "governor"
Redraw(w) == w.to = "console"
AnyLimit(w) == KernelLimit(w) \/ ConfigLimit(w)
AnyGovernor(w) == KernelGovernor(w) \/ ConfigGovernor(w)

\* The side that a command is about.
About(w) == IF AnyLimit(w) THEN SideOf[w.of.cl]
            ELSE IF KernelGovernor(w) THEN SideOf[w.of] ELSE w.of

Ends(w) == w.value = At(Unlimited, w.of)
Todo == DOMAIN pending

-----------------------------------------------------------------------------
(* The invariant.                                                          *)

UI == [menu : [Side -> Item \cup {NoItem}], shown : [Side -> Choice],
       dirty : [Side -> BOOLEAN], priority : Side,
       seen : [Cluster -> Limits], currTag : Nat]
Page == {"main", "governor", "limit"}

Types ==
  /\ limit \in [Cluster -> Limits] /\ governor \in [Cluster -> Governor]
  /\ thermal \in [Side -> BOOLEAN]
  /\ config \in [limit : [Cluster -> Limits], governor : [Side -> Governor]]
  /\ running \in BOOLEAN /\ saving \in BOOLEAN /\ torn \in BOOLEAN
  /\ ui \in UI /\ mode \in [Side -> Page] /\ switchTag \in Nat
  /\ pending \in Seq(Command)

\* Whatever is limited, is so within its table and not below its minimum.
InTable(l) == \A cl \in Cluster : l[cl].min \in 0..Last[cl] /\ l[cl].max \in 0..Last[cl]
Ordered(l) == \A cl \in Cluster : l[cl].min <= l[cl].max
TablesInv == /\ InTable(limit) /\ InTable(config.limit) /\ Ordered(limit)
             /\ \A j \in Todo : AnyLimit(pending[j]) =>
                  pending[j].value \in 0..Last[pending[j].of.cl]
             /\ ~torn => Ordered(config.limit)

\* A save is one of an open page: a limit page writes its own limit, whatever its
\* value, and nothing else; a governor page resets before it writes the governor.
PageInv ==
  /\ ~running => mode = Closed
  /\ pending # <<>> => saving
  /\ saving => running /\ mode # Closed
  /\ \A s \in Side : mode[s] # "main" => mode[Other[s]] = "main"
  /\ \A j \in Todo : mode[About(pending[j])] # "main"
  /\ \A j \in Todo : mode[About(pending[j])] = "limit" =>
       AnyLimit(pending[j]) /\ pending[j].of = ui.menu[About(pending[j])]
  /\ \A j \in Todo : mode[About(pending[j])] = "governor" /\ AnyLimit(pending[j]) =>
       Ends(pending[j])

\* What each limit needs of the rest of the save: the kernel first, then the settings,
\* with the same value.
LimitsInv ==
  /\ \A j \in Todo : KernelLimit(pending[j]) =>
       \E k \in Todo : j < k /\ ConfigLimit(pending[k]) /\ pending[k].of = pending[j].of
  /\ \A j, k \in Todo : AnyLimit(pending[j]) /\ AnyLimit(pending[k]) /\ pending[j].of = pending[k].of =>
       pending[j].value = pending[k].value
  /\ \A j \in Todo : KernelLimit(pending[j]) /\ ~Ends(pending[j]) =>
       j = 1 /\ Accepts(limit, pending[j].of.cl, pending[j].of.bound, pending[j].value)
  /\ \A j \in Todo : ConfigLimit(pending[j]) /\ ~Ends(pending[j]) => j = Len(pending)
  /\ ~torn =>
       /\ \A j \in Todo : ConfigLimit(pending[j]) =>
            \/ At(limit, pending[j].of) = pending[j].value
            \/ \E k \in Todo : k < j /\ KernelLimit(pending[k]) /\ pending[k].of = pending[j].of
       /\ \A i \in Item : \/ At(limit, i) = At(config.limit, i)
                          \/ \E j \in Todo : ConfigLimit(pending[j]) /\ pending[j].of = i

\* The same of the governors, of which the settings have one for each side.
GovernorsInv ==
  /\ \A j \in Todo : KernelGovernor(pending[j]) =>
       \E k \in Todo : /\ j < k /\ ConfigGovernor(pending[k])
                       /\ pending[k].of = SideOf[pending[j].of]
  /\ \A j, k \in Todo : AnyGovernor(pending[j]) /\ AnyGovernor(pending[k]) =>
       pending[j].value = pending[k].value
  /\ ~torn =>
       /\ \A j \in Todo : ConfigGovernor(pending[j]) =>
            \A cl \in Cluster : SideOf[cl] = pending[j].of =>
              \/ governor[cl] = pending[j].value
              \/ \E k \in Todo : k < j /\ KernelGovernor(pending[k]) /\ pending[k].of = cl
       /\ \A cl \in Cluster : \/ governor[cl] = config.governor[SideOf[cl]]
                              \/ \E j \in Todo : ConfigGovernor(pending[j]) /\ pending[j].of = SideOf[cl]

\* Only ondemand is limited, and another governor waits for the limits to be reset.
NarrowInv == ~torn =>
  /\ \A cl \in Cluster : governor[cl] # "ondemand" => limit[cl] = Unlimited[cl]
  /\ \A cl \in Cluster : config.governor[SideOf[cl]] # "ondemand" =>
       config.limit[cl] = Unlimited[cl]
  /\ \A j \in Todo : KernelGovernor(pending[j]) /\ pending[j].value # "ondemand" =>
       \A i \in Item : i.cl = pending[j].of =>
         \/ At(limit, i) = At(Unlimited, i)
         \/ \E k \in Todo : k < j /\ KernelLimit(pending[k]) /\ pending[k].of = i
  /\ \A j \in Todo : ConfigGovernor(pending[j]) /\ pending[j].value # "ondemand" =>
       \A i \in Item : SideOf[i.cl] = pending[j].of =>
         \/ At(config.limit, i) = At(Unlimited, i)
         \/ \E k \in Todo : k < j /\ ConfigLimit(pending[k]) /\ pending[k].of = i
  /\ \A j \in Todo : AnyLimit(pending[j]) /\ ~Ends(pending[j]) =>
       /\ governor[pending[j].of.cl] = "ondemand"
       /\ config.governor[SideOf[pending[j].of.cl]] = "ondemand"

\* The cached limits are the kernel's, but where the save has written and will draw.
SeenInv == running =>
  /\ \A i \in Item :
       \/ At(ui.seen, i) = At(limit, i)
       \/ \E j \in Todo : Redraw(pending[j]) /\ pending[j].of = SideOf[i.cl]
       \/ saving /\ mode[SideOf[i.cl]] = "limit" /\ ui.menu[SideOf[i.cl]] = i
  /\ \A j \in Todo : KernelLimit(pending[j]) =>
       \/ mode[About(pending[j])] = "limit"
       \/ \E k \in Todo : j < k /\ Redraw(pending[k]) /\ pending[k].of = About(pending[j])

\* What is said of a side agrees with the kernel.
Faithful(u, s) ==
  /\ governor[Policy[s]] = GovernorOf(u.shown[s])
  /\ u.shown[s] = Manual <=> u.menu[s] # NoItem
  /\ u.shown[s] = Automatic => ~Limited(limit, s)

MenusOf(u) == \A s \in Side : u.menu[s] # NoItem => u.menu[s] \in Item /\ SideOf[u.menu[s].cl] = s
MenusInv == MenusOf(ui)

\* Where the user stands.
StandsInv ==
  /\ mode = Closed /\ (\E s \in Side : IsManual(ui, s)) =>
       /\ IsManual(ui, ui.priority)
       /\ ui.currTag = At(limit, ui.menu[ui.priority])
  /\ \A s \in Side : mode[s] # "main" => ui.priority = s
  /\ \A s \in Side : mode[s] = "limit" =>
       IsManual(ui, s) /\ switchTag \in 0..Last[ui.menu[s].cl]
  /\ \A s \in Side : mode[s] = "governor" => switchTag \in Choice

\* What is said on the screen, and what will be once a save of the governor ends.
ShownInv == running =>
  /\ \A s \in Side : Faithful(ui, s) \/ (saving /\ mode[s] = "governor")
  /\ \A s \in Side : mode[s] = "governor" /\ ~saving => (ui.dirty[s] <=> Limited(limit, s))
  /\ \A s \in Side : saving /\ mode[s] = "governor" /\ ui.menu[s] # NoItem =>
       /\ \A j \in Todo : KernelGovernor(pending[j]) => pending[j].value = "ondemand"
       /\ \/ governor[Policy[s]] = "ondemand"
          \/ \E j \in Todo : KernelGovernor(pending[j]) /\ pending[j].of = Policy[s]
  /\ StandsInv

ConsoleInv == /\ Types /\ TablesInv /\ PageInv /\ LimitsInv /\ GovernorsInv /\ NarrowInv
              /\ SeenInv /\ MenusInv /\ ShownInv

-----------------------------------------------------------------------------
(* Records of limits.                                                      *)

LEMMA Sides ==
  /\ \A cl \in Cluster : SideOf[cl] \in Side /\ Above[cl] \in Cluster /\ Below[cl] \in Cluster
  /\ \A s \in Side : /\ Other[s] \in Side /\ Other[s] # s /\ Other[Other[s]] = s
                     /\ Policy[s] \in Cluster /\ SideOf[Policy[s]] = s
                     /\ FirstItem[s] \in Item /\ SideOf[FirstItem[s].cl] = s
                     /\ LastDrawn[s] \in Item
  /\ \A s, t \in Side : s # t => t = Other[s]
  /\ \A b \in Bound : Other[b] \in Bound
  /\ NoItem \notin Item
BY DEF Cluster, SideOf, Side, Above, Below, Other, Policy, FirstItem, LastDrawn, Item, Bound, NoItem

LEMMA AtIsField ==
  ASSUME NEW l \in [Cluster -> Limits], NEW i \in Item
  PROVE  /\ i.cl \in Cluster /\ i.bound \in {"min", "max"}
         /\ At(l, i) = (IF i.bound = "min" THEN l[i.cl].min ELSE l[i.cl].max)
         /\ At(l, i) \in Nat
BY DEF At, Item, Bound, Limits

LEMMA ItemOf ==
  /\ \A cl \in Cluster, b \in {"min", "max"} :
       LET i == [cl |-> cl, bound |-> b] IN i \in Item /\ i.cl = cl /\ i.bound = b
  /\ \A i, j \in Item : i.cl = j.cl /\ i.bound = j.bound => i = j
BY DEF Item, Bound

LEMMA UnlimitedIs ==
  /\ Unlimited \in [Cluster -> Limits]
  /\ \A cl \in Cluster : Unlimited[cl].min = 0 /\ Unlimited[cl].max = Last[cl] /\ Last[cl] \in Nat
  /\ \A i \in Item : At(Unlimited, i) = IF i.bound = "min" THEN 0 ELSE Last[i.cl]
<1>1. /\ Unlimited \in [Cluster -> Limits]
      /\ \A cl \in Cluster : Unlimited[cl].min = 0 /\ Unlimited[cl].max = Last[cl] /\ Last[cl] \in Nat
  BY LastAssumption DEF Unlimited, Limits
<1> QED BY <1>1, AtIsField

\* Two clusters' limits are equal when both bounds are.
LEMMA SameLimits ==
  ASSUME NEW l \in [Cluster -> Limits], NEW m \in [Cluster -> Limits], NEW cl \in Cluster
  PROVE  l[cl] = m[cl] <=> \A i \in Item : i.cl = cl => At(l, i) = At(m, i)
<1>1. ASSUME l[cl] = m[cl] PROVE \A i \in Item : i.cl = cl => At(l, i) = At(m, i)
  BY <1>1 DEF At
<1>2. ASSUME \A i \in Item : i.cl = cl => At(l, i) = At(m, i) PROVE l[cl] = m[cl]
  <2>1. l[cl].min = m[cl].min
    <3>1. PICK i \in Item : i.cl = cl /\ i.bound = "min"
      BY ItemOf
    <3> QED BY <1>2, <3>1, AtIsField
  <2>2. l[cl].max = m[cl].max
    <3>1. PICK i \in Item : i.cl = cl /\ i.bound = "max"
      BY ItemOf
    <3> QED BY <1>2, <3>1, AtIsField
  <2>3. l[cl] = [min |-> l[cl].min, max |-> l[cl].max] /\ m[cl] = [min |-> m[cl].min, max |-> m[cl].max]
    BY DEF Limits
  <2> QED BY <2>1, <2>2, <2>3
<1> QED BY <1>1, <1>2

LEMMA AllSameLimits ==
  ASSUME NEW l \in [Cluster -> Limits], NEW m \in [Cluster -> Limits],
         \A i \in Item : At(l, i) = At(m, i)
  PROVE  l = m
<1>1. \A cl \in Cluster : l[cl] = m[cl]
  BY SameLimits
<1> QED BY <1>1

\* One limit is written.
Written(l, i, v) == [l EXCEPT ![i.cl][i.bound] = v]

LEMMA WriteLimit ==
  ASSUME NEW l \in [Cluster -> Limits], NEW i \in Item, NEW v \in Nat
  PROVE  /\ Written(l, i, v) \in [Cluster -> Limits]
         /\ \A k \in Item : At(Written(l, i, v), k) = IF k = i THEN v ELSE At(l, k)
<1> DEFINE m == Written(l, i, v)
<1>1. i.cl \in Cluster /\ i.bound \in {"min", "max"}
  BY AtIsField
<1>2. [l[i.cl] EXCEPT ![i.bound] = v] \in Limits
  BY <1>1 DEF Limits
<1>3. m = [l EXCEPT ![i.cl] = [l[i.cl] EXCEPT ![i.bound] = v]]
  BY DEF Written
<1> HIDE DEF m
<1>4. m \in [Cluster -> Limits]
  BY <1>1, <1>2, <1>3
<1>5. ASSUME NEW k \in Item PROVE At(m, k) = IF k = i THEN v ELSE At(l, k)
  <2>1. CASE k.cl # i.cl
    BY <1>1, <1>3, <2>1, AtIsField DEF At
  <2>2. CASE k.cl = i.cl
    <3>1. At(m, k) = [l[i.cl] EXCEPT ![i.bound] = v][k.bound]
      BY <1>1, <1>3, <2>2 DEF At
    <3>2. l[i.cl] \in Limits /\ k.bound \in {"min", "max"}
      BY <1>1, AtIsField
    <3>3. [l[i.cl] EXCEPT ![i.bound] = v][k.bound] = IF k.bound = i.bound THEN v ELSE l[i.cl][k.bound]
      BY <3>2 DEF Limits
    <3> QED BY <2>2, <3>1, <3>3, ItemOf DEF At
  <2> QED BY <2>1, <2>2
<1> QED BY <1>4, <1>5 DEF m

\* Order and range, said of the items.
LEMMA OrderOfItems ==
  ASSUME NEW l \in [Cluster -> Limits]
  PROVE  /\ Ordered(l) <=> \A i, k \in Item : i.cl = k.cl /\ i.bound = "min" /\ k.bound = "max" =>
                                              At(l, i) <= At(l, k)
         /\ InTable(l) <=> \A i \in Item : At(l, i) \in 0..Last[i.cl]
<1>1. ASSUME NEW cl \in Cluster
      PROVE  \E i, k \in Item : /\ i.cl = cl /\ k.cl = cl /\ i.bound = "min" /\ k.bound = "max"
                                /\ At(l, i) = l[cl].min /\ At(l, k) = l[cl].max
  <2>1. PICK i \in Item : i.cl = cl /\ i.bound = "min"
    BY ItemOf
  <2>2. PICK k \in Item : k.cl = cl /\ k.bound = "max"
    BY ItemOf
  <2> QED BY <2>1, <2>2, AtIsField
<1>2. Ordered(l) => \A i, k \in Item : i.cl = k.cl /\ i.bound = "min" /\ k.bound = "max" =>
                                       At(l, i) <= At(l, k)
  BY AtIsField DEF Ordered
<1>3. InTable(l) => \A i \in Item : At(l, i) \in 0..Last[i.cl]
  BY AtIsField DEF InTable
<1>4. ASSUME \A i, k \in Item : i.cl = k.cl /\ i.bound = "min" /\ k.bound = "max" =>
                                At(l, i) <= At(l, k)
      PROVE  Ordered(l)
  <2> SUFFICES ASSUME NEW cl \in Cluster PROVE l[cl].min <= l[cl].max
    BY DEF Ordered
  <2> QED BY <1>1, <1>4
<1>5. ASSUME \A i \in Item : At(l, i) \in 0..Last[i.cl] PROVE InTable(l)
  <2> SUFFICES ASSUME NEW cl \in Cluster PROVE l[cl].min \in 0..Last[cl] /\ l[cl].max \in 0..Last[cl]
    BY DEF InTable
  <2> QED BY <1>1, <1>5
<1> QED BY <1>2, <1>3, <1>4, <1>5

\* The kernel accepts what keeps the minimum below the maximum.
LEMMA AcceptsKeepsOrder ==
  ASSUME NEW l \in [Cluster -> Limits], NEW i \in Item, NEW v \in Nat, Ordered(l),
         Accepts(l, i.cl, i.bound, v)
  PROVE  Ordered(Written(l, i, v))
<1>1. /\ Written(l, i, v) \in [Cluster -> Limits]
      /\ \A k \in Item : At(Written(l, i, v), k) = IF k = i THEN v ELSE At(l, k)
  BY WriteLimit
<1> SUFFICES ASSUME NEW lo \in Item, NEW hi \in Item, lo.cl = hi.cl, lo.bound = "min", hi.bound = "max"
             PROVE  At(Written(l, i, v), lo) <= At(Written(l, i, v), hi)
  BY <1>1, OrderOfItems
<1>2. At(l, lo) <= At(l, hi) /\ At(l, lo) = l[lo.cl].min /\ At(l, hi) = l[lo.cl].max
  BY OrderOfItems, AtIsField
<1>3. CASE i = lo
  BY <1>1, <1>2, <1>3, lo # hi DEF Accepts
<1>4. CASE i = hi
  BY <1>1, <1>2, <1>4, lo # hi DEF Accepts
<1>5. CASE i # lo /\ i # hi
  BY <1>1, <1>2, <1>5
<1> QED BY <1>3, <1>4, <1>5

\* An end of the table is always accepted.
LEMMA EndsAreAccepted ==
  ASSUME NEW l \in [Cluster -> Limits], NEW i \in Item, InTable(l)
  PROVE  Accepts(l, i.cl, i.bound, At(Unlimited, i))
BY AtIsField, UnlimitedIs DEF Accepts, InTable, Limits

LEMMA NotLimited ==
  ASSUME NEW l \in [Cluster -> Limits], NEW s \in Side
  PROVE  ~Limited(l, s) <=> \A i \in Item : SideOf[i.cl] = s => At(l, i) = At(Unlimited, i)
<1>1. \A cl \in Cluster : l[cl] = Unlimited[cl] <=> \A i \in Item : i.cl = cl => At(l, i) = At(Unlimited, i)
  BY SameLimits, UnlimitedIs
<1> QED BY <1>1, AtIsField DEF Limited

-----------------------------------------------------------------------------
(* What the console draws.                                                 *)

\* The cached limits after some boxes were drawn.
Cached(u, v, drawn) ==
  \A i \in Item : At(v.seen, i) = IF i \in drawn THEN At(limit, i) ELSE At(u.seen, i)

\* v says of the sides what u says.
SameSides(u, v) == v.menu = u.menu /\ v.shown = u.shown /\ v.dirty = u.dirty

LEMMA FieldsOfUI ==
  ASSUME NEW u \in UI
  PROVE  /\ u.menu \in [Side -> Item \cup {NoItem}] /\ u.shown \in [Side -> Choice]
         /\ u.dirty \in [Side -> BOOLEAN] /\ u.priority \in Side
         /\ u.seen \in [Cluster -> Limits] /\ u.currTag \in Nat
BY DEF UI

LEMMA DrawIs ==
  ASSUME NEW u \in UI, limit \in [Cluster -> Limits], NEW i \in Item
  PROVE  /\ Draw(u, i) \in UI /\ SameSides(u, Draw(u, i)) /\ Draw(u, i).priority = u.priority
         /\ Draw(u, i).currTag = At(limit, i) /\ Cached(u, Draw(u, i), {i})
<1>1. i # NoItem /\ At(limit, i) \in Nat
  BY Sides, AtIsField
<1>2. /\ Written(u.seen, i, At(limit, i)) \in [Cluster -> Limits]
      /\ \A k \in Item : At(Written(u.seen, i, At(limit, i)), k) = IF k = i THEN At(limit, i) ELSE At(u.seen, k)
  BY <1>1, WriteLimit, FieldsOfUI
<1>3. Draw(u, i) = [[u EXCEPT !.seen = Written(u.seen, i, At(limit, i))] EXCEPT !.currTag = At(limit, i)]
  BY <1>1 DEF Draw, Written
<1> DEFINE w == Written(u.seen, i, At(limit, i))  t == At(limit, i)
<1> HIDE DEF w, t
<1>4. w \in [Cluster -> Limits] /\ t \in Nat
  BY <1>1, <1>2 DEF w, t
<1>5. Draw(u, i) = [[u EXCEPT !.seen = w] EXCEPT !.currTag = t]
  BY <1>3 DEF w, t
<1>6. /\ Draw(u, i) \in UI /\ SameSides(u, Draw(u, i)) /\ Draw(u, i).priority = u.priority
      /\ Draw(u, i).currTag = t /\ Draw(u, i).seen = w
  BY <1>4, <1>5 DEF UI, SameSides
<1>7. \A k \in Item : At(w, k) = IF k = i THEN At(limit, k) ELSE At(u.seen, k)
  BY <1>2 DEF w
<1> QED BY <1>6, <1>7 DEF Cached, t

\* The boxes of some clusters.
BoxesOf(cls) == {i \in Item : i.cl \in cls}

LEMMA DrawAllIs ==
  ASSUME NEW u \in UI, limit \in [Cluster -> Limits], NEW cls \in SUBSET Cluster, NEW i \in Item
  PROVE  LET v == DrawAll(u, cls, i)
         IN /\ v \in UI /\ SameSides(u, v) /\ v.priority = u.priority
            /\ v.currTag = At(limit, i) /\ Cached(u, v, BoxesOf(cls))
<1> DEFINE w == [cl \in Cluster |-> IF cl \in cls THEN limit[cl] ELSE u.seen[cl]]
           t == At(limit, i)
           v == DrawAll(u, cls, i)
<1>1. w \in [Cluster -> Limits] /\ t \in Nat
  BY AtIsField, FieldsOfUI
<1>2. ASSUME NEW k \in Item PROVE At(w, k) = IF k \in BoxesOf(cls) THEN At(limit, k) ELSE At(u.seen, k)
  BY AtIsField DEF At, BoxesOf
<1>3. v = [[u EXCEPT !.seen = w] EXCEPT !.currTag = t]
  BY DEF DrawAll
<1> HIDE DEF w, t, v
<1>4. v \in UI /\ SameSides(u, v) /\ v.priority = u.priority /\ v.currTag = t /\ v.seen = w
  BY <1>1, <1>3 DEF UI, SameSides
<1> QED BY <1>2, <1>4 DEF Cached, v, t

-----------------------------------------------------------------------------
(* The governor lines.                                                     *)

LEMMA GovernorsAre ==
  /\ GovernorOf(Automatic) = "ondemand" /\ GovernorOf(Manual) = "ondemand"
  /\ GovernorOf(2) = "powersave" /\ GovernorOf(Performance) = "performance"
  /\ \A t \in Choice : /\ GovernorOf(t) \in Governor
                       /\ GovernorOf(t) = "ondemand" <=> t \in {Automatic, Manual}
  /\ Automatic \in Choice /\ Manual \in Choice /\ Performance \in Choice /\ 2 \in Choice
  /\ Choice \subseteq Nat /\ Manual # Automatic /\ Manual # 2 /\ Manual # Performance
  /\ Automatic # 2 /\ Automatic # Performance
BY DEF GovernorOf, Governor, Automatic, Manual, Performance, Choice

\* What is drawn again of the governor of a side.
Line(u, v, s) ==
  /\ v.seen = u.seen /\ v.currTag = u.currTag
  /\ v.dirty[s] = Limited(u.seen, s)
  /\ \A t \in Side : t # s => v.dirty[t] = u.dirty[t] /\ v.shown[t] = u.shown[t] /\ v.menu[t] = u.menu[t]
  /\ governor[Policy[s]] = GovernorOf(v.shown[s])
  /\ u.menu[s] # NoItem /\ governor[Policy[s]] = "ondemand" => v.shown[s] = Manual
  /\ v.shown[s] = Manual => v.menu[s] # NoItem
  /\ v.shown[s] = Automatic => ~Limited(u.seen, s) /\ u.menu[s] = NoItem
  /\ v.shown[s] # Manual => v.menu[s] = u.menu[s]
  /\ v.menu[s] # NoItem => v.menu[s] \in {u.menu[s], FirstItem[s]}
  /\ IF governor[Policy[s]] = "ondemand" /\ u.menu[s] = NoItem /\ Limited(u.seen, s)
       THEN v.priority = s /\ v.shown[s] = Manual ELSE v.priority = u.priority /\ v.menu[s] = u.menu[s]

LEMMA BoardLineIs ==
  ASSUME NEW u \in UI, NEW s \in Side, governor \in [Cluster -> Governor]
  PROVE  BoardLine(u, s) \in UI /\ Line(u, BoardLine(u, s), s)
<1> DEFINE d == Limited(u.seen, s)
           g == governor[Policy[s]]
           e == [u.dirty EXCEPT ![s] = d]
           v == [u EXCEPT !.dirty = e]
           b == BoardLine(u, s)
<1>1. d \in BOOLEAN /\ g \in {"ondemand", "powersave", "performance"} /\ FirstItem[s] \in Item /\ FirstItem[s] # NoItem
  BY Sides DEF Limited, Governor
<1>2. e \in [Side -> BOOLEAN] /\ e[s] = d /\ \A t \in Side : t # s => e[t] = u.dirty[t]
  BY <1>1, FieldsOfUI
<1>3. v = [u EXCEPT !.dirty[s] = d]
  OBVIOUS
<1>4. /\ g = "powersave" => b = [v EXCEPT !.shown[s] = 2]
      /\ g = "performance" => b = [v EXCEPT !.shown[s] = Performance]
      /\ g = "ondemand" /\ u.menu[s] # NoItem => b = [v EXCEPT !.shown[s] = Manual]
      /\ g = "ondemand" /\ u.menu[s] = NoItem /\ ~d => b = [v EXCEPT !.shown[s] = Automatic]
      /\ g = "ondemand" /\ u.menu[s] = NoItem /\ d =>
           b = [v EXCEPT !.shown[s] = Manual, !.menu[s] = FirstItem[s], !.priority = s]
  BY DEF BoardLine
<1> HIDE DEF d, g, e, b
<1>5. /\ v \in UI /\ v.menu = u.menu /\ v.shown = u.shown /\ v.dirty = e
      /\ v.priority = u.priority /\ v.seen = u.seen /\ v.currTag = u.currTag
  BY <1>2 DEF UI
<1> HIDE DEF v
<1>6. ASSUME NEW c \in Choice, NEW x, x = [v EXCEPT !.shown[s] = c]
      PROVE  /\ x \in UI /\ x.menu = u.menu /\ x.dirty = e /\ x.priority = u.priority
             /\ x.seen = u.seen /\ x.currTag = u.currTag /\ x.shown[s] = c
             /\ \A t \in Side : t # s => x.shown[t] = u.shown[t]
  <2> DEFINE h == [v.shown EXCEPT ![s] = c]
  <2>1. h \in [Side -> Choice] /\ h[s] = c /\ \A t \in Side : t # s => h[t] = u.shown[t]
    BY <1>5, FieldsOfUI
  <2>2. x = [v EXCEPT !.shown = h]
    BY <1>6
  <2> HIDE DEF h
  <2> QED BY <1>5, <2>1, <2>2 DEF UI
<1>7. CASE g = "powersave"
  BY <1>1, <1>2, <1>4, <1>6, <1>7, GovernorsAre DEF Line, d, g, b
<1>8. CASE g = "performance"
  BY <1>1, <1>2, <1>4, <1>6, <1>8, GovernorsAre DEF Line, d, g, b
<1>9. CASE g = "ondemand" /\ u.menu[s] # NoItem
  BY <1>1, <1>2, <1>4, <1>6, <1>9, GovernorsAre DEF Line, d, g, b
<1>10. CASE g = "ondemand" /\ u.menu[s] = NoItem /\ ~d
  BY <1>1, <1>2, <1>4, <1>6, <1>10, GovernorsAre DEF Line, d, g, b
<1>11. CASE g = "ondemand" /\ u.menu[s] = NoItem /\ d
  <2> DEFINE h == [v.shown EXCEPT ![s] = Manual]
             m == [v.menu EXCEPT ![s] = FirstItem[s]]
  <2>1. /\ h \in [Side -> Choice] /\ h[s] = Manual /\ \A t \in Side : t # s => h[t] = u.shown[t]
        /\ m \in [Side -> Item \cup {NoItem}] /\ m[s] = FirstItem[s]
        /\ \A t \in Side : t # s => m[t] = u.menu[t]
    BY <1>1, <1>5, FieldsOfUI, GovernorsAre
  <2>2. b = [[[v EXCEPT !.shown = h] EXCEPT !.menu = m] EXCEPT !.priority = s]
    BY <1>4, <1>11
  <2> HIDE DEF h, m
  <2>3. /\ b \in UI /\ b.menu = m /\ b.shown = h /\ b.dirty = e /\ b.priority = s
        /\ b.seen = u.seen /\ b.currTag = u.currTag
    BY <1>5, <2>1, <2>2 DEF UI
  <2> QED BY <1>1, <1>2, <1>11, <2>1, <2>3, GovernorsAre DEF Line, d, g, b
<1> QED BY <1>1, <1>7, <1>8, <1>9, <1>10, <1>11

LEMMA BoardIs ==
  ASSUME NEW u \in UI, governor \in [Cluster -> Governor], u.seen = limit, MenusOf(u),
         \A s \in Side : u.menu[s] # NoItem => governor[Policy[s]] = "ondemand"
  PROVE  LET v == Board(u)
         IN /\ v \in UI /\ v.seen = limit /\ v.currTag = u.currTag /\ MenusOf(v)
            /\ \A s \in Side : v.dirty[s] <=> Limited(limit, s)
            /\ \A s \in Side : Faithful(v, s)
            /\ (\A s \in Side : s # u.priority /\ governor[Policy[s]] = "ondemand" /\ u.menu[s] = NoItem
                               => ~Limited(limit, s))
                 => v.priority = u.priority
            /\ (\A s \in Side : u.menu[s] = NoItem) /\ (\E s \in Side : IsManual(v, s))
                 => IsManual(v, v.priority)
<1> DEFINE w == BoardLine(u, "gpu")
           v == BoardLine(w, "cpu")
<1>1. "cpu" \in Side /\ "gpu" \in Side /\ \A s \in Side : s = "cpu" \/ s = "gpu"
  BY DEF Side
<1>2. w \in UI /\ Line(u, w, "gpu")
  BY <1>1, BoardLineIs
<1>3. v \in UI /\ Line(w, v, "cpu")
  BY <1>1, <1>2, BoardLineIs
<1>4. Board(u) = v
  BY DEF Board
<1> HIDE DEF w, v
<1>5. /\ v.seen = limit /\ v.currTag = u.currTag
      /\ v.dirty["cpu"] = Limited(limit, "cpu") /\ v.dirty["gpu"] = Limited(limit, "gpu")
  BY <1>1, <1>2, <1>3 DEF Line
<1>6. Faithful(v, "gpu") /\ (v.menu["gpu"] # NoItem => v.menu["gpu"] \in {u.menu["gpu"], FirstItem["gpu"]})
  BY <1>1, <1>2, <1>3, GovernorsAre DEF Line, Faithful
<1>7. Faithful(v, "cpu") /\ (v.menu["cpu"] # NoItem => v.menu["cpu"] \in {u.menu["cpu"], FirstItem["cpu"]})
  BY <1>1, <1>2, <1>3, GovernorsAre DEF Line, Faithful
<1>8. MenusOf(v)
  BY <1>1, <1>6, <1>7, Sides DEF MenusOf
<1>9. ASSUME \A s \in Side : s # u.priority /\ governor[Policy[s]] = "ondemand" /\ u.menu[s] = NoItem
                             => ~Limited(limit, s)
      PROVE  v.priority = u.priority
  <2>1. CASE u.priority = "cpu"
    BY <1>1, <1>2, <1>3, <1>9, <2>1 DEF Line
  <2>2. CASE u.priority = "gpu"
    BY <1>1, <1>2, <1>3, <1>9, <2>2 DEF Line
  <2> QED BY <1>1, <2>1, <2>2, FieldsOfUI
<1>10. ASSUME \A s \in Side : u.menu[s] = NoItem, NEW s \in Side, IsManual(v, s)
       PROVE  IsManual(v, v.priority)
  <2>1. CASE s = "cpu"
    BY <1>1, <1>2, <1>3, <1>10, <2>1 DEF Line, IsManual
  <2>2. CASE s = "gpu"
    BY <1>1, <1>2, <1>3, <1>10, <2>2 DEF Line, IsManual
  <2> QED BY <1>1, <2>1, <2>2
<1>11. \A s \in Side : (v.dirty[s] <=> Limited(limit, s)) /\ Faithful(v, s)
  BY <1>1, <1>5, <1>6, <1>7
<1> QED BY <1>3, <1>4, <1>5, <1>8, <1>9, <1>10, <1>11

\* The box the user stands on is drawn.
LEMMA HighlightIs ==
  ASSUME NEW u \in UI, limit \in [Cluster -> Limits], MenusOf(u), NEW s \in Side,
         \A i \in Item : At(u.seen, i) = At(limit, i) \/ i = u.menu[s]
  PROVE  LET v == Highlight(u, s)
         IN /\ v \in UI /\ SameSides(u, v) /\ v.priority = u.priority /\ v.seen = limit
            /\ v.currTag = IF u.menu[s] = NoItem THEN u.currTag ELSE At(limit, u.menu[s])
<1> DEFINE v == Highlight(u, s)
<1>1. v \in UI /\ SameSides(u, v) /\ v.priority = u.priority
      /\ (v.currTag = IF u.menu[s] = NoItem THEN u.currTag ELSE At(limit, u.menu[s]))
      /\ \A i \in Item : At(v.seen, i) = At(limit, i)
  <2>1. CASE u.menu[s] = NoItem
    BY <2>1, Sides DEF Highlight, Draw, SameSides
  <2>2. CASE u.menu[s] # NoItem
    <3>1. u.menu[s] \in Item
      BY <2>2 DEF MenusOf
    <3> QED BY <2>2, <3>1, DrawIs DEF Highlight, Cached
  <2> QED BY <2>1, <2>2
<1> HIDE DEF v
<1>2. v.seen = limit
  BY <1>1, AllSameLimits, FieldsOfUI
<1> QED BY <1>1, <1>2 DEF v

LEMMA AllBoxes ==
  ASSUME NEW u \in UI, limit \in [Cluster -> Limits], NEW i \in Item
  PROVE  DrawAll(u, Cluster, i).seen = limit
<1>1. DrawAll(u, Cluster, i) \in UI /\ Cached(u, DrawAll(u, Cluster, i), BoxesOf(Cluster))
  BY DrawAllIs
<1> QED BY <1>1, AllSameLimits, AtIsField, FieldsOfUI DEF Cached, BoxesOf

-----------------------------------------------------------------------------
(* Between saves.                                                          *)

LEMMA NothingToDo ==
  ASSUME pending = <<>> PROVE Todo = {}
BY DEF Todo

LEMMA ClosedIs ==
  ASSUME Types
  PROVE  /\ mode = Closed <=> \A s \in Side : mode[s] = "main"
         /\ \A s \in Side : Closed[s] = "main"
         /\ Closed \in [Side -> Page]
BY DEF Types, Closed, Page

\* Outside a save the cache is exact and both sides are shown as they are.
LEMMA Idle ==
  ASSUME ConsoleInv, running, pending = <<>>
  PROVE  /\ Todo = {}
         /\ \A i \in Item : \/ At(ui.seen, i) = At(limit, i)
                            \/ saving /\ mode[SideOf[i.cl]] = "limit" /\ ui.menu[SideOf[i.cl]] = i
         /\ ~saving => ui.seen = limit
         /\ \A s \in Side : Faithful(ui, s) \/ (saving /\ mode[s] = "governor")
         /\ StandsInv /\ MenusOf(ui) /\ ui \in UI
<1>1. Todo = {}
  BY NothingToDo
<1>2. \A i \in Item : \/ At(ui.seen, i) = At(limit, i)
                      \/ saving /\ mode[SideOf[i.cl]] = "limit" /\ ui.menu[SideOf[i.cl]] = i
  BY <1>1 DEF ConsoleInv, SeenInv
<1>3. ~saving => ui.seen = limit
  BY <1>2, AllSameLimits, FieldsOfUI DEF ConsoleInv, Types
<1>4. (\A s \in Side : Faithful(ui, s) \/ (saving /\ mode[s] = "governor")) /\ StandsInv
  BY DEF ConsoleInv, ShownInv
<1>5. MenusOf(ui) /\ ui \in UI
  BY DEF ConsoleInv, MenusInv, Types
<1> QED BY <1>1, <1>2, <1>3, <1>4, <1>5

\* What is said of the kernel and of the settings alone.
KernelSide == TablesInv /\ LimitsInv /\ GovernorsInv /\ NarrowInv

LEMMA KernelSideKept ==
  ASSUME KernelSide, UNCHANGED <<limit, governor, config, pending, torn>>
  PROVE  KernelSide'
BY DEF KernelSide, TablesInv, LimitsInv, GovernorsInv, NarrowInv, Todo

LEMMA IdleStep ==
  ASSUME ConsoleInv, pending = <<>>, UNCHANGED <<kernel, config, pending, torn>>,
         running' = TRUE, saving' = FALSE, ui' \in UI, mode' \in [Side -> Page], switchTag' \in Nat,
         \A s \in Side : mode'[s] # "main" => mode'[Other[s]] = "main",
         ui'.seen = limit, MenusOf(ui'), \A s \in Side : Faithful(ui', s),
         \A s \in Side : mode'[s] = "governor" => (ui'.dirty[s] <=> Limited(limit, s)),
         StandsInv'
  PROVE  ConsoleInv'
<1>1. KernelSide'
  BY KernelSideKept DEF ConsoleInv, KernelSide, kernel
<1>2. Todo' = {} /\ pending' = <<>>
  BY NothingToDo DEF Todo
<1>3. Types'
  BY DEF ConsoleInv, Types, kernel
<1>4. PageInv'
  BY <1>2 DEF PageInv
<1>5. SeenInv'
  BY <1>2 DEF SeenInv, kernel
<1>6. MenusInv'
  BY DEF MenusInv, MenusOf
<1>7. limit' = limit /\ governor' = governor
  BY DEF kernel
<1>8. \A s \in Side : Faithful(ui, s)'
  BY <1>7 DEF Faithful, Limited
<1>9. \A s \in Side : mode'[s] = "governor" => (ui'.dirty[s] <=> Limited(limit, s)')
  BY <1>7 DEF Limited
<1>10. ShownInv'
  BY <1>2, <1>8, <1>9 DEF ShownInv
<1> QED BY <1>1, <1>3, <1>4, <1>5, <1>6, <1>10 DEF ConsoleInv, KernelSide

LEMMA StartKeeps ==
  ASSUME ConsoleInv, Start PROVE ConsoleInv'
<1> DEFINE o == DrawAll(Off, Cluster, FirstItem["gpu"])
           u == Board(o)
           p == u.priority
           v == Highlight(u, p)
<1>1. ~running /\ running' = TRUE /\ ui' = v /\ mode' = Closed /\ switchTag' = 0
      /\ UNCHANGED <<kernel, config, saving, pending, torn>>
  BY DEF Start
<1>2. pending = <<>> /\ saving' = FALSE
  BY <1>1 DEF ConsoleInv, PageInv, Types
<1>3. Off \in UI /\ \A s \in Side : Off.menu[s] = NoItem
  BY UnlimitedIs, GovernorsAre DEF Off, UI, Side
<1>4. FirstItem["gpu"] \in Item
  BY Sides DEF Side
<1>5. limit \in [Cluster -> Limits] /\ governor \in [Cluster -> Governor]
  BY DEF ConsoleInv, Types
<1>6. o \in UI /\ o.seen = limit /\ \A s \in Side : o.menu[s] = NoItem
  BY <1>3, <1>4, <1>5, DrawAllIs, AllBoxes DEF SameSides
<1> HIDE DEF o
<1>7. MenusOf(o)
  BY <1>6 DEF MenusOf
<1>8. /\ u \in UI /\ u.seen = limit /\ MenusOf(u) /\ \A s \in Side : Faithful(u, s)
      /\ (\E s \in Side : IsManual(u, s)) => IsManual(u, p)
  BY <1>5, <1>6, <1>7, BoardIs
<1> HIDE DEF u
<1>9. p \in Side
  BY <1>8, FieldsOfUI
<1> HIDE DEF p
<1>10. /\ v \in UI /\ SameSides(u, v) /\ v.priority = p /\ v.seen = limit
       /\ v.currTag = IF u.menu[p] = NoItem THEN u.currTag ELSE At(limit, u.menu[p])
  BY <1>5, <1>8, <1>9, HighlightIs DEF p
<1> HIDE DEF v
<1>11. MenusOf(v) /\ \A s \in Side : Faithful(v, s) /\ (IsManual(v, s) <=> IsManual(u, s))
  BY <1>8, <1>10 DEF SameSides, MenusOf, Faithful, IsManual
<1>12. \A s \in Side : mode'[s] = "main"
  BY <1>1 DEF Closed
<1>13. limit' = limit
  BY <1>1 DEF kernel
<1>14. StandsInv'
  <2>1. ASSUME \E s \in Side : IsManual(v, s)
        PROVE  IsManual(v, v.priority) /\ v.currTag = At(limit, v.menu[v.priority])
    BY <2>1, <1>8, <1>9, <1>10, <1>11 DEF SameSides, Faithful, IsManual
  <2> QED BY <1>1, <1>12, <1>13, <2>1 DEF StandsInv, At, IsManual
<1>15. mode' \in [Side -> Page] /\ switchTag' \in Nat
  BY <1>1 DEF Closed, Page
<1> QED BY <1>1, <1>2, <1>10, <1>11, <1>12, <1>14, <1>15, IdleStep

\* What the actions on the main page may rely on.
LEMMA OnMainIs ==
  ASSUME ConsoleInv, OnMain
  PROVE  /\ running /\ ~saving /\ pending = <<>> /\ Todo = {} /\ ui.seen = limit
         /\ \A s \in Side : mode[s] = "main" /\ Faithful(ui, s)
         /\ (\E s \in Side : IsManual(ui, s)) =>
              IsManual(ui, ui.priority) /\ ui.currTag = At(limit, ui.menu[ui.priority])
<1>1. running /\ ~saving /\ mode = Closed
  BY DEF OnMain, Ready
<1>2. pending = <<>>
  BY <1>1 DEF ConsoleInv, PageInv
<1> QED BY <1>1, <1>2, Idle DEF Closed, StandsInv

LEMMA OpenGovernorKeeps ==
  ASSUME ConsoleInv, NEW s \in Side, OpenGovernor(s) PROVE ConsoleInv'
<1> DEFINE o == [ui EXCEPT !.priority = s]
           u == Board(o)
           v == DrawAll(u, Cluster, LastDrawn[s])
<1>1. OnMain /\ mode' = [mode EXCEPT ![s] = "governor"] /\ ui' = v /\ switchTag' = ui'.shown[s]
      /\ UNCHANGED <<kernel, config, running, saving, pending, torn>>
  BY DEF OpenGovernor
<1>2. /\ running /\ ~saving /\ pending = <<>> /\ ui.seen = limit /\ MenusOf(ui) /\ ui \in UI
      /\ \A t \in Side : mode[t] = "main" /\ Faithful(ui, t)
  BY <1>1, OnMainIs DEF ConsoleInv, MenusInv, Types
<1>3. limit \in [Cluster -> Limits] /\ governor \in [Cluster -> Governor] /\ mode \in [Side -> Page]
  BY DEF ConsoleInv, Types
<1>4. /\ o \in UI /\ o.seen = limit /\ o.menu = ui.menu /\ o.shown = ui.shown /\ o.priority = s
  BY <1>2 DEF UI
<1> HIDE DEF o
<1>5. MenusOf(o) /\ \A t \in Side : Faithful(o, t)
  BY <1>2, <1>4 DEF MenusOf, Faithful
<1>6. \A t \in Side : /\ o.menu[t] # NoItem => governor[Policy[t]] = "ondemand"
                      /\ governor[Policy[t]] = "ondemand" /\ o.menu[t] = NoItem => ~Limited(limit, t)
  BY <1>4, <1>5, GovernorsAre, FieldsOfUI DEF Faithful
<1>7. /\ u \in UI /\ u.seen = limit /\ MenusOf(u) /\ \A t \in Side : Faithful(u, t)
      /\ \A t \in Side : u.dirty[t] <=> Limited(limit, t)
      /\ u.priority = s
  BY <1>3, <1>4, <1>5, <1>6, BoardIs
<1> HIDE DEF u
<1>8. v \in UI /\ SameSides(u, v) /\ v.priority = s /\ v.seen = limit
  <2>1. LastDrawn[s] \in Item /\ Cluster \in SUBSET Cluster
    BY Sides
  <2> QED BY <2>1, <1>3, <1>7, DrawAllIs, AllBoxes
<1> HIDE DEF v
<1>9. MenusOf(v) /\ \A t \in Side : Faithful(v, t) /\ (v.dirty[t] <=> Limited(limit, t))
  BY <1>7, <1>8 DEF SameSides, MenusOf, Faithful
<1>10. mode' \in [Side -> Page] /\ mode'[s] = "governor" /\ \A t \in Side : t # s => mode'[t] = "main"
  BY <1>1, <1>2, <1>3 DEF Page
<1>11. switchTag' \in Choice
  BY <1>1, <1>8, FieldsOfUI
<1>12. StandsInv'
  BY <1>1, <1>8, <1>10, <1>11 DEF StandsInv, Closed
<1>13. /\ \A t \in Side : mode'[t] # "main" => mode'[Other[t]] = "main"
       /\ switchTag' \in Nat /\ running' = TRUE /\ saving' = FALSE
  BY <1>1, <1>2, <1>10, <1>11, Sides, GovernorsAre DEF ConsoleInv, Types
<1> QED BY <1>1, <1>2, <1>8, <1>9, <1>10, <1>12, <1>13, IdleStep

LEMMA OpenLimitsKeeps ==
  ASSUME ConsoleInv, OpenLimits PROVE ConsoleInv'
<1> DEFINE p == ui.priority
<1>1. /\ OnMain /\ \E s \in Side : IsManual(ui, s)
      /\ mode' = [mode EXCEPT ![p] = IF ui.menu[p] = NoItem THEN "governor" ELSE "limit"]
      /\ switchTag' = ui.currTag
      /\ UNCHANGED <<kernel, config, running, ui, saving, pending, torn>>
  BY DEF OpenLimits
<1>2. /\ running /\ ~saving /\ pending = <<>> /\ ui.seen = limit /\ MenusOf(ui) /\ ui \in UI
      /\ \A t \in Side : mode[t] = "main" /\ Faithful(ui, t)
      /\ IsManual(ui, p) /\ ui.currTag = At(limit, ui.menu[p])
  BY <1>1, OnMainIs DEF ConsoleInv, MenusInv, Types
<1>3. limit \in [Cluster -> Limits] /\ mode \in [Side -> Page] /\ InTable(limit) /\ p \in Side
  BY <1>2, FieldsOfUI DEF ConsoleInv, Types, TablesInv
<1>4. ui.menu[p] # NoItem /\ ui.menu[p] \in Item
  BY <1>2, <1>3 DEF Faithful, IsManual, MenusOf
<1>5. switchTag' \in 0..Last[ui.menu[p].cl]
  BY <1>1, <1>2, <1>3, <1>4, OrderOfItems
<1>6. mode' \in [Side -> Page] /\ mode'[p] = "limit" /\ \A t \in Side : t # p => mode'[t] = "main"
  BY <1>1, <1>2, <1>3, <1>4 DEF Page
<1>7. switchTag' \in Nat
  BY <1>1, <1>2, FieldsOfUI
<1>8. StandsInv'
  BY <1>1, <1>2, <1>3, <1>5, <1>6 DEF StandsInv, Closed, IsManual
<1>9. /\ \A t \in Side : mode'[t] # "main" => mode'[Other[t]] = "main"
      /\ \A t \in Side : mode'[t] # "governor"
  BY <1>3, <1>6, Sides
<1>10. ui' \in UI /\ ui'.seen = limit /\ MenusOf(ui') /\ (\A t \in Side : Faithful(ui', t))
       /\ running' = TRUE /\ saving' = FALSE /\ UNCHANGED <<kernel, config, pending, torn>>
  BY <1>1, <1>2 DEF ConsoleInv, Types
<1> QED BY <1>2, <1>6, <1>7, <1>8, <1>9, <1>10, IdleStep

LEMMA TurnKeeps ==
  ASSUME ConsoleInv, NEW s \in Side, Turn(s) PROVE ConsoleInv'
<1> DEFINE top == IF mode[s] = "governor" THEN Performance ELSE Last[ui.menu[s].cl]
<1>1. /\ running /\ ~saving /\ mode[s] # "main" /\ switchTag' \in Round(switchTag, top)
      /\ UNCHANGED <<kernel, config, running, ui, mode, saving, pending, torn>>
  BY DEF Turn, Ready
<1>2. pending = <<>>
  BY <1>1 DEF ConsoleInv, PageInv
<1>3. /\ ui.seen = limit /\ MenusOf(ui) /\ ui \in UI /\ StandsInv
      /\ \A t \in Side : Faithful(ui, t)
  BY <1>1, <1>2, Idle
<1>4. mode \in [Side -> Page] /\ \A t \in Side : mode[t] # "main" => mode[Other[t]] = "main"
  BY DEF ConsoleInv, Types, PageInv
<1>5. top \in Nat /\ switchTag \in 0..top
  <2>1. CASE mode[s] = "governor"
    BY <2>1, <1>3 DEF StandsInv, Choice, Performance
  <2>2. CASE mode[s] = "limit"
    <3>1. IsManual(ui, s) /\ switchTag \in 0..Last[ui.menu[s].cl] /\ ui.menu[s] \in Item
      BY <2>2, <1>3 DEF StandsInv, Faithful, MenusOf, IsManual
    <3> QED BY <2>2, <3>1, AtIsField, UnlimitedIs
  <2> QED BY <1>1, <1>4, <2>1, <2>2 DEF Page
<1>6. switchTag' \in 0..top
  BY <1>1, <1>5 DEF Round
<1>7. \A t \in Side : mode[t] # "main" => t = s
  BY <1>1, <1>4, Sides
<1>8. StandsInv'
  <2>1. mode # Closed
    BY <1>1 DEF Closed
  <2> QED BY <1>1, <1>3, <1>6, <1>7, <2>1 DEF StandsInv, Choice, Performance, IsManual
<1>9. \A t \in Side : mode'[t] = "governor" => (ui'.dirty[t] <=> Limited(limit, t))
  BY <1>1 DEF ConsoleInv, ShownInv
<1>10. ui' \in UI /\ ui'.seen = limit /\ MenusOf(ui') /\ (\A t \in Side : Faithful(ui', t))
       /\ running' = TRUE /\ saving' = FALSE /\ UNCHANGED <<kernel, config, pending, torn>>
       /\ mode' \in [Side -> Page] /\ \A t \in Side : mode'[t] # "main" => mode'[Other[t]] = "main"
  BY <1>1, <1>3, <1>4 DEF ConsoleInv, Types
<1>11. switchTag' \in Nat
  BY <1>5, <1>6
<1> QED BY <1>2, <1>8, <1>9, <1>10, <1>11, IdleStep

LEMMA MoveKeeps ==
  ASSUME ConsoleInv, NEW s \in Side, Move(s) PROVE ConsoleInv'
<1>1. /\ OnMain /\ IsManual(ui, s) /\ (BothManual => ui.priority = s) /\ ui.menu[s] # NoItem
      /\ UNCHANGED <<kernel, config, running, mode, switchTag, saving, pending, torn>>
  BY DEF Move
<1>2. /\ running /\ ~saving /\ pending = <<>> /\ ui.seen = limit /\ MenusOf(ui) /\ ui \in UI
      /\ \A t \in Side : mode[t] = "main" /\ Faithful(ui, t)
      /\ IsManual(ui, ui.priority) /\ ui.priority \in Side
  BY <1>1, OnMainIs, FieldsOfUI DEF ConsoleInv, MenusInv, Types
<1>3. limit \in [Cluster -> Limits] /\ mode \in [Side -> Page] /\ switchTag \in Nat
  BY DEF ConsoleInv, Types
<1>4. ui.menu[s] \in Item /\ SideOf[ui.menu[s].cl] = s
  BY <1>1, <1>2 DEF MenusOf
<1>5. ui.priority = s
  BY <1>1, <1>2, Sides DEF BothManual
<1>6. PICK i \in [cl : Vertical(ui.menu[s].cl), bound : {ui.menu[s].bound}]
                 \cup {[ui.menu[s] EXCEPT !.bound = Other[@]]} :
        ui' = LET t == SideOf[i.cl]
                  u == [Highlight(ui, s) EXCEPT !.menu[t] = i]
              IN Highlight(IF BothManual THEN [u EXCEPT !.priority = t] ELSE u, t)
  BY DEF Move
<1>7. i \in Item /\ (~BothManual => SideOf[i.cl] = s)
  <2>1. CASE i = [ui.menu[s] EXCEPT !.bound = Other[@]]
    <3>1. /\ ui.menu[s].cl \in Cluster /\ ui.menu[s].bound \in Bound
          /\ ui.menu[s] = [cl |-> ui.menu[s].cl, bound |-> ui.menu[s].bound]
      BY <1>4 DEF Item
    <3>2. i = [cl |-> ui.menu[s].cl, bound |-> Other[ui.menu[s].bound]]
      BY <2>1, <3>1
    <3> QED BY <1>4, <3>1, <3>2, Sides DEF Item
  <2>2. CASE i \in [cl : Vertical(ui.menu[s].cl), bound : {ui.menu[s].bound}]
    <3> DEFINE cl == ui.menu[s].cl
    <3>1. cl \in Cluster /\ ui.menu[s].bound \in Bound /\ SideOf[cl] = s
      BY <1>4 DEF Item
    <3>2. Vertical(cl) \subseteq Cluster
      BY <3>1, Sides DEF Vertical, Cluster
    <3>3. ~BothManual => \A x \in Vertical(cl) : SideOf[x] = s
      BY <3>1 DEF Vertical, SideOf
    <3> QED BY <2>2, <3>1, <3>2, <3>3 DEF Item
  <2> QED BY <1>6, <2>1, <2>2
<1> DEFINE t == SideOf[i.cl]
           h == Highlight(ui, s)
           u == [h EXCEPT !.menu[t] = i]
           w == IF BothManual THEN [u EXCEPT !.priority = t] ELSE u
           v == Highlight(w, t)
<1>8. t \in Side /\ ui' = v
  BY <1>6, <1>7, Sides, AtIsField, ItemOf DEF Item
<1>9. h \in UI /\ SameSides(ui, h) /\ h.priority = s /\ h.seen = limit
  BY <1>2, <1>3, <1>5, HighlightIs
<1> HIDE DEF h
<1>10. /\ u \in UI /\ u.shown = ui.shown /\ u.priority = s /\ u.seen = limit /\ u.menu[t] = i
       /\ \A r \in Side : r # t => u.menu[r] = ui.menu[r]
  <2> DEFINE m == [h.menu EXCEPT ![t] = i]
  <2>1. m \in [Side -> Item \cup {NoItem}] /\ m[t] = i /\ \A r \in Side : r # t => m[r] = ui.menu[r]
    BY <1>7, <1>8, <1>9, FieldsOfUI DEF SameSides
  <2>2. u = [h EXCEPT !.menu = m]
    OBVIOUS
  <2> HIDE DEF m
  <2> QED BY <1>9, <2>1, <2>2 DEF UI, SameSides
<1> HIDE DEF u, t
<1>11. w \in UI /\ w.shown = ui.shown /\ w.seen = limit /\ w.menu = u.menu /\ w.priority = t
  <2>1. CASE BothManual
    BY <1>8, <1>10, <2>1 DEF UI
  <2>2. CASE ~BothManual
    BY <1>7, <1>10, <2>2 DEF t
  <2> QED BY <2>1, <2>2
<1> HIDE DEF w
<1>12. i # NoItem
  BY <1>7, Sides
<1>13. IsManual(ui, t)
  BY <1>1, <1>7, <1>8 DEF BothManual, t
<1>14. MenusOf(w) /\ \A r \in Side : Faithful(w, r)
  <2>1. SideOf[i.cl] = t
    BY DEF t
  <2>2. MenusOf(w)
    BY <1>2, <1>7, <1>10, <1>11, <2>1 DEF MenusOf
  <2>3. \A r \in Side : Faithful(w, r)
    BY <1>2, <1>10, <1>11, <1>12, <1>13 DEF Faithful, IsManual
  <2> QED BY <2>2, <2>3
<1>15. v \in UI /\ SameSides(w, v) /\ v.priority = t /\ v.seen = limit /\ v.currTag = At(limit, i)
  BY <1>3, <1>8, <1>10, <1>11, <1>12, <1>14, HighlightIs
<1> HIDE DEF v
<1>16. /\ MenusOf(v) /\ \A r \in Side : Faithful(v, r)
       /\ v.menu[t] = i /\ IsManual(v, t)
  BY <1>10, <1>11, <1>13, <1>14, <1>15 DEF SameSides, MenusOf, Faithful, IsManual
<1>17. \A r \in Side : mode'[r] = "main"
  BY <1>1, <1>2
<1>18. StandsInv'
  BY <1>1, <1>8, <1>15, <1>16, <1>17 DEF StandsInv, IsManual, kernel
<1>19. running' = TRUE /\ saving' = FALSE
  BY <1>1, <1>2 DEF ConsoleInv, Types
<1> QED BY <1>1, <1>2, <1>3, <1>8, <1>15, <1>16, <1>17, <1>18, <1>19, IdleStep

LEMMA LeaveKeeps ==
  ASSUME ConsoleInv, NEW s \in Side, Leave(s) PROVE ConsoleInv'
<1>1. /\ running /\ pending = <<>>
      /\ LeaveGovernor(s) \/ LeaveLimit(s)
      /\ mode' = [mode EXCEPT ![s] = "main"] /\ saving' = FALSE
      /\ UNCHANGED <<kernel, config, running, switchTag, pending, torn>>
  BY DEF Leave
<1>2. mode[s] \in {"governor", "limit"}
  BY <1>1 DEF LeaveGovernor, LeaveLimit
<1>3. /\ MenusOf(ui) /\ ui \in UI /\ StandsInv /\ ui.priority = s
      /\ \A t \in Side : Faithful(ui, t) \/ (saving /\ mode[t] = "governor")
      /\ \A i \in Item : \/ At(ui.seen, i) = At(limit, i)
                         \/ saving /\ mode[SideOf[i.cl]] = "limit" /\ ui.menu[SideOf[i.cl]] = i
  <2>1. StandsInv
    BY <1>1, Idle
  <2>2. ui.priority = s
    BY <1>2, <2>1 DEF StandsInv
  <2> QED BY <1>1, <2>1, <2>2, Idle
<1>4. /\ limit \in [Cluster -> Limits] /\ governor \in [Cluster -> Governor]
      /\ mode \in [Side -> Page] /\ switchTag \in Nat
      /\ \A t \in Side : mode[t] # "main" => mode[Other[t]] = "main"
  BY DEF ConsoleInv, Types, PageInv
<1>5. /\ \A t \in Side : mode'[t] = "main"
      /\ mode' \in [Side -> Page] /\ switchTag' \in Nat
  BY <1>1, <1>2, <1>4, Sides DEF Page
<1>6. /\ ui' \in UI /\ ui'.seen = limit /\ MenusOf(ui') /\ \A t \in Side : Faithful(ui', t)
      /\ (\E t \in Side : IsManual(ui', t)) =>
           IsManual(ui', ui'.priority) /\ ui'.currTag = At(limit, ui'.menu[ui'.priority])
  <2>1. CASE LeaveLimit(s)
    <3>1. mode[s] = "limit" /\ ui' = Highlight(ui, s)
      BY <2>1 DEF LeaveLimit
    <3>2. /\ \A t \in Side : Faithful(ui, t)
          /\ IsManual(ui, s) /\ ui.menu[s] # NoItem
      BY <1>3, <1>4, <3>1, Sides DEF StandsInv, Faithful, IsManual
    <3>3. \A i \in Item : At(ui.seen, i) = At(limit, i) \/ i = ui.menu[s]
      BY <1>3, <1>4, <3>1, Sides, AtIsField
    <3>4. /\ ui' \in UI /\ SameSides(ui, ui') /\ ui'.priority = s /\ ui'.seen = limit
          /\ ui'.currTag = At(limit, ui.menu[s])
      BY <1>3, <1>4, <3>1, <3>2, <3>3, HighlightIs
    <3> QED BY <1>3, <3>2, <3>4 DEF SameSides, MenusOf, Faithful, IsManual
  <2>2. CASE LeaveGovernor(s)
    <3> DEFINE u == Board(ui)
               w == Highlight(u, s)
    <3>1. mode[s] = "governor" /\ ui' = HandBack(w, s)
      BY <2>2 DEF LeaveGovernor
    <3>2. ui.seen = limit
      <4>1. \A i \in Item : At(ui.seen, i) = At(limit, i)
        BY <1>3, <1>4, <3>1, Sides, AtIsField
      <4> QED BY <1>3, <1>4, <4>1, AllSameLimits, FieldsOfUI
    <3>3. \A t \in Side : t # s => Faithful(ui, t)
      BY <1>3, <1>4, <3>1, Sides
    <3>4. ui.menu[s] # NoItem => governor[Policy[s]] = "ondemand"
      <4>1. CASE saving
        <5>1. Todo = {}
          BY <1>1, NothingToDo
        <5> QED BY <1>1, <3>1, <4>1, <5>1 DEF ConsoleInv, ShownInv
      <4>2. CASE ~saving
        BY <1>3, <4>2, GovernorsAre DEF Faithful
      <4> QED BY <4>1, <4>2
    <3>5. \A t \in Side : ui.menu[t] # NoItem => governor[Policy[t]] = "ondemand"
      BY <3>3, <3>4, GovernorsAre DEF Faithful
    <3>6. \A t \in Side : t # ui.priority /\ governor[Policy[t]] = "ondemand" /\ ui.menu[t] = NoItem
                          => ~Limited(limit, t)
      <4> SUFFICES ASSUME NEW t \in Side, t # s, governor[Policy[t]] = "ondemand", ui.menu[t] = NoItem
                   PROVE  ~Limited(limit, t)
        BY <1>3
      <4>1. ui.shown[t] \in Choice /\ Faithful(ui, t)
        BY <1>3, <3>3, FieldsOfUI
      <4>2. ui.shown[t] = Automatic
        BY <4>1, GovernorsAre DEF Faithful
      <4> QED BY <4>1, <4>2 DEF Faithful
    <3>7. /\ u \in UI /\ u.seen = limit /\ MenusOf(u) /\ \A t \in Side : Faithful(u, t)
          /\ u.priority = s
      BY <1>3, <1>4, <3>2, <3>5, <3>6, BoardIs
    <3> HIDE DEF u
    <3>8. /\ w \in UI /\ SameSides(u, w) /\ w.priority = s /\ w.seen = limit
          /\ w.currTag = IF u.menu[s] = NoItem THEN u.currTag ELSE At(limit, u.menu[s])
      BY <1>4, <3>7, HighlightIs
    <3> HIDE DEF w
    <3>9. MenusOf(w) /\ (\A t \in Side : Faithful(w, t)) /\ w.menu = u.menu
      BY <3>7, <3>8 DEF SameSides, MenusOf, Faithful
    <3>10. CASE IsManual(w, s) \/ ~IsManual(w, Other[s])
      <4>1. ui' = w
        BY <3>1, <3>10 DEF HandBack
      <4>2. ASSUME NEW t \in Side, IsManual(w, t) PROVE IsManual(w, s)
        BY <3>10, <4>2, Sides
      <4>3. IsManual(w, s) => w.currTag = At(limit, w.menu[s])
        BY <3>8, <3>9 DEF Faithful, IsManual
      <4> QED BY <3>8, <3>9, <4>1, <4>2, <4>3
    <3>11. CASE ~IsManual(w, s) /\ IsManual(w, Other[s])
      <4> DEFINE o == Other[s]
                 x == [w EXCEPT !.priority = o]
                 y == Highlight(x, o)
      <4>1. ui' = y /\ o \in Side
        BY <3>1, <3>11, Sides DEF HandBack
      <4>2. x \in UI /\ SameSides(w, x) /\ x.priority = o /\ x.seen = limit
        BY <3>8, <4>1 DEF UI, SameSides
      <4> HIDE DEF x
      <4>3. MenusOf(x) /\ \A t \in Side : Faithful(x, t)
        BY <3>9, <4>2 DEF SameSides, MenusOf, Faithful
      <4>4. IsManual(x, o) /\ x.menu[o] # NoItem
        BY <3>11, <4>1, <4>2, <4>3 DEF SameSides, Faithful, IsManual
      <4>5. /\ y \in UI /\ SameSides(x, y) /\ y.priority = o /\ y.seen = limit
            /\ y.currTag = At(limit, x.menu[o])
        BY <1>4, <4>1, <4>2, <4>3, <4>4, HighlightIs
      <4> HIDE DEF y, o
      <4>6. MenusOf(y) /\ (\A t \in Side : Faithful(y, t)) /\ IsManual(y, o) /\ y.menu = x.menu
        BY <4>3, <4>4, <4>5 DEF SameSides, MenusOf, Faithful, IsManual
      <4> QED BY <4>1, <4>5, <4>6
    <3> QED BY <3>10, <3>11
  <2> QED BY <1>1, <2>1, <2>2
<1>7. StandsInv'
  BY <1>1, <1>5, <1>6 DEF StandsInv, IsManual, kernel
<1>8. running' = TRUE
  BY <1>1 DEF ConsoleInv, Types
<1> QED BY <1>1, <1>5, <1>6, <1>7, <1>8, IdleStep

-----------------------------------------------------------------------------
(* Ctrl+C, the loss of power and the first boot.                           *)

\* With nothing left to write the kernel and the settings are one.
Settled ==
  /\ limit = config.limit
  /\ \A cl \in Cluster : governor[cl] = config.governor[SideOf[cl]]
  /\ \A cl \in Cluster : governor[cl] # "ondemand" => limit[cl] = Unlimited[cl]

LEMMA SettledIs ==
  ASSUME ConsoleInv, pending = <<>>, ~torn
  PROVE  Settled
<1>1. Todo = {}
  BY NothingToDo
<1>2. \A i \in Item : At(limit, i) = At(config.limit, i)
  BY <1>1 DEF ConsoleInv, LimitsInv
<1>3. limit \in [Cluster -> Limits] /\ config.limit \in [Cluster -> Limits]
  BY DEF ConsoleInv, Types
<1>4. \A cl \in Cluster : governor[cl] = config.governor[SideOf[cl]]
  BY <1>1 DEF ConsoleInv, GovernorsInv
<1> QED BY <1>2, <1>3, <1>4, AllSameLimits DEF ConsoleInv, NarrowInv, Settled

LEMMA SettledKernelSide ==
  ASSUME Types, pending = <<>>, InTable(limit), InTable(config.limit), Ordered(limit),
         ~torn => Settled
  PROVE  KernelSide
<1>1. Todo = {}
  BY NothingToDo
<1>2. TablesInv
  BY <1>1 DEF TablesInv, Settled
<1>3. LimitsInv
  BY <1>1 DEF LimitsInv, Settled
<1>4. GovernorsInv
  BY <1>1 DEF GovernorsInv, Settled
<1>5. NarrowInv
  <2>1. ~torn => \A cl \in Cluster : config.governor[SideOf[cl]] # "ondemand" =>
                                       config.limit[cl] = Unlimited[cl]
    BY DEF Settled
  <2> QED BY <1>1, <2>1 DEF NarrowInv, Settled
<1> QED BY <1>2, <1>3, <1>4, <1>5 DEF KernelSide

Down == /\ Types /\ InTable(limit) /\ InTable(config.limit) /\ Ordered(limit)
        /\ ~torn => Settled
        /\ pending = <<>> /\ ~running /\ ~saving /\ ui = Off /\ mode = Closed

LEMMA DownIsSound ==
  Down => ConsoleInv
<1> SUFFICES ASSUME Down PROVE ConsoleInv
  OBVIOUS
<1> USE DEF Down
<1>1. Todo = {}
  BY NothingToDo
<1>2. PageInv
  BY <1>1, ClosedIs DEF PageInv
<1>3. SeenInv /\ ShownInv
  BY DEF SeenInv, ShownInv
<1>4. MenusInv
  BY DEF MenusInv, MenusOf, Off
<1> QED BY <1>2, <1>3, <1>4, SettledKernelSide DEF ConsoleInv, KernelSide

LEMMA OffIs ==
  Off \in UI /\ Closed \in [Side -> Page] /\ 0 \in Nat /\ <<>> \in Seq(Command) /\ FALSE \in BOOLEAN
BY UnlimitedIs, GovernorsAre DEF Off, UI, Side, Closed, Page

LEMMA UnlimitedFits == InTable(Unlimited) /\ Ordered(Unlimited)
BY UnlimitedIs DEF InTable, Ordered

LEMMA InitConsoleInv ==
  Init => ConsoleInv
<1> SUFFICES ASSUME Init PROVE ConsoleInv
  OBVIOUS
<1>1. Types
  <2>1. governor \in [Cluster -> Governor] /\ thermal \in [Side -> BOOLEAN]
    BY DEF Init, Governor
  <2>2. config.limit = Unlimited /\ config.governor \in [Side -> Governor]
        /\ config = [limit |-> config.limit, governor |-> config.governor]
    BY DEF Init, Governor
  <2>3. config \in [limit : [Cluster -> Limits], governor : [Side -> Governor]]
    BY <2>2, UnlimitedIs
  <2>4. running \in BOOLEAN /\ saving \in BOOLEAN /\ torn \in BOOLEAN
    BY DEF Init
  <2> QED BY <2>1, <2>3, <2>4, OffIs, UnlimitedIs DEF Init, Types
<1>2. limit = Unlimited /\ config.limit = Unlimited
  BY DEF Init
<1>3. Settled
  BY Sides DEF Init, Settled
<1> QED BY <1>1, <1>2, <1>3, UnlimitedFits, DownIsSound DEF Init, Down

LEMMA InterruptKeeps ==
  ASSUME ConsoleInv, Interrupt PROVE ConsoleInv'
<1>1. /\ UNCHANGED <<limit, governor, thermal, config>> /\ torn' = (torn \/ pending # <<>>)
      /\ running' = FALSE /\ ui' = Off /\ mode' = Closed /\ switchTag' = 0
      /\ saving' = FALSE /\ pending' = <<>>
  BY DEF Interrupt, Stopped, kernel
<1>2. ~torn' => ~torn /\ pending = <<>>
  BY <1>1
<1>3. ~torn' => Settled'
  BY <1>1, <1>2, SettledIs DEF Settled
<1>4. Types'
  <2>1. limit' \in [Cluster -> Limits] /\ governor' \in [Cluster -> Governor]
        /\ thermal' \in [Side -> BOOLEAN]
        /\ config' \in [limit : [Cluster -> Limits], governor : [Side -> Governor]]
    BY <1>1 DEF ConsoleInv, Types
  <2>2. running' \in BOOLEAN /\ saving' \in BOOLEAN /\ torn' \in BOOLEAN
    BY <1>1
  <2> QED BY <1>1, <2>1, <2>2, OffIs DEF Types
<1>5. InTable(limit') /\ InTable(config'.limit) /\ Ordered(limit')
  BY <1>1 DEF ConsoleInv, TablesInv
<1>6. Down'
  BY <1>1, <1>3, <1>4, <1>5 DEF Down, InTable, Ordered
<1>7. (Down => ConsoleInv)'
  BY DownIsSound, PTL
<1> QED BY <1>6, <1>7

LEMMA BootKeeps ==
  ASSUME ConsoleInv, Boot PROVE ConsoleInv'
<1>1. /\ limit' = [cl \in Cluster |-> Restored(cl)]
      /\ governor' = [cl \in Cluster |-> IF SideOf[cl] = "cpu" \/ Reached(cl)
                                          THEN config.governor[SideOf[cl]] ELSE "ondemand"]
      /\ thermal' = [s \in Side |-> TRUE] /\ config' = config /\ torn' = torn
      /\ running' = FALSE /\ ui' = Off /\ mode' = Closed /\ switchTag' = 0
      /\ saving' = FALSE /\ pending' = <<>>
  BY DEF Boot, Stopped
<1> DEFINE l == config.limit
<1>2. l \in [Cluster -> Limits] /\ InTable(l) /\ (~torn => Ordered(l))
      /\ config.governor \in [Side -> Governor]
  BY DEF ConsoleInv, Types, TablesInv
<1>3. ASSUME NEW cl \in Cluster
      PROVE  /\ Restored(cl) \in Limits
             /\ Restored(cl).min \in 0..Last[cl] /\ Restored(cl).max \in 0..Last[cl]
             /\ Restored(cl).min <= Restored(cl).max
             /\ ~torn => Restored(cl) = l[cl] /\ Reached(cl)
  <2>1. CASE ~Reached(cl)
    <3>1. torn
      BY <1>2, <2>1 DEF Reached, Refused, Ordered, Cluster, Limits
    <3> QED BY <2>1, <3>1, UnlimitedIs, UnlimitedFits DEF Restored, InTable, Ordered
  <2>2. CASE Reached(cl) /\ Refused(cl)
    <3>1. torn
      BY <1>2, <2>2 DEF Refused, Ordered, Limits
    <3>2. Restored(cl) = [l[cl] EXCEPT !.max = Last[cl]]
      BY <2>2 DEF Restored
    <3>3. l[cl] \in Limits /\ l[cl].min \in 0..Last[cl] /\ Last[cl] \in Nat
      BY <1>2, UnlimitedIs DEF InTable
    <3>4. /\ Restored(cl) \in Limits /\ Restored(cl).min = l[cl].min /\ Restored(cl).max = Last[cl]
      BY <3>2, <3>3 DEF Limits
    <3> QED BY <3>1, <3>3, <3>4
  <2>3. CASE Reached(cl) /\ ~Refused(cl)
    <3>1. Restored(cl) = [l[cl] EXCEPT !.max = l[cl].max] /\ l[cl] \in Limits
      BY <1>2, <2>3 DEF Restored
    <3>2. Restored(cl) = l[cl]
      BY <3>1 DEF Limits
    <3> QED BY <1>2, <2>3, <3>1, <3>2 DEF InTable, Refused, Limits
  <2> QED BY <2>1, <2>2, <2>3
<1>4. limit' \in [Cluster -> Limits] /\ InTable(limit') /\ Ordered(limit')
  BY <1>1, <1>3 DEF InTable, Ordered
<1>5. governor' \in [Cluster -> Governor]
  <2>1. "ondemand" \in Governor
    BY DEF Governor
  <2> QED BY <1>1, <1>2, <2>1, Sides
<1>6. ~torn' => Settled'
  <2> SUFFICES ASSUME ~torn PROVE Settled'
    BY <1>1
  <2>1. \A cl \in Cluster : limit'[cl] = l[cl] /\ governor'[cl] = config.governor[SideOf[cl]]
    BY <1>1, <1>3
  <2>2. limit' = config'.limit
    BY <1>1, <1>2, <1>4, <2>1
  <2>3. \A cl \in Cluster : config.governor[SideOf[cl]] # "ondemand" => l[cl] = Unlimited[cl]
    BY DEF ConsoleInv, NarrowInv
  <2> QED BY <1>1, <2>1, <2>2, <2>3 DEF Settled
<1>7. Types'
  <2>1. config' \in [limit : [Cluster -> Limits], governor : [Side -> Governor]] /\ torn' \in BOOLEAN
    BY <1>1 DEF ConsoleInv, Types
  <2>2. thermal' \in [Side -> BOOLEAN] /\ running' \in BOOLEAN /\ saving' \in BOOLEAN
    BY <1>1
  <2> QED BY <1>1, <1>4, <1>5, <2>1, <2>2, OffIs DEF Types
<1>8. Down'
  BY <1>1, <1>2, <1>4, <1>6, <1>7 DEF Down, InTable, Ordered
<1>9. (Down => ConsoleInv)'
  BY DownIsSound, PTL
<1> QED BY <1>8, <1>9

-----------------------------------------------------------------------------
(* The commands that a save starts with.                                   *)

LEMMA Joined ==
  ASSUME NEW p \in Seq(Command), NEW q \in Seq(Command), NEW r, r = p \o q
  PROVE  /\ r \in Seq(Command) /\ Len(r) = Len(p) + Len(q)
         /\ \A j \in 1..Len(p) : r[j] = p[j]
         /\ \A j \in 1..Len(q) : r[Len(p) + j] = q[j]
         /\ \A k \in 1..Len(r) : \/ k \in 1..Len(p) /\ r[k] = p[k]
                                 \/ k - Len(p) \in 1..Len(q) /\ r[k] = q[k - Len(p)]
OBVIOUS

LEMMA Positions ==
  ASSUME NEW q \in Seq(Command)
  PROVE  DOMAIN q = 1..Len(q) /\ Len(q) \in Nat /\ \A j \in DOMAIN q : q[j] \in Command
OBVIOUS

LimitWrite(to, i, v) == [to |-> to, what |-> "limit", of |-> i, value |-> v]

LEMMA LimitWriteIs ==
  ASSUME NEW i \in Item, NEW v \in Nat, NEW to \in {"kernel", "config"}, NEW w, w = LimitWrite(to, i, v)
  PROVE  /\ w \in Command /\ w.of = i /\ w.value = v /\ About(w) = SideOf[i.cl]
         /\ KernelLimit(w) <=> to = "kernel"
         /\ ConfigLimit(w) <=> to = "config"
         /\ ~KernelGovernor(w) /\ ~ConfigGovernor(w) /\ ~Redraw(w)
         /\ Ends(w) <=> v = At(Unlimited, i)
BY DEF LimitWrite, Command, LimitCommand, KernelLimit, ConfigLimit, KernelGovernor, ConfigGovernor,
       Redraw, AnyLimit, About, Ends

LEMMA SetLimitIs ==
  ASSUME NEW i \in Item, NEW v \in Nat
  PROVE  LET q == SetLimit(i, v)
         IN /\ q \in Seq(Command) /\ Len(q) = 2
            /\ q[1] = LimitWrite("kernel", i, v) /\ q[2] = LimitWrite("config", i, v)
<1>1. LimitWrite("kernel", i, v) \in Command /\ LimitWrite("config", i, v) \in Command
  BY LimitWriteIs
<1>2. SetLimit(i, v) = <<LimitWrite("kernel", i, v), LimitWrite("config", i, v)>>
  BY DEF SetLimit, LimitWrite
<1> QED BY <1>1, <1>2

\* A reset writes both ends of every table of its side, each to the kernel and then
\* to the settings, and draws the boxes at last.
Resets(q, cls) ==
  /\ \A j \in DOMAIN q :
       /\ AnyLimit(q[j]) /\ Ends(q[j]) /\ q[j].of.cl \in cls /\ q[j].of \in Item
       /\ KernelLimit(q[j]) => j + 1 \in DOMAIN q /\ ConfigLimit(q[j + 1]) /\ q[j + 1].of = q[j].of
       /\ ConfigLimit(q[j]) => j - 1 \in DOMAIN q /\ KernelLimit(q[j - 1]) /\ q[j - 1].of = q[j].of
  /\ \A i \in Item : i.cl \in cls =>
       /\ \E j \in DOMAIN q : KernelLimit(q[j]) /\ q[j].of = i
       /\ \E j \in DOMAIN q : ConfigLimit(q[j]) /\ q[j].of = i

LEMMA ResetClusterIs ==
  ASSUME NEW cl \in Cluster
  PROVE  ResetCluster(cl) \in Seq(Command) /\ Resets(ResetCluster(cl), {cl})
<1> DEFINE lo == [cl |-> cl, bound |-> "min"]
           hi == [cl |-> cl, bound |-> "max"]
           p == SetLimit(lo, 0)
           q == SetLimit(hi, Last[cl])
           r == ResetCluster(cl)
<1>1. /\ lo \in Item /\ hi \in Item /\ 0 \in Nat /\ Last[cl] \in Nat /\ lo.cl = cl /\ hi.cl = cl
      /\ At(Unlimited, lo) = 0 /\ At(Unlimited, hi) = Last[cl]
      /\ \A i \in Item : i.cl = cl => i = lo \/ i = hi
  BY ItemOf, UnlimitedIs, AtIsField
<1>2. r = p \o q
  BY DEF ResetCluster
<1> HIDE DEF r, lo, hi
<1>3. /\ p \in Seq(Command) /\ Len(p) = 2
      /\ p[1] = LimitWrite("kernel", lo, 0) /\ p[2] = LimitWrite("config", lo, 0)
  BY <1>1, SetLimitIs
<1>4. /\ q \in Seq(Command) /\ Len(q) = 2
      /\ q[1] = LimitWrite("kernel", hi, Last[cl]) /\ q[2] = LimitWrite("config", hi, Last[cl])
  BY <1>1, SetLimitIs
<1> HIDE DEF p, q
<1>5. /\ r \in Seq(Command) /\ DOMAIN r = 1..4
      /\ r[1] = LimitWrite("kernel", lo, 0) /\ r[2] = LimitWrite("config", lo, 0)
      /\ r[3] = LimitWrite("kernel", hi, Last[cl]) /\ r[4] = LimitWrite("config", hi, Last[cl])
  <2>1. /\ r \in Seq(Command) /\ Len(r) = Len(p) + Len(q)
        /\ \A j \in 1..Len(p) : r[j] = p[j]
        /\ \A j \in 1..Len(q) : r[Len(p) + j] = q[j]
    <3>1. p \in Seq(Command) /\ q \in Seq(Command)
      BY <1>3, <1>4
    <3> QED BY <1>2, <3>1, Joined
  <2>2. Len(r) = 4 /\ r[1] = p[1] /\ r[2] = p[2] /\ r[2 + 1] = q[1] /\ r[2 + 2] = q[2]
    BY <1>3, <1>4, <2>1
  <2> QED BY <1>3, <1>4, <2>1, <2>2
<1>6. /\ KernelLimit(r[1]) /\ ~ConfigLimit(r[1]) /\ r[1].of = lo /\ Ends(r[1])
      /\ ConfigLimit(r[2]) /\ ~KernelLimit(r[2]) /\ r[2].of = lo /\ Ends(r[2])
      /\ KernelLimit(r[3]) /\ ~ConfigLimit(r[3]) /\ r[3].of = hi /\ Ends(r[3])
      /\ ConfigLimit(r[4]) /\ ~KernelLimit(r[4]) /\ r[4].of = hi /\ Ends(r[4])
  BY <1>1, <1>5, LimitWriteIs
<1>7. \A j \in 1..4 : j = 1 \/ j = 2 \/ j = 3 \/ j = 4
  OBVIOUS
<1>8. \A j \in DOMAIN r :
        /\ AnyLimit(r[j]) /\ Ends(r[j]) /\ r[j].of.cl \in {cl} /\ r[j].of \in Item
        /\ KernelLimit(r[j]) => j + 1 \in DOMAIN r /\ ConfigLimit(r[j + 1]) /\ r[j + 1].of = r[j].of
        /\ ConfigLimit(r[j]) => j - 1 \in DOMAIN r /\ KernelLimit(r[j - 1]) /\ r[j - 1].of = r[j].of
  BY <1>1, <1>5, <1>6, <1>7 DEF AnyLimit
<1>9. \A i \in Item : i.cl \in {cl} =>
        /\ \E j \in DOMAIN r : KernelLimit(r[j]) /\ r[j].of = i
        /\ \E j \in DOMAIN r : ConfigLimit(r[j]) /\ r[j].of = i
  BY <1>1, <1>5, <1>6
<1> QED BY <1>5, <1>8, <1>9 DEF Resets, r

LEMMA ResetsJoined ==
  ASSUME NEW p \in Seq(Command), NEW q \in Seq(Command), NEW A, NEW B, Resets(p, A), Resets(q, B),
         NEW r, r = p \o q
  PROVE  r \in Seq(Command) /\ Resets(r, A \cup B)
<1>1. /\ r \in Seq(Command) /\ Len(r) = Len(p) + Len(q)
      /\ \A j \in 1..Len(p) : r[j] = p[j]
      /\ \A j \in 1..Len(q) : r[Len(p) + j] = q[j]
      /\ \A k \in 1..Len(r) : \/ k \in 1..Len(p) /\ r[k] = p[k]
                              \/ k - Len(p) \in 1..Len(q) /\ r[k] = q[k - Len(p)]
  BY Joined
<1> PICK m \in Nat : m = Len(p)
  OBVIOUS
<1> PICK n \in Nat : n = Len(q)
  OBVIOUS
<1>2. DOMAIN p = 1..m /\ DOMAIN q = 1..n /\ DOMAIN r = 1..(m + n)
  BY <1>1, Positions
<1>3. /\ \A j \in 1..m : r[j] = p[j] /\ j \in 1..(m + n)
      /\ \A j \in 1..n : r[m + j] = q[j] /\ m + j \in 1..(m + n)
  BY <1>1, <1>2
<1>4. ASSUME NEW k \in DOMAIN r
      PROVE  /\ AnyLimit(r[k]) /\ Ends(r[k]) /\ r[k].of.cl \in A \cup B /\ r[k].of \in Item
             /\ KernelLimit(r[k]) => k + 1 \in DOMAIN r /\ ConfigLimit(r[k + 1]) /\ r[k + 1].of = r[k].of
             /\ ConfigLimit(r[k]) => k - 1 \in DOMAIN r /\ KernelLimit(r[k - 1]) /\ r[k - 1].of = r[k].of
  <2>1. CASE k \in 1..m
    <3>1. /\ r[k] = p[k] /\ (k + 1 \in 1..m => r[k + 1] = p[k + 1] /\ k + 1 \in 1..(m + n))
          /\ (k - 1 \in 1..m => r[k - 1] = p[k - 1] /\ k - 1 \in 1..(m + n))
      BY <1>3, <2>1
    <3> QED BY <1>2, <2>1, <3>1 DEF Resets
  <2>2. CASE k \notin 1..m
    <3> DEFINE j == k - m
    <3>1. j \in 1..n /\ k = m + j
      BY <1>2, <2>2
    <3> HIDE DEF j
    <3>2. /\ r[k] = q[j]
          /\ j + 1 \in 1..n => r[m + (j + 1)] = q[j + 1] /\ m + (j + 1) \in 1..(m + n) /\ k + 1 = m + (j + 1)
          /\ j - 1 \in 1..n => r[m + (j - 1)] = q[j - 1] /\ m + (j - 1) \in 1..(m + n) /\ k - 1 = m + (j - 1)
      <4>1. k + 1 = m + (j + 1) /\ k - 1 = m + (j - 1)
        BY <3>1
      <4>2. \A h \in 1..n : r[m + h] = q[h] /\ m + h \in 1..(m + n)
        BY <1>3
      <4>3. j + 1 \in 1..n => r[m + (j + 1)] = q[j + 1] /\ m + (j + 1) \in 1..(m + n)
        BY <4>2
      <4>4. j - 1 \in 1..n => r[m + (j - 1)] = q[j - 1] /\ m + (j - 1) \in 1..(m + n)
        BY <4>2
      <4> QED BY <3>1, <4>1, <4>2, <4>3, <4>4
    <3>3. /\ AnyLimit(q[j]) /\ Ends(q[j]) /\ q[j].of.cl \in B /\ q[j].of \in Item
          /\ KernelLimit(q[j]) => j + 1 \in 1..n /\ ConfigLimit(q[j + 1]) /\ q[j + 1].of = q[j].of
          /\ ConfigLimit(q[j]) => j - 1 \in 1..n /\ KernelLimit(q[j - 1]) /\ q[j - 1].of = q[j].of
      BY <1>2, <3>1 DEF Resets
    <3> QED BY <1>2, <3>2, <3>3
  <2> QED BY <2>1, <2>2
<1>5. ASSUME NEW i \in Item, i.cl \in A \cup B
      PROVE  /\ \E j \in DOMAIN r : KernelLimit(r[j]) /\ r[j].of = i
             /\ \E j \in DOMAIN r : ConfigLimit(r[j]) /\ r[j].of = i
  <2>1. CASE i.cl \in A
    BY <1>2, <1>3, <2>1 DEF Resets
  <2>2. CASE i.cl \in B
    <3>1. PICK j \in 1..n : KernelLimit(q[j]) /\ q[j].of = i
      BY <1>2, <2>2 DEF Resets
    <3>2. PICK k \in 1..n : ConfigLimit(q[k]) /\ q[k].of = i
      BY <1>2, <2>2 DEF Resets
    <3>3. m + j \in DOMAIN r /\ r[m + j] = q[j] /\ m + k \in DOMAIN r /\ r[m + k] = q[k]
      BY <1>2, <1>3
    <3> QED BY <3>1, <3>2, <3>3
  <2> QED BY <1>5, <2>1, <2>2
<1> QED BY <1>1, <1>4, <1>5 DEF Resets

ClustersIn(s) == {cl \in Cluster : SideOf[cl] = s}

LEMMA ResetIs ==
  ASSUME NEW s \in Side
  PROVE  \E p \in Seq(Command), w \in Command :
           /\ Reset(s) = p \o <<w>> /\ Resets(p, ClustersIn(s))
           /\ Redraw(w) /\ w.of = s /\ ~AnyLimit(w) /\ ~AnyGovernor(w) /\ About(w) = s
<1> DEFINE w == [to |-> "console", what |-> "limit", of |-> s, value |-> 0]
           p == IF s = "cpu" THEN ResetCluster("a53") \o ResetCluster("a72") ELSE ResetCluster("t86x")
<1>1. Reset(s) = p \o <<w>>
  BY DEF Reset
<1>2. /\ w \in Command /\ Redraw(w) /\ w.of = s /\ ~AnyLimit(w) /\ ~AnyGovernor(w) /\ About(w) = s
  BY DEF Command, RedrawCommand, Redraw, AnyLimit, AnyGovernor, About, KernelLimit, ConfigLimit,
         KernelGovernor, ConfigGovernor
<1>3. p \in Seq(Command) /\ Resets(p, ClustersIn(s))
  <2>1. "a53" \in Cluster /\ "a72" \in Cluster /\ "t86x" \in Cluster
    BY DEF Cluster
  <2>2. CASE s = "cpu"
    <3>1. ClustersIn(s) = {"a53"} \cup {"a72"}
      BY <2>2 DEF ClustersIn, Cluster, SideOf
    <3>2. /\ ResetCluster("a53") \in Seq(Command) /\ Resets(ResetCluster("a53"), {"a53"})
          /\ ResetCluster("a72") \in Seq(Command) /\ Resets(ResetCluster("a72"), {"a72"})
      BY <2>1, ResetClusterIs
    <3>3. p = ResetCluster("a53") \o ResetCluster("a72")
      BY <2>2
    <3> HIDE DEF p
    <3>4. p \in Seq(Command) /\ Resets(p, {"a53"} \cup {"a72"})
      BY <3>2, <3>3, ResetsJoined
    <3> QED BY <3>1, <3>4
  <2>3. CASE s = "gpu"
    <3>1. ClustersIn(s) = {"t86x"}
      BY <2>3 DEF ClustersIn, Cluster, SideOf
    <3> QED BY <2>1, <2>3, <3>1, ResetClusterIs
  <2> QED BY <2>2, <2>3 DEF Side
<1> HIDE DEF w, p
<1> QED BY <1>1, <1>2, <1>3

\* The governor is written to every policy of the side and then to the settings.
Governs(q, s, g) ==
  /\ \A j \in DOMAIN q : ~AnyLimit(q[j]) /\ ~Redraw(q[j]) /\ About(q[j]) = s
  /\ \A j \in DOMAIN q : AnyGovernor(q[j]) => q[j].value = g
  /\ \A j \in DOMAIN q : KernelGovernor(q[j]) =>
       \E k \in DOMAIN q : j < k /\ ConfigGovernor(q[k]) /\ q[k].of = s
  /\ \A j \in DOMAIN q : ConfigGovernor(q[j]) =>
       \A cl \in ClustersIn(s) : \E k \in DOMAIN q : k < j /\ KernelGovernor(q[k]) /\ q[k].of = cl
  /\ \E j \in DOMAIN q : KernelGovernor(q[j]) /\ q[j].of = Policy[s]

LEMMA SetGovernorIs ==
  ASSUME NEW s \in Side, NEW t \in Choice
  PROVE  SetGovernor(s, t) \in Seq(Command) /\ Governs(SetGovernor(s, t), s, GovernorOf(t))
<1> DEFINE g == GovernorOf(t)
           K(cl) == [to |-> "kernel", what |-> "governor", of |-> cl, value |-> g]
           c == [to |-> "config", what |-> "governor", of |-> s, value |-> g]
           h == [to |-> "kernel", what |-> "thermal", of |-> s, value |-> t # Performance]
           q == SetGovernor(s, t)
<1> USE DEF AnyLimit, AnyGovernor, KernelLimit, ConfigLimit, KernelGovernor, ConfigGovernor, Redraw, About
<1>1. g \in Governor
  BY GovernorsAre
<1>2. q = [k \in DOMAIN ClustersOf[s] |-> K(ClustersOf[s][k])] \o <<c, h>>
  BY DEF SetGovernor
<1> HIDE DEF g
<1>3. ASSUME NEW cl \in Cluster
      PROVE  /\ K(cl) \in Command /\ KernelGovernor(K(cl)) /\ ~ConfigGovernor(K(cl)) /\ ~AnyLimit(K(cl))
             /\ ~Redraw(K(cl)) /\ About(K(cl)) = SideOf[cl] /\ K(cl).of = cl /\ K(cl).value = g
  BY <1>1 DEF Command, KernelGovernorCommand
<1>4. /\ c \in Command /\ ~KernelGovernor(c) /\ ConfigGovernor(c) /\ ~AnyLimit(c)
      /\ ~Redraw(c) /\ About(c) = s /\ c.of = s /\ c.value = g
  BY <1>1 DEF Command, ConfigGovernorCommand
<1>5. h \in Command /\ ~AnyGovernor(h) /\ ~AnyLimit(h) /\ ~Redraw(h) /\ About(h) = s
  BY DEF Command, ThermalCommand
<1> HIDE DEF K, c, h, q, AnyLimit, KernelLimit, ConfigLimit, KernelGovernor, ConfigGovernor, Redraw, About
<1>6. CASE s = "cpu"
  <2>1. [k \in DOMAIN ClustersOf[s] |-> K(ClustersOf[s][k])] = <<K("a53"), K("a72")>>
    BY <1>6 DEF ClustersOf
  <2>2. q = <<K("a53"), K("a72")>> \o <<c, h>>
    BY <1>2, <2>1
  <2>3. "a53" \in Cluster /\ "a72" \in Cluster
    BY DEF Cluster
  <2>4. q \in Seq(Command) /\ DOMAIN q = 1..4
        /\ q[1] = K("a53") /\ q[2] = K("a72") /\ q[3] = c /\ q[4] = h
    BY <1>3, <1>4, <1>5, <2>2, <2>3
  <2>5. ClustersIn(s) = {"a53", "a72"} /\ Policy[s] = "a53" /\ SideOf["a53"] = s /\ SideOf["a72"] = s
    BY <1>6 DEF ClustersIn, Cluster, SideOf, Policy
  <2>6. \A j \in 1..4 : j = 1 \/ j = 2 \/ j = 3 \/ j = 4
    OBVIOUS
  <2>7. \A j \in DOMAIN q : ~AnyLimit(q[j]) /\ ~Redraw(q[j]) /\ About(q[j]) = s
                            /\ (AnyGovernor(q[j]) => q[j].value = g)
                            /\ (KernelGovernor(q[j]) => j < 3) /\ (ConfigGovernor(q[j]) => j = 3)
    BY <1>3, <1>4, <1>5, <2>3, <2>4, <2>5, <2>6
  <2>8. KernelGovernor(q[1]) /\ q[1].of = "a53" /\ KernelGovernor(q[2]) /\ q[2].of = "a72"
        /\ ConfigGovernor(q[3]) /\ q[3].of = s
    BY <1>3, <1>4, <2>3, <2>4
  <2> QED BY <2>4, <2>5, <2>7, <2>8 DEF Governs, g, q
<1>7. CASE s = "gpu"
  <2>1. [k \in DOMAIN ClustersOf[s] |-> K(ClustersOf[s][k])] = <<K("t86x")>>
    BY <1>7 DEF ClustersOf
  <2>2. q = <<K("t86x")>> \o <<c, h>>
    BY <1>2, <2>1
  <2>3. "t86x" \in Cluster
    BY DEF Cluster
  <2>4. q \in Seq(Command) /\ DOMAIN q = 1..3 /\ q[1] = K("t86x") /\ q[2] = c /\ q[3] = h
    BY <1>3, <1>4, <1>5, <2>2, <2>3
  <2>5. ClustersIn(s) = {"t86x"} /\ Policy[s] = "t86x" /\ SideOf["t86x"] = s
    BY <1>7 DEF ClustersIn, Cluster, SideOf, Policy
  <2>6. \A j \in 1..3 : j = 1 \/ j = 2 \/ j = 3
    OBVIOUS
  <2>7. \A j \in DOMAIN q : ~AnyLimit(q[j]) /\ ~Redraw(q[j]) /\ About(q[j]) = s
                            /\ (AnyGovernor(q[j]) => q[j].value = g)
                            /\ (KernelGovernor(q[j]) => j < 2) /\ (ConfigGovernor(q[j]) => j = 2)
    BY <1>3, <1>4, <1>5, <2>3, <2>4, <2>5, <2>6
  <2>8. KernelGovernor(q[1]) /\ q[1].of = "t86x" /\ ConfigGovernor(q[2]) /\ q[2].of = s
    BY <1>3, <1>4, <2>3, <2>4
  <2> QED BY <2>4, <2>5, <2>7, <2>8 DEF Governs, g, q
<1> QED BY <1>6, <1>7 DEF Side

\* What a fresh save of a governor page promises: every clause of the invariant that
\* speaks of the commands alone.
Saves(q, s, g) ==
  /\ \A j \in DOMAIN q : /\ About(q[j]) = s
                         /\ AnyLimit(q[j]) => Ends(q[j]) /\ q[j].of \in Item /\ SideOf[q[j].of.cl] = s
                         /\ AnyGovernor(q[j]) => q[j].value = g
  /\ \A j \in DOMAIN q : KernelLimit(q[j]) =>
       /\ \E k \in DOMAIN q : j < k /\ ConfigLimit(q[k]) /\ q[k].of = q[j].of
       /\ \E k \in DOMAIN q : j < k /\ Redraw(q[k]) /\ q[k].of = s
  /\ \A j \in DOMAIN q : ConfigLimit(q[j]) =>
       \E k \in DOMAIN q : k < j /\ KernelLimit(q[k]) /\ q[k].of = q[j].of
  /\ \A j \in DOMAIN q : KernelGovernor(q[j]) =>
       \E k \in DOMAIN q : j < k /\ ConfigGovernor(q[k]) /\ q[k].of = s
  /\ \A j \in DOMAIN q : ConfigGovernor(q[j]) =>
       \A cl \in ClustersIn(s) : \E k \in DOMAIN q : k < j /\ KernelGovernor(q[k]) /\ q[k].of = cl
  /\ \E j \in DOMAIN q : KernelGovernor(q[j]) /\ q[j].of = Policy[s]

\* Every limit of the side is reset before the governor is written.
ResetsFirst(q, s) ==
  \A j \in DOMAIN q : AnyGovernor(q[j]) => \A i \in Item : SideOf[i.cl] = s =>
    /\ \E k \in DOMAIN q : k < j /\ KernelLimit(q[k]) /\ q[k].of = i
    /\ \E k \in DOMAIN q : k < j /\ ConfigLimit(q[k]) /\ q[k].of = i

LEMMA GovernsAlone ==
  ASSUME NEW s \in Side, NEW g, NEW q \in Seq(Command), Governs(q, s, g)
  PROVE  Saves(q, s, g)
BY DEF Governs, Saves, AnyLimit

LEMMA GovernsAfterReset ==
  ASSUME NEW s \in Side, NEW g, NEW p \in Seq(Command), NEW w \in Command, NEW q \in Seq(Command),
         Resets(p, ClustersIn(s)), Redraw(w), w.of = s, ~AnyLimit(w), ~AnyGovernor(w), About(w) = s,
         Governs(q, s, g), NEW r, r = (p \o <<w>>) \o q
  PROVE  r \in Seq(Command) /\ Saves(r, s, g) /\ ResetsFirst(r, s)
<1> PICK m \in Nat : m = Len(p)
  OBVIOUS
<1> PICK n \in Nat : n = Len(q)
  OBVIOUS
<1>1. /\ p \o <<w>> \in Seq(Command) /\ Len(p \o <<w>>) = m + 1
      /\ \A j \in 1..m : (p \o <<w>>)[j] = p[j]
      /\ (p \o <<w>>)[m + 1] = w
  OBVIOUS
<1> DEFINE x == p \o <<w>>
<1>2. /\ r \in Seq(Command) /\ Len(r) = Len(x) + Len(q)
      /\ \A j \in 1..Len(x) : r[j] = x[j]
      /\ \A j \in 1..Len(q) : r[Len(x) + j] = q[j]
      /\ \A k \in 1..Len(r) : \/ k \in 1..Len(x) /\ r[k] = x[k]
                              \/ k - Len(x) \in 1..Len(q) /\ r[k] = q[k - Len(x)]
  BY <1>1, Joined
<1> HIDE DEF x
<1> DEFINE R == 1..m
           G == (m + 2)..(m + 1 + n)
<1>3. /\ DOMAIN p = 1..m /\ DOMAIN q = 1..n /\ DOMAIN r = 1..(m + 1 + n)
      /\ \A j \in R : r[j] = p[j]
      /\ r[m + 1] = w
      /\ \A j \in G : j - (m + 1) \in 1..n /\ r[j] = q[j - (m + 1)]
      /\ \A j \in 1..n : r[m + 1 + j] = q[j] /\ m + 1 + j \in G
  BY <1>1, <1>2, Positions DEF x
<1>4. DOMAIN r = R \cup {m + 1} \cup G
  BY <1>3
<1>5. \A j \in R : /\ AnyLimit(r[j]) /\ Ends(r[j]) /\ SideOf[r[j].of.cl] = s /\ r[j].of \in Item
                   /\ KernelLimit(r[j]) => j + 1 \in R /\ ConfigLimit(r[j + 1]) /\ r[j + 1].of = r[j].of
                   /\ ConfigLimit(r[j]) => j - 1 \in R /\ KernelLimit(r[j - 1]) /\ r[j - 1].of = r[j].of
                   /\ ~AnyGovernor(r[j]) /\ ~Redraw(r[j]) /\ About(r[j]) = s
  <2> SUFFICES ASSUME NEW j \in R
               PROVE  /\ AnyLimit(r[j]) /\ Ends(r[j]) /\ SideOf[r[j].of.cl] = s /\ r[j].of \in Item
                      /\ KernelLimit(r[j]) => j + 1 \in R /\ ConfigLimit(r[j + 1]) /\ r[j + 1].of = r[j].of
                      /\ ConfigLimit(r[j]) => j - 1 \in R /\ KernelLimit(r[j - 1]) /\ r[j - 1].of = r[j].of
                      /\ ~AnyGovernor(r[j]) /\ ~Redraw(r[j]) /\ About(r[j]) = s
    OBVIOUS
  <2>1. r[j] = p[j] /\ j \in DOMAIN p
    BY <1>3
  <2>2. /\ AnyLimit(p[j]) /\ Ends(p[j]) /\ p[j].of.cl \in ClustersIn(s) /\ p[j].of \in Item
        /\ KernelLimit(p[j]) => j + 1 \in DOMAIN p /\ ConfigLimit(p[j + 1]) /\ p[j + 1].of = p[j].of
        /\ ConfigLimit(p[j]) => j - 1 \in DOMAIN p /\ KernelLimit(p[j - 1]) /\ p[j - 1].of = p[j].of
    BY <2>1 DEF Resets
  <2>3. ~AnyGovernor(p[j]) /\ ~Redraw(p[j]) /\ About(p[j]) = s
    BY <2>2 DEF AnyLimit, AnyGovernor, KernelLimit, ConfigLimit, KernelGovernor, ConfigGovernor, Redraw,
                About, ClustersIn
  <2>4. SideOf[p[j].of.cl] = s
    BY <2>2 DEF ClustersIn
  <2> QED BY <1>3, <2>1, <2>2, <2>3, <2>4
<1>6. \A i \in Item : SideOf[i.cl] = s => /\ \E j \in R : KernelLimit(r[j]) /\ r[j].of = i
                                          /\ \E j \in R : ConfigLimit(r[j]) /\ r[j].of = i
  <2> SUFFICES ASSUME NEW i \in Item, SideOf[i.cl] = s
               PROVE  /\ \E j \in R : KernelLimit(r[j]) /\ r[j].of = i
                      /\ \E j \in R : ConfigLimit(r[j]) /\ r[j].of = i
    OBVIOUS
  <2>1. i.cl \in ClustersIn(s)
    BY DEF ClustersIn, Item
  <2>2. PICK j \in 1..m : KernelLimit(p[j]) /\ p[j].of = i
    BY <1>3, <2>1 DEF Resets
  <2>3. PICK k \in 1..m : ConfigLimit(p[k]) /\ p[k].of = i
    BY <1>3, <2>1 DEF Resets
  <2> QED BY <1>3, <2>2, <2>3
<1>7. \A j \in G : /\ ~AnyLimit(r[j]) /\ ~Redraw(r[j]) /\ About(r[j]) = s
                   /\ AnyGovernor(r[j]) => r[j].value = g
  BY <1>3 DEF Governs
<1>8. \A j \in G : KernelGovernor(r[j]) => \E k \in G : j < k /\ ConfigGovernor(r[k]) /\ r[k].of = s
  <2> SUFFICES ASSUME NEW j \in G, KernelGovernor(r[j])
               PROVE  \E k \in G : j < k /\ ConfigGovernor(r[k]) /\ r[k].of = s
    OBVIOUS
  <2> DEFINE l == j - (m + 1)
  <2>1. l \in 1..n /\ r[j] = q[l] /\ j = m + 1 + l
    BY <1>3
  <2> HIDE DEF l
  <2>2. PICK k \in 1..n : l < k /\ ConfigGovernor(q[k]) /\ q[k].of = s
    BY <1>3, <2>1 DEF Governs
  <2>3. m + 1 + k \in G /\ r[m + 1 + k] = q[k] /\ j < m + 1 + k
    BY <1>3, <2>1, <2>2
  <2> QED BY <2>2, <2>3
<1>9. \A j \in G : ConfigGovernor(r[j]) =>
        \A cl \in ClustersIn(s) : \E k \in G : k < j /\ KernelGovernor(r[k]) /\ r[k].of = cl
  <2> SUFFICES ASSUME NEW j \in G, ConfigGovernor(r[j]), NEW cl \in ClustersIn(s)
               PROVE  \E k \in G : k < j /\ KernelGovernor(r[k]) /\ r[k].of = cl
    OBVIOUS
  <2> DEFINE l == j - (m + 1)
  <2>1. l \in 1..n /\ r[j] = q[l] /\ j = m + 1 + l
    BY <1>3
  <2> HIDE DEF l
  <2>2. PICK k \in 1..n : k < l /\ KernelGovernor(q[k]) /\ q[k].of = cl
    <3>1. ConfigGovernor(q[l]) /\ l \in DOMAIN q /\ DOMAIN q = 1..n
      BY <1>3, <2>1
    <3> QED BY <3>1 DEF Governs
  <2>3. m + 1 + k \in G /\ r[m + 1 + k] = q[k] /\ m + 1 + k < j
    BY <1>3, <2>1, <2>2
  <2> QED BY <2>2, <2>3
<1>10. \E j \in G : KernelGovernor(r[j]) /\ r[j].of = Policy[s]
  <2>1. PICK j \in 1..n : KernelGovernor(q[j]) /\ q[j].of = Policy[s]
    BY <1>3 DEF Governs
  <2>2. m + 1 + j \in G /\ r[m + 1 + j] = q[j]
    BY <1>3
  <2> QED BY <2>1, <2>2
<1>11. \A j \in R, k \in G : j < m + 1 /\ m + 1 < k /\ j < k
  OBVIOUS
<1>12. R \subseteq DOMAIN r /\ G \subseteq DOMAIN r /\ m + 1 \in DOMAIN r /\ \A j \in R : j < j + 1 /\ j - 1 < j
  BY <1>4
<1> HIDE DEF R, G
<1>13. \A j \in DOMAIN r : /\ About(r[j]) = s
                           /\ AnyLimit(r[j]) => Ends(r[j]) /\ r[j].of \in Item /\ SideOf[r[j].of.cl] = s
                           /\ AnyGovernor(r[j]) => r[j].value = g
  BY <1>3, <1>4, <1>5, <1>7
<1>14. \A j \in DOMAIN r : /\ KernelLimit(r[j]) \/ ConfigLimit(r[j]) => j \in R
                           /\ AnyGovernor(r[j]) => j \in G
  BY <1>3, <1>4, <1>5, <1>7 DEF AnyLimit
<1>15. \A j \in DOMAIN r : KernelLimit(r[j]) =>
         /\ \E k \in DOMAIN r : j < k /\ ConfigLimit(r[k]) /\ r[k].of = r[j].of
         /\ \E k \in DOMAIN r : j < k /\ Redraw(r[k]) /\ r[k].of = s
  <2> SUFFICES ASSUME NEW j \in R, KernelLimit(r[j])
               PROVE  /\ \E k \in DOMAIN r : j < k /\ ConfigLimit(r[k]) /\ r[k].of = r[j].of
                      /\ \E k \in DOMAIN r : j < k /\ Redraw(r[k]) /\ r[k].of = s
    BY <1>14
  <2>1. j + 1 \in DOMAIN r /\ j < j + 1 /\ ConfigLimit(r[j + 1]) /\ r[j + 1].of = r[j].of
    BY <1>5, <1>12
  <2>2. j < m + 1
    BY DEF R
  <2> QED BY <1>3, <1>12, <2>1, <2>2
<1>16. \A j \in DOMAIN r : ConfigLimit(r[j]) =>
         \E k \in DOMAIN r : k < j /\ KernelLimit(r[k]) /\ r[k].of = r[j].of
  <2> SUFFICES ASSUME NEW j \in R, ConfigLimit(r[j])
               PROVE  \E k \in DOMAIN r : k < j /\ KernelLimit(r[k]) /\ r[k].of = r[j].of
    BY <1>14
  <2>1. j - 1 \in DOMAIN r /\ j - 1 < j /\ KernelLimit(r[j - 1]) /\ r[j - 1].of = r[j].of
    BY <1>5, <1>12
  <2> QED BY <2>1
<1>17. Saves(r, s, g)
  <2>1. \A j \in DOMAIN r : KernelGovernor(r[j]) =>
          \E k \in DOMAIN r : j < k /\ ConfigGovernor(r[k]) /\ r[k].of = s
    BY <1>8, <1>12, <1>14 DEF AnyGovernor
  <2>2. \A j \in DOMAIN r : ConfigGovernor(r[j]) =>
          \A cl \in ClustersIn(s) : \E k \in DOMAIN r : k < j /\ KernelGovernor(r[k]) /\ r[k].of = cl
    <3> SUFFICES ASSUME NEW j \in DOMAIN r, ConfigGovernor(r[j]), NEW cl \in ClustersIn(s)
                 PROVE  \E k \in DOMAIN r : k < j /\ KernelGovernor(r[k]) /\ r[k].of = cl
      OBVIOUS
    <3>1. j \in G
      BY <1>14 DEF AnyGovernor
    <3>2. PICK k \in G : k < j /\ KernelGovernor(r[k]) /\ r[k].of = cl
      BY <1>9, <3>1
    <3> QED BY <1>12, <3>2
  <2>3. \E j \in DOMAIN r : KernelGovernor(r[j]) /\ r[j].of = Policy[s]
    BY <1>10, <1>12
  <2> QED BY <1>13, <1>15, <1>16, <2>1, <2>2, <2>3 DEF Saves
<1>18. ResetsFirst(r, s)
  BY <1>6, <1>11, <1>12, <1>14 DEF ResetsFirst
<1> QED BY <1>2, <1>17, <1>18

LEMMA GovernorSaveIs ==
  ASSUME ui \in UI, NEW s \in Side, NEW t \in Choice
  PROVE  LET q == GovernorSave(s, t)
         IN /\ q \in Seq(Command) /\ Saves(q, s, GovernorOf(t))
            /\ t # Manual /\ ui.dirty[s] => ResetsFirst(q, s)
<1> DEFINE q == GovernorSave(s, t)
<1>1. SetGovernor(s, t) \in Seq(Command) /\ Governs(SetGovernor(s, t), s, GovernorOf(t))
  BY SetGovernorIs
<1>2. CASE t # Manual /\ ui.dirty[s]
  <2>1. PICK p \in Seq(Command), w \in Command :
           /\ Reset(s) = p \o <<w>> /\ Resets(p, ClustersIn(s))
           /\ Redraw(w) /\ w.of = s /\ ~AnyLimit(w) /\ ~AnyGovernor(w) /\ About(w) = s
    BY ResetIs
  <2>2. q = (p \o <<w>>) \o SetGovernor(s, t)
    BY <1>2, <2>1 DEF GovernorSave
  <2> QED BY <1>1, <2>1, <2>2, GovernsAfterReset
<1>3. CASE ~(t # Manual /\ ui.dirty[s])
  <2>1. q = <<>> \o SetGovernor(s, t)
    BY <1>3 DEF GovernorSave
  <2>2. q = SetGovernor(s, t)
    BY <1>1, <2>1
  <2> QED BY <1>1, <1>3, <2>2, GovernsAlone
<1> QED BY <1>2, <1>3

-----------------------------------------------------------------------------
(* A save begins.                                                          *)

LEMMA GovernorSaveKernelSide ==
  ASSUME ConsoleInv, pending = <<>>, UNCHANGED <<kernel, config, torn>>, NEW s \in Side, NEW g,
         pending' \in Seq(Command), Saves(pending', s, g),
         g # "ondemand" => ~Limited(limit, s) \/ ResetsFirst(pending', s)
  PROVE  KernelSide'
<1> DEFINE q == pending'
<1>1. limit' = limit /\ governor' = governor /\ config' = config /\ torn' = torn /\ Todo' = DOMAIN q
  BY DEF kernel, Todo
<1>2. \A j \in DOMAIN q : /\ About(q[j]) = s
                          /\ AnyLimit(q[j]) => Ends(q[j]) /\ q[j].of \in Item /\ SideOf[q[j].of.cl] = s
                          /\ AnyGovernor(q[j]) => q[j].value = g
  BY DEF Saves
<1>3. limit \in [Cluster -> Limits] /\ config.limit \in [Cluster -> Limits]
  BY DEF ConsoleInv, Types
<1>4. TablesInv'
  <2>1. \A j \in DOMAIN q : AnyLimit(q[j]) => q[j].value \in 0..Last[q[j].of.cl]
    BY <1>2, UnlimitedIs, UnlimitedFits, OrderOfItems DEF Ends
  <2> QED BY <1>1, <2>1 DEF ConsoleInv, TablesInv, InTable, Ordered
<1>5. LimitsInv'
  <2>1. \A j \in DOMAIN q : KernelLimit(q[j]) =>
          \E k \in DOMAIN q : j < k /\ ConfigLimit(q[k]) /\ q[k].of = q[j].of
    BY DEF Saves
  <2>2. \A j, k \in DOMAIN q : AnyLimit(q[j]) /\ AnyLimit(q[k]) /\ q[j].of = q[k].of =>
          q[j].value = q[k].value
    BY <1>2 DEF Ends
  <2>3. \A j \in DOMAIN q : AnyLimit(q[j]) => Ends(q[j])
    BY <1>2
  <2>4. \A j \in DOMAIN q : ConfigLimit(q[j]) =>
          \E k \in DOMAIN q : k < j /\ KernelLimit(q[k]) /\ q[k].of = q[j].of
    BY DEF Saves
  <2>5. ~torn => limit = config.limit
    BY SettledIs DEF Settled
  <2> HIDE DEF q
  <2> QED BY <1>1, <2>1, <2>2, <2>3, <2>4, <2>5 DEF LimitsInv, AnyLimit, q
<1>6. GovernorsInv'
  <2>1. \A j \in DOMAIN q : KernelGovernor(q[j]) =>
          \E k \in DOMAIN q : j < k /\ ConfigGovernor(q[k]) /\ q[k].of = SideOf[q[j].of]
    BY <1>2 DEF Saves, About, AnyLimit, KernelLimit, ConfigLimit, KernelGovernor
  <2>2. \A j, k \in DOMAIN q : AnyGovernor(q[j]) /\ AnyGovernor(q[k]) => q[j].value = q[k].value
    BY <1>2
  <2>3. \A j \in DOMAIN q : ConfigGovernor(q[j]) => \A cl \in Cluster : SideOf[cl] = q[j].of =>
          \E k \in DOMAIN q : k < j /\ KernelGovernor(q[k]) /\ q[k].of = cl
    <3> SUFFICES ASSUME NEW j \in DOMAIN q, ConfigGovernor(q[j]), NEW cl \in Cluster, SideOf[cl] = q[j].of
                 PROVE  \E k \in DOMAIN q : k < j /\ KernelGovernor(q[k]) /\ q[k].of = cl
      OBVIOUS
    <3>1. q[j].of = s
      BY <1>2 DEF About, AnyLimit, KernelLimit, ConfigLimit, KernelGovernor, ConfigGovernor
    <3>2. cl \in ClustersIn(s)
      BY <3>1 DEF ClustersIn
    <3> QED BY <3>2 DEF Saves
  <2>4. ~torn => \A cl \in Cluster : governor[cl] = config.governor[SideOf[cl]]
    BY SettledIs DEF Settled
  <2> QED BY <1>1, <2>1, <2>2, <2>3, <2>4 DEF GovernorsInv
<1>7. NarrowInv'
  <2> SUFFICES ASSUME ~torn PROVE NarrowInv'
    BY <1>1 DEF NarrowInv
  <2>1. Settled
    BY SettledIs
  <2>2. ASSUME NEW j \in DOMAIN q, AnyGovernor(q[j]), q[j].value # "ondemand", NEW i \in Item,
               SideOf[i.cl] = s
        PROVE  /\ \/ At(limit, i) = At(Unlimited, i)
                  \/ \E k \in DOMAIN q : k < j /\ KernelLimit(q[k]) /\ q[k].of = i
               /\ \/ At(config.limit, i) = At(Unlimited, i)
                  \/ \E k \in DOMAIN q : k < j /\ ConfigLimit(q[k]) /\ q[k].of = i
    <3>1. g # "ondemand"
      BY <1>2, <2>2
    <3>2. CASE ~Limited(limit, s)
      BY <1>3, <2>1, <2>2, <3>2, NotLimited DEF Settled
    <3>3. CASE ResetsFirst(q, s)
      BY <2>2, <3>3 DEF ResetsFirst
    <3> QED BY <3>1, <3>2, <3>3
  <2>3. \A j \in DOMAIN q : KernelGovernor(q[j]) => SideOf[q[j].of] = s /\ AnyGovernor(q[j])
    BY <1>2 DEF About, AnyLimit, KernelLimit, ConfigLimit, KernelGovernor, AnyGovernor
  <2>4. \A j \in DOMAIN q : ConfigGovernor(q[j]) => q[j].of = s /\ AnyGovernor(q[j])
    BY <1>2 DEF About, AnyLimit, KernelLimit, ConfigLimit, KernelGovernor, ConfigGovernor, AnyGovernor
  <2>5. \A j \in DOMAIN q : AnyLimit(q[j]) => Ends(q[j])
    BY <1>2
  <2>6. /\ \A cl \in Cluster : governor[cl] # "ondemand" => limit[cl] = Unlimited[cl]
        /\ \A cl \in Cluster : config.governor[SideOf[cl]] # "ondemand" => config.limit[cl] = Unlimited[cl]
    BY <2>1 DEF Settled
  <2>7. \A j \in DOMAIN q : KernelGovernor(q[j]) /\ q[j].value # "ondemand" =>
          \A i \in Item : i.cl = q[j].of =>
            \/ At(limit, i) = At(Unlimited, i)
            \/ \E k \in DOMAIN q : k < j /\ KernelLimit(q[k]) /\ q[k].of = i
    BY <2>2, <2>3
  <2>8. \A j \in DOMAIN q : ConfigGovernor(q[j]) /\ q[j].value # "ondemand" =>
          \A i \in Item : SideOf[i.cl] = q[j].of =>
            \/ At(config.limit, i) = At(Unlimited, i)
            \/ \E k \in DOMAIN q : k < j /\ ConfigLimit(q[k]) /\ q[k].of = i
    BY <2>2, <2>4
  <2> QED BY <1>1, <2>5, <2>6, <2>7, <2>8 DEF NarrowInv
<1> QED BY <1>4, <1>5, <1>6, <1>7 DEF KernelSide

LEMMA SaveGovernorKeeps ==
  ASSUME ConsoleInv, NEW s \in Side, SaveGovernor(s) PROVE ConsoleInv'
<1> DEFINE q == GovernorSave(s, switchTag)
<1>1. /\ running /\ ~saving /\ mode[s] = "governor" /\ saving' = TRUE /\ pending' = q
      /\ ui' = IF switchTag = Manual
                 THEN Highlight([ui EXCEPT !.menu[s] = FirstItem[s], !.priority = s], s)
                 ELSE [ui EXCEPT !.menu[s] = NoItem]
      /\ UNCHANGED <<kernel, config, running, mode, switchTag, torn>>
  BY DEF SaveGovernor, Open, Ready, Run
<1>2. pending = <<>>
  BY <1>1 DEF ConsoleInv, PageInv
<1>3. /\ ui.seen = limit /\ MenusOf(ui) /\ ui \in UI /\ StandsInv
      /\ \A r \in Side : Faithful(ui, r)
  BY <1>1, <1>2, Idle
<1>4. /\ switchTag \in Choice /\ ui.priority = s
      /\ (ui.dirty[s] <=> Limited(limit, s))
  BY <1>1, <1>3 DEF ConsoleInv, ShownInv, StandsInv
<1>5. limit \in [Cluster -> Limits] /\ mode \in [Side -> Page]
  BY DEF ConsoleInv, Types
<1>6. /\ ui' \in UI /\ MenusOf(ui') /\ ui'.seen = limit /\ ui'.priority = s /\ ui'.shown = ui.shown
      /\ \A r \in Side : r # s => ui'.menu[r] = ui.menu[r]
      /\ ui'.menu[s] # NoItem => switchTag = Manual
  <2>1. CASE switchTag = Manual
    <3> DEFINE m == [ui.menu EXCEPT ![s] = FirstItem[s]]
               o == [ui EXCEPT !.menu[s] = FirstItem[s], !.priority = s]
    <3>1. m \in [Side -> Item \cup {NoItem}] /\ m[s] = FirstItem[s] /\ \A r \in Side : r # s => m[r] = ui.menu[r]
      BY <1>3, Sides, FieldsOfUI
    <3>2. o = [[ui EXCEPT !.menu = m] EXCEPT !.priority = s]
      OBVIOUS
    <3> HIDE DEF m, o
    <3>3. o \in UI /\ o.menu = m /\ o.shown = ui.shown /\ o.seen = limit /\ o.priority = s
      BY <1>3, <3>1, <3>2 DEF UI
    <3>4. MenusOf(o)
      BY <1>3, <3>1, <3>3, Sides DEF MenusOf
    <3>5. ui' = Highlight(o, s)
      BY <1>1, <2>1 DEF o
    <3>6. ui' \in UI /\ SameSides(o, ui') /\ ui'.priority = s /\ ui'.seen = limit
      BY <1>5, <3>3, <3>4, <3>5, HighlightIs
    <3> QED BY <2>1, <3>1, <3>3, <3>4, <3>6 DEF SameSides, MenusOf
  <2>2. CASE switchTag # Manual
    <3> DEFINE m == [ui.menu EXCEPT ![s] = NoItem]
    <3>1. m \in [Side -> Item \cup {NoItem}] /\ m[s] = NoItem /\ \A r \in Side : r # s => m[r] = ui.menu[r]
      BY <1>3, FieldsOfUI
    <3>2. ui' = [ui EXCEPT !.menu = m]
      BY <1>1, <2>2
    <3> HIDE DEF m
    <3>3. /\ ui' \in UI /\ ui'.menu = m /\ ui'.shown = ui.shown /\ ui'.seen = limit /\ ui'.priority = s
      BY <1>3, <1>4, <3>1, <3>2 DEF UI
    <3> QED BY <1>3, <3>1, <3>3 DEF MenusOf
  <2> QED BY <2>1, <2>2
<1>7. /\ q \in Seq(Command) /\ Saves(q, s, GovernorOf(switchTag))
      /\ switchTag # Manual /\ ui.dirty[s] => ResetsFirst(q, s)
  BY <1>3, <1>4, GovernorSaveIs
<1> HIDE DEF q
<1>8. GovernorOf(switchTag) # "ondemand" => ~Limited(limit, s) \/ ResetsFirst(pending', s)
  BY <1>1, <1>4, <1>7, GovernorsAre
<1>9. KernelSide'
  <2>1. pending' \in Seq(Command) /\ Saves(pending', s, GovernorOf(switchTag))
    BY <1>1, <1>7
  <2> QED BY <1>1, <1>2, <1>8, <2>1, GovernorSaveKernelSide
<1>10. Types'
  <2>1. saving' \in BOOLEAN /\ pending' \in Seq(Command)
    BY <1>1, <1>7
  <2> QED BY <1>1, <1>6, <2>1 DEF ConsoleInv, Types, kernel
<1>11. Todo' = DOMAIN q /\ \A j \in DOMAIN q : About(q[j]) = s /\ (AnyLimit(q[j]) => Ends(q[j]))
  BY <1>1, <1>7 DEF Todo, Saves
<1>12. PageInv'
  <2>1. mode # Closed
    BY <1>1 DEF Closed
  <2> QED BY <1>1, <1>11, <2>1 DEF ConsoleInv, PageInv
<1>13. SeenInv'
  <2>1. \A j \in DOMAIN q : KernelLimit(q[j]) => \E k \in DOMAIN q : j < k /\ Redraw(q[k]) /\ q[k].of = s
    BY <1>7 DEF Saves
  <2>2. limit' = limit
    BY <1>1 DEF kernel
  <2> QED BY <1>1, <1>6, <1>11, <2>1, <2>2 DEF SeenInv
<1>14. MenusInv'
  BY <1>6 DEF MenusInv, MenusOf
<1>15. ShownInv'
  <2>1. limit' = limit /\ governor' = governor
    BY <1>1 DEF kernel
  <2>2. \A r \in Side : r # s => Faithful(ui, r)'
    BY <1>3, <1>6, <2>1 DEF Faithful, Limited
  <2>3. StandsInv'
    <3>1. mode # Closed /\ \A r \in Side : r # s => mode[r] = "main"
      BY <1>1, Sides DEF Closed, ConsoleInv, PageInv
    <3> QED BY <1>1, <1>4, <1>6, <3>1 DEF StandsInv
  <2>4. \A r \in Side : r # s => mode[r] # "governor"
    BY <1>1, Sides DEF ConsoleInv, PageInv
  <2>5. switchTag = Manual => /\ \A j \in DOMAIN q : KernelGovernor(q[j]) => q[j].value = "ondemand"
                              /\ \E j \in DOMAIN q : KernelGovernor(q[j]) /\ q[j].of = Policy[s]
    BY <1>7, GovernorsAre DEF Saves, AnyGovernor
  <2> QED BY <1>1, <1>6, <1>11, <2>2, <2>3, <2>4, <2>5 DEF ShownInv
<1> QED BY <1>9, <1>10, <1>12, <1>13, <1>14, <1>15 DEF ConsoleInv, KernelSide

LEMMA LimitSaveKernelSide ==
  ASSUME ConsoleInv, pending = <<>>, UNCHANGED <<kernel, config, torn>>, NEW i \in Item,
         NEW v \in 0..Last[i.cl], pending' = SetLimit(i, v), Accepts(limit, i.cl, i.bound, v),
         governor[Policy[SideOf[i.cl]]] = "ondemand"
  PROVE  KernelSide'
<1> DEFINE q == pending'
<1>1. limit' = limit /\ governor' = governor /\ config' = config /\ torn' = torn /\ Todo' = DOMAIN q
  BY DEF kernel, Todo
<1>2. v \in Nat
  BY AtIsField, UnlimitedIs
<1>3. /\ q \in Seq(Command) /\ DOMAIN q = {1, 2} /\ Len(q) = 2
      /\ q[1] = LimitWrite("kernel", i, v) /\ q[2] = LimitWrite("config", i, v)
  BY <1>2, SetLimitIs
<1>4. /\ q[1].of = i /\ q[1].value = v /\ KernelLimit(q[1]) /\ ~ConfigLimit(q[1]) /\ ~AnyGovernor(q[1])
      /\ q[2].of = i /\ q[2].value = v /\ ~KernelLimit(q[2]) /\ ConfigLimit(q[2]) /\ ~AnyGovernor(q[2])
  BY <1>2, <1>3, LimitWriteIs DEF AnyGovernor
<1> HIDE DEF q
<1>5. TablesInv'
  BY <1>1, <1>3, <1>4 DEF ConsoleInv, TablesInv, InTable, Ordered, q
<1>6. LimitsInv'
  <2>1. /\ \A j \in DOMAIN q : KernelLimit(q[j]) => j = 1
        /\ \A j \in DOMAIN q : ConfigLimit(q[j]) => j = 2
        /\ \A j \in DOMAIN q : q[j].of = i /\ q[j].value = v
        /\ 1 \in DOMAIN q /\ 2 \in DOMAIN q /\ 1 < 2
    BY <1>3, <1>4
  <2>2. ~torn => limit = config.limit
    BY SettledIs DEF Settled
  <2>3. \A j \in DOMAIN q : KernelLimit(q[j]) =>
          \E k \in DOMAIN q : j < k /\ ConfigLimit(q[k]) /\ q[k].of = q[j].of
    BY <1>4, <2>1
  <2>4. \A j \in DOMAIN q : ConfigLimit(q[j]) =>
          \E k \in DOMAIN q : k < j /\ KernelLimit(q[k]) /\ q[k].of = q[j].of
    BY <1>4, <2>1
  <2> QED BY <1>1, <1>3, <2>1, <2>2, <2>3, <2>4 DEF LimitsInv, q
<1>7. \A j \in DOMAIN q : ~KernelGovernor(q[j]) /\ ~ConfigGovernor(q[j]) /\ q[j].of = i
  BY <1>3, <1>4 DEF AnyGovernor
<1>8. GovernorsInv'
  <2>1. ~torn => \A cl \in Cluster : governor[cl] = config.governor[SideOf[cl]]
    BY SettledIs DEF Settled
  <2> QED BY <1>1, <1>7, <2>1 DEF GovernorsInv, AnyGovernor, q
<1>9. NarrowInv'
  <2> SUFFICES ASSUME ~torn PROVE NarrowInv'
    BY <1>1 DEF NarrowInv
  <2>1. Settled
    BY SettledIs
  <2>2. governor[i.cl] = "ondemand" /\ config.governor[SideOf[i.cl]] = "ondemand"
    BY <2>1, Sides, AtIsField DEF Settled, Item
  <2> QED BY <1>1, <1>7, <2>1, <2>2 DEF NarrowInv, Settled, q
<1> QED BY <1>5, <1>6, <1>8, <1>9 DEF KernelSide

LEMMA SaveLimitKeeps ==
  ASSUME ConsoleInv, NEW s \in Side, SaveLimit(s) PROVE ConsoleInv'
<1> DEFINE i == ui.menu[s]
           ok == CanSave(i, switchTag)
           d == ~(ok /\ switchTag = At(Unlimited, i))
<1>1. /\ running /\ ~saving /\ mode[s] = "limit" /\ saving' = TRUE
      /\ pending' = IF ok THEN SetLimit(i, switchTag) ELSE <<>>
      /\ ui' = [ui EXCEPT !.dirty[s] = d]
      /\ UNCHANGED <<kernel, config, running, mode, switchTag, torn>>
  BY DEF SaveLimit, Open, Ready, Run
<1>2. pending = <<>>
  BY <1>1 DEF ConsoleInv, PageInv
<1>3. /\ ui.seen = limit /\ MenusOf(ui) /\ ui \in UI /\ StandsInv
      /\ \A r \in Side : Faithful(ui, r)
  BY <1>1, <1>2, Idle
<1>4. ui.priority = s /\ IsManual(ui, s) /\ switchTag \in 0..Last[i.cl]
  BY <1>1, <1>3 DEF StandsInv
<1>5. i \in Item /\ SideOf[i.cl] = s /\ governor[Policy[s]] = "ondemand"
  BY <1>3, <1>4, GovernorsAre DEF Faithful, MenusOf, IsManual
<1>6. switchTag \in Nat
  BY DEF ConsoleInv, Types
<1>7. /\ ui' \in UI /\ ui'.menu = ui.menu /\ ui'.seen = limit /\ ui'.priority = s /\ ui'.shown = ui.shown
  <2> DEFINE e == [ui.dirty EXCEPT ![s] = d]
  <2>1. d \in BOOLEAN
    OBVIOUS
  <2> HIDE DEF d
  <2>2. e \in [Side -> BOOLEAN]
    BY <1>3, <2>1, FieldsOfUI
  <2>3. ui' = [ui EXCEPT !.dirty = e]
    BY <1>1
  <2> HIDE DEF e
  <2> QED BY <1>3, <1>4, <2>2, <2>3 DEF UI
<1> HIDE DEF d
<1>8. KernelSide'
  <2>1. CASE ok
    <3>1. Accepts(limit, i.cl, i.bound, switchTag) /\ pending' = SetLimit(i, switchTag)
      BY <1>1, <1>3, <2>1 DEF CanSave
    <3> QED BY <1>1, <1>2, <1>4, <1>5, <3>1, LimitSaveKernelSide
  <2>2. CASE ~ok
    <3>1. UNCHANGED <<limit, governor, config, pending, torn>>
      BY <1>1, <1>2, <2>2 DEF kernel
    <3> QED BY <3>1, KernelSideKept DEF ConsoleInv, KernelSide
  <2> QED BY <2>1, <2>2
<1>9. pending' \in Seq(Command) /\ \A j \in Todo' : /\ AnyLimit(pending'[j]) /\ pending'[j].of = i
                                                    /\ About(pending'[j]) = s
  <2>1. CASE ok
    <3> DEFINE q == SetLimit(i, switchTag)
    <3>1. pending' = q
      BY <1>1, <2>1
    <3>2. /\ q \in Seq(Command) /\ DOMAIN q = {1, 2}
          /\ q[1] = LimitWrite("kernel", i, switchTag) /\ q[2] = LimitWrite("config", i, switchTag)
      BY <1>5, <1>6, SetLimitIs
    <3> HIDE DEF q
    <3>3. \A j \in DOMAIN q : AnyLimit(q[j]) /\ q[j].of = i /\ About(q[j]) = s
      BY <1>5, <1>6, <3>2, LimitWriteIs DEF AnyLimit
    <3> QED BY <3>1, <3>2, <3>3 DEF Todo
  <2>2. CASE ~ok
    BY <1>1, <2>2 DEF Todo
  <2> QED BY <2>1, <2>2
<1>10. Types'
  <2>1. saving' \in BOOLEAN
    BY <1>1
  <2> QED BY <1>1, <1>7, <1>9, <2>1 DEF ConsoleInv, Types, kernel
<1>11. mode # Closed /\ \A r \in Side : r # s => mode[r] = "main"
  BY <1>1, Sides DEF Closed, ConsoleInv, PageInv
<1> HIDE DEF ok
<1>12. PageInv'
  BY <1>1, <1>7, <1>9, <1>11 DEF ConsoleInv, PageInv
<1>13. limit' = limit /\ governor' = governor
  BY <1>1 DEF kernel
<1>14. SeenInv'
  BY <1>1, <1>7, <1>9, <1>13 DEF SeenInv
<1>15. MenusInv'
  BY <1>3, <1>7 DEF MenusInv, MenusOf
<1>16. ShownInv'
  <2>1. \A r \in Side : Faithful(ui, r)'
    BY <1>3, <1>7, <1>13 DEF Faithful, Limited
  <2>2. StandsInv'
    BY <1>1, <1>3, <1>7, <1>11 DEF StandsInv, IsManual
  <2> QED BY <1>1, <1>11, <2>1, <2>2 DEF ShownInv
<1> QED BY <1>8, <1>10, <1>12, <1>14, <1>15, <1>16 DEF ConsoleInv, KernelSide

-----------------------------------------------------------------------------
(* One command of a save.                                                  *)

LEMMA KindsOfCommand ==
  ASSUME NEW w \in Command
  PROVE  /\ \/ KernelLimit(w) \/ ConfigLimit(w) \/ KernelGovernor(w) \/ ConfigGovernor(w)
            \/ (w.to = "kernel" /\ w.what = "thermal") \/ Redraw(w)
         /\ KernelLimit(w) => w.of \in Item /\ w.value \in Nat
         /\ ConfigLimit(w) => w.of \in Item /\ w.value \in Nat
         /\ KernelGovernor(w) => w.of \in Cluster /\ w.value \in Governor
         /\ ConfigGovernor(w) => w.of \in Side /\ w.value \in Governor
         /\ w.to = "kernel" /\ w.what = "thermal" => w.of \in Side /\ w.value \in BOOLEAN
         /\ Redraw(w) => w.of \in Side
BY DEF Command, LimitCommand, KernelGovernorCommand, ConfigGovernorCommand, ThermalCommand, RedrawCommand,
       KernelLimit, ConfigLimit, KernelGovernor, ConfigGovernor, Redraw

LEMMA KindsDiffer ==
  ASSUME NEW w
  PROVE  /\ KernelLimit(w) => ~ConfigLimit(w) /\ ~AnyGovernor(w) /\ ~Redraw(w)
         /\ ConfigLimit(w) => ~KernelLimit(w) /\ ~AnyGovernor(w) /\ ~Redraw(w)
         /\ KernelGovernor(w) => ~ConfigGovernor(w) /\ ~AnyLimit(w) /\ ~Redraw(w)
         /\ ConfigGovernor(w) => ~KernelGovernor(w) /\ ~AnyLimit(w) /\ ~Redraw(w)
         /\ Redraw(w) => ~AnyLimit(w) /\ ~AnyGovernor(w)
         /\ w.to = "kernel" /\ w.what = "thermal" => ~AnyLimit(w) /\ ~AnyGovernor(w) /\ ~Redraw(w)
         /\ AnyLimit(w) => About(w) = SideOf[w.of.cl]
         /\ KernelGovernor(w) => About(w) = SideOf[w.of]
         /\ ConfigGovernor(w) => About(w) = w.of
BY DEF KernelLimit, ConfigLimit, KernelGovernor, ConfigGovernor, Redraw, AnyLimit, AnyGovernor, About

\* The rest of the commands are those that followed the first.
Shift ==
  /\ 1 \in Todo
  /\ \A j \in Todo' : j + 1 \in Todo /\ pending'[j] = pending[j + 1] /\ j + 1 # 1
  /\ \A j \in Todo : j # 1 => j - 1 \in Todo' /\ pending'[j - 1] = pending[j]
  /\ \A j \in Todo', k \in Todo : /\ j + 1 < k => k # 1 /\ j < k - 1
                                  /\ k < j + 1 /\ k # 1 => k - 1 < j
  /\ \A j \in Todo : ~(j < 1)
  /\ \A j \in Todo' : j + 1 = Len(pending) => j = Len(pending')

LEMMA StepShifts ==
  ASSUME Types, Step
  PROVE  Shift /\ Head(pending) = pending[1] /\ pending' \in Seq(Command) /\ pending[1] \in Command
<1>1. pending \in Seq(Command) /\ pending # <<>> /\ pending' = Tail(pending)
  BY DEF Types, Step
<1> PICK n \in Nat : n = Len(pending)
  BY <1>1
<1>2. n # 0 /\ Todo = 1..n
  BY <1>1 DEF Todo
<1>3. /\ pending' \in Seq(Command) /\ Len(pending') = n - 1
      /\ \A j \in 1..(n - 1) : pending'[j] = pending[j + 1]
      /\ Head(pending) = pending[1] /\ pending[1] \in Command
  BY <1>1, <1>2
<1>4. DOMAIN pending' = 1..(n - 1)
  BY <1>3
<1>5. Todo' = 1..(n - 1)
  BY <1>4 DEF Todo
<1>6. \A j \in Todo : j # 1 => j - 1 \in Todo' /\ pending'[j - 1] = pending[j]
  <2> SUFFICES ASSUME NEW j \in 1..n, j # 1 PROVE j - 1 \in 1..(n - 1) /\ pending'[j - 1] = pending[j]
    BY <1>2, <1>5
  <2>1. j - 1 \in 1..(n - 1) /\ (j - 1) + 1 = j
    OBVIOUS
  <2> QED BY <1>3, <2>1
<1>7. /\ \A j \in Todo', k \in Todo : /\ j + 1 < k => k # 1 /\ j < k - 1
                                      /\ k < j + 1 /\ k # 1 => k - 1 < j
      /\ \A j \in Todo : ~(j < 1)
      /\ \A j \in Todo' : j + 1 = Len(pending) => j = Len(pending')
  BY <1>2, <1>3, <1>5
<1> QED BY <1>2, <1>3, <1>5, <1>6, <1>7 DEF Shift

\* What every command leaves alone.
LEMMA StepFrame ==
  ASSUME ConsoleInv, Step
  PROVE  /\ Shift /\ running /\ saving /\ UNCHANGED <<running, mode, switchTag, saving, torn>>
         /\ ui' \in UI /\ SameSides(ui, ui') /\ ui'.priority = ui.priority
         /\ pending' \in Seq(Command)
         /\ PageInv' /\ MenusInv'
<1>1. /\ Shift /\ Head(pending) = pending[1] /\ pending' \in Seq(Command) /\ pending[1] \in Command
  BY StepShifts DEF ConsoleInv
<1>2. UNCHANGED <<running, mode, switchTag, saving, torn>> /\ pending # <<>>
  BY DEF Step
<1>3. saving /\ running
  BY <1>2 DEF ConsoleInv, PageInv
<1>4. ui \in UI /\ limit \in [Cluster -> Limits]
  BY DEF ConsoleInv, Types
<1>5. ui' \in UI /\ SameSides(ui, ui') /\ ui'.priority = ui.priority
  <2> DEFINE w == Head(pending)
  <2>1. InKernel(w) \/ InConfig(w) \/ InConsole(w)
    BY DEF Step
  <2>2. CASE InKernel(w) \/ InConfig(w)
    <3>1. ui' = ui
      BY <2>2 DEF InKernel, InConfig
    <3> QED BY <1>4, <3>1 DEF SameSides
  <2>3. CASE InConsole(w)
    <3>1. \/ ui' = DrawAll(ui, {"a53", "a72"}, LastDrawn["gpu"])
          \/ ui' = DrawAll(ui, {"t86x"}, LastDrawn["cpu"])
      BY <2>3 DEF InConsole
    <3>2. {"a53", "a72"} \in SUBSET Cluster /\ {"t86x"} \in SUBSET Cluster
          /\ LastDrawn["gpu"] \in Item /\ LastDrawn["cpu"] \in Item
      BY Sides DEF Cluster, Side
    <3>3. CASE ui' = DrawAll(ui, {"a53", "a72"}, LastDrawn["gpu"])
      BY <1>4, <3>2, <3>3, DrawAllIs
    <3>4. CASE ui' = DrawAll(ui, {"t86x"}, LastDrawn["cpu"])
      BY <1>4, <3>2, <3>4, DrawAllIs
    <3> QED BY <3>1, <3>3, <3>4
  <2> QED BY <2>1, <2>2, <2>3
<1>6. PageInv'
  <2>1. ui'.menu = ui.menu
    BY <1>5 DEF SameSides
  <2>2. mode # Closed /\ mode' = mode
    BY <1>2, <1>3 DEF ConsoleInv, PageInv
  <2>3. \A j \in Todo' : /\ mode[About(pending'[j])] # "main"
                         /\ mode[About(pending'[j])] = "limit" =>
                              AnyLimit(pending'[j]) /\ pending'[j].of = ui.menu[About(pending'[j])]
                         /\ mode[About(pending'[j])] = "governor" /\ AnyLimit(pending'[j]) => Ends(pending'[j])
    BY <1>1 DEF ConsoleInv, PageInv, Shift
  <2>4. /\ running' /\ saving'
        /\ \A s \in Side : mode'[s] # "main" => mode'[Other[s]] = "main"
    BY <1>2, <1>3 DEF ConsoleInv, PageInv
  <2> QED BY <2>1, <2>2, <2>3, <2>4 DEF PageInv
<1>7. MenusInv'
  BY <1>5 DEF ConsoleInv, MenusInv, MenusOf, SameSides
<1> QED BY <1>1, <1>2, <1>3, <1>5, <1>6, <1>7

\* The parts of the invariant that a command does not touch move with the rest.
LEMMA TablesShift ==
  ASSUME TablesInv, Shift, torn' = torn, InTable(limit'), InTable(config'.limit), Ordered(limit'),
         ~torn => Ordered(config'.limit)
  PROVE  TablesInv'
<1>1. \A j \in Todo' : AnyLimit(pending'[j]) => pending'[j].value \in 0..Last[pending'[j].of.cl]
  BY DEF TablesInv, Shift
<1> QED BY <1>1 DEF TablesInv, InTable, Ordered

\* What the limits need of the rest of the save, but for what the kernel holds.
LEMMA LimitsRest ==
  ASSUME LimitsInv, Shift
  PROVE  /\ \A j \in Todo' : KernelLimit(pending'[j]) =>
            \E k \in Todo' : j < k /\ ConfigLimit(pending'[k]) /\ pending'[k].of = pending'[j].of
         /\ \A j, k \in Todo' : AnyLimit(pending'[j]) /\ AnyLimit(pending'[k]) /\ pending'[j].of = pending'[k].of =>
            pending'[j].value = pending'[k].value
         /\ \A j \in Todo' : ~(KernelLimit(pending'[j]) /\ ~Ends(pending'[j]))
         /\ \A j \in Todo' : ConfigLimit(pending'[j]) /\ ~Ends(pending'[j]) => j = Len(pending')
<1>1. \A j \in Todo' : KernelLimit(pending'[j]) =>
        \E k \in Todo' : j < k /\ ConfigLimit(pending'[k]) /\ pending'[k].of = pending'[j].of
  BY DEF LimitsInv, Shift
<1>2. \A j, k \in Todo' : AnyLimit(pending'[j]) /\ AnyLimit(pending'[k]) /\ pending'[j].of = pending'[k].of =>
        pending'[j].value = pending'[k].value
  BY DEF LimitsInv, Shift
<1>3. \A j \in Todo' : ~(KernelLimit(pending'[j]) /\ ~Ends(pending'[j]))
  BY DEF LimitsInv, Shift
<1>4. \A j \in Todo' : ConfigLimit(pending'[j]) /\ ~Ends(pending'[j]) => j = Len(pending')
  BY DEF LimitsInv, Shift
<1> QED BY <1>1, <1>2, <1>3, <1>4

LEMMA LimitsShift ==
  ASSUME LimitsInv, Shift, torn' = torn, limit' = limit, config'.limit = config.limit, ~AnyLimit(pending[1])
  PROVE  LimitsInv'
<1>1. ASSUME ~torn
      PROVE  /\ \A j \in Todo' : ConfigLimit(pending'[j]) =>
                  \/ At(limit, pending'[j].of) = pending'[j].value
                  \/ \E k \in Todo' : k < j /\ KernelLimit(pending'[k]) /\ pending'[k].of = pending'[j].of
             /\ \A i \in Item : \/ At(limit, i) = At(config.limit, i)
                                \/ \E j \in Todo' : ConfigLimit(pending'[j]) /\ pending'[j].of = i
  BY <1>1 DEF LimitsInv, Shift, AnyLimit
<1> QED BY <1>1, LimitsRest DEF LimitsInv

LEMMA GovernorsShift ==
  ASSUME GovernorsInv, Shift, torn' = torn, governor' = governor, config'.governor = config.governor,
         ~AnyGovernor(pending[1])
  PROVE  GovernorsInv'
<1>1. \A j \in Todo' : KernelGovernor(pending'[j]) =>
        \E k \in Todo' : j < k /\ ConfigGovernor(pending'[k]) /\ pending'[k].of = SideOf[pending'[j].of]
  BY DEF GovernorsInv, Shift
<1>2. \A j, k \in Todo' : AnyGovernor(pending'[j]) /\ AnyGovernor(pending'[k]) =>
        pending'[j].value = pending'[k].value
  BY DEF GovernorsInv, Shift
<1>3. ASSUME ~torn
      PROVE  /\ \A j \in Todo' : ConfigGovernor(pending'[j]) =>
                  \A cl \in Cluster : SideOf[cl] = pending'[j].of =>
                    \/ governor[cl] = pending'[j].value
                    \/ \E k \in Todo' : k < j /\ KernelGovernor(pending'[k]) /\ pending'[k].of = cl
             /\ \A cl \in Cluster : \/ governor[cl] = config.governor[SideOf[cl]]
                                    \/ \E j \in Todo' : /\ ConfigGovernor(pending'[j])
                                                        /\ pending'[j].of = SideOf[cl]
  BY <1>3 DEF GovernorsInv, Shift, AnyGovernor
<1> QED BY <1>1, <1>2, <1>3 DEF GovernorsInv

LEMMA NarrowShift ==
  ASSUME NarrowInv, Shift, torn' = torn, limit' = limit, governor' = governor, config' = config,
         ~AnyLimit(pending[1])
  PROVE  NarrowInv'
<1> SUFFICES ASSUME ~torn PROVE NarrowInv'
  BY DEF NarrowInv
<1>1. \A j \in Todo' : KernelGovernor(pending'[j]) /\ pending'[j].value # "ondemand" =>
        \A i \in Item : i.cl = pending'[j].of =>
          \/ At(limit, i) = At(Unlimited, i)
          \/ \E k \in Todo' : k < j /\ KernelLimit(pending'[k]) /\ pending'[k].of = i
  BY DEF NarrowInv, Shift, AnyLimit
<1>2. \A j \in Todo' : ConfigGovernor(pending'[j]) /\ pending'[j].value # "ondemand" =>
        \A i \in Item : SideOf[i.cl] = pending'[j].of =>
          \/ At(config.limit, i) = At(Unlimited, i)
          \/ \E k \in Todo' : k < j /\ ConfigLimit(pending'[k]) /\ pending'[k].of = i
  BY DEF NarrowInv, Shift, AnyLimit
<1>3. \A j \in Todo' : AnyLimit(pending'[j]) /\ ~Ends(pending'[j]) =>
        /\ governor[pending'[j].of.cl] = "ondemand"
        /\ config.governor[SideOf[pending'[j].of.cl]] = "ondemand"
  BY DEF NarrowInv, Shift
<1> QED BY <1>1, <1>2, <1>3 DEF NarrowInv

LEMMA SeenShift ==
  ASSUME SeenInv, running, Shift, UNCHANGED <<limit, running, saving, mode, ui>>, ~Redraw(pending[1])
  PROVE  SeenInv'
<1>1. \A i \in Item :
        \/ At(ui.seen, i) = At(limit, i)
        \/ \E j \in Todo' : Redraw(pending'[j]) /\ pending'[j].of = SideOf[i.cl]
        \/ saving /\ mode[SideOf[i.cl]] = "limit" /\ ui.menu[SideOf[i.cl]] = i
  BY DEF SeenInv, Shift
<1>2. \A j \in Todo' : KernelLimit(pending'[j]) =>
        \/ mode[About(pending'[j])] = "limit"
        \/ \E k \in Todo' : j < k /\ Redraw(pending'[k]) /\ pending'[k].of = About(pending'[j])
  BY DEF SeenInv, Shift
<1> QED BY <1>1, <1>2 DEF SeenInv

\* What is shown stays as it was, or is of the page that will be drawn again.
LEMMA ShownShift ==
  ASSUME ShownInv, running, saving, mode # Closed, Shift, SameSides(ui, ui'), ui'.priority = ui.priority,
         UNCHANGED <<running, saving, mode, switchTag>>,
         \A s \in Side : Faithful(ui, s) => Faithful(ui, s)' \/ mode[s] = "governor",
         \A cl \in Cluster : \/ governor'[cl] = governor[cl]
                             \/ KernelGovernor(pending[1]) /\ pending[1].of = cl /\ governor'[cl] = pending[1].value,
         KernelGovernor(pending[1]) => governor'[pending[1].of] = pending[1].value
  PROVE  ShownInv'
<1>1. \A s \in Side : ui'.menu[s] = ui.menu[s] /\ ui'.shown[s] = ui.shown[s]
  BY DEF SameSides
<1>2. \A s \in Side : Faithful(ui, s)' \/ mode[s] = "governor"
  BY DEF ShownInv
<1>3. ASSUME NEW s \in Side, mode[s] = "governor", ui.menu[s] # NoItem
      PROVE  /\ \A j \in Todo' : KernelGovernor(pending'[j]) => pending'[j].value = "ondemand"
             /\ \/ governor'[Policy[s]] = "ondemand"
                \/ \E j \in Todo' : KernelGovernor(pending'[j]) /\ pending'[j].of = Policy[s]
  <2>1. /\ \A j \in Todo : KernelGovernor(pending[j]) => pending[j].value = "ondemand"
        /\ \/ governor[Policy[s]] = "ondemand"
           \/ \E j \in Todo : KernelGovernor(pending[j]) /\ pending[j].of = Policy[s]
    BY <1>3 DEF ShownInv
  <2>2. Policy[s] \in Cluster
    BY Sides
  <2> QED BY <2>1, <2>2 DEF Shift
<1>4. StandsInv'
  <2>1. StandsInv
    BY DEF ShownInv
  <2> QED BY <1>1, <2>1 DEF StandsInv, IsManual
<1> QED BY <1>1, <1>2, <1>3, <1>4 DEF ShownInv

LEMMA AboutIsSide ==
  ASSUME NEW w \in Command
  PROVE  About(w) \in Side
BY KindsOfCommand, KindsDiffer, Sides, AtIsField DEF About, Item, AnyLimit, KernelLimit, ConfigLimit,
   KernelGovernor, ConfigGovernor, Redraw

\* The page that a save is of.
LEMMA OpenPage ==
  ASSUME ConsoleInv, NEW j \in Todo
  PROVE  /\ pending[j] \in Command /\ About(pending[j]) \in Side
         /\ mode[About(pending[j])] \in {"governor", "limit"}
         /\ \A s \in Side : mode[s] # "main" => s = About(pending[j])
<1>1. pending[j] \in Command
  BY Positions DEF ConsoleInv, Types, Todo
<1>2. About(pending[j]) \in Side
  BY <1>1, AboutIsSide
<1>3. mode[About(pending[j])] # "main"
  BY DEF ConsoleInv, PageInv
<1> QED BY <1>1, <1>2, <1>3, Sides DEF ConsoleInv, PageInv, Types, Page

\* The commands of a governor page write ends of the tables alone.
LEMMA GovernorsWriteEnds ==
  ASSUME ConsoleInv, NEW j \in Todo, AnyGovernor(pending[j])
  PROVE  /\ mode[About(pending[j])] = "governor"
         /\ \A k \in Todo : AnyLimit(pending[k]) => Ends(pending[k])
<1>1. ~AnyLimit(pending[j])
  BY KindsDiffer DEF AnyGovernor
<1>2. mode[About(pending[j])] = "governor"
  BY <1>1, OpenPage DEF ConsoleInv, PageInv
<1>3. ASSUME NEW k \in Todo, AnyLimit(pending[k]) PROVE Ends(pending[k])
  <2>1. About(pending[k]) = About(pending[j])
    BY OpenPage
  <2> QED BY <1>2, <1>3, <2>1 DEF ConsoleInv, PageInv
<1> QED BY <1>2, <1>3

LEMMA StepLimit ==
  ASSUME ConsoleInv, Step, KernelLimit(pending[1])
  PROVE  ConsoleInv'
<1> DEFINE w == pending[1]
           i == w.of
           v == w.value
<1>1. /\ Shift /\ running /\ saving /\ UNCHANGED <<running, mode, switchTag, saving, torn>>
      /\ ui' \in UI /\ SameSides(ui, ui') /\ ui'.priority = ui.priority
      /\ pending' \in Seq(Command) /\ PageInv' /\ MenusInv'
  BY StepFrame
<1>2. Head(pending) = w /\ w \in Command /\ 1 \in Todo
  BY StepShifts DEF ConsoleInv, Shift
<1>3. i \in Item /\ v \in Nat /\ v \in 0..Last[i.cl]
  BY <1>2, KindsOfCommand DEF ConsoleInv, TablesInv, AnyLimit
<1>4. limit \in [Cluster -> Limits] /\ config.limit \in [Cluster -> Limits] /\ InTable(limit) /\ Ordered(limit)
  BY DEF ConsoleInv, Types, TablesInv
<1>5. Accepts(limit, i.cl, i.bound, v)
  <2>1. CASE Ends(w)
    BY <1>3, <1>4, <2>1, EndsAreAccepted DEF Ends
  <2>2. CASE ~Ends(w)
    BY <1>2, <2>2 DEF ConsoleInv, LimitsInv
  <2> QED BY <2>1, <2>2
<1>6. limit' = Written(limit, i, v) /\ UNCHANGED <<governor, thermal, config, ui>>
  BY <1>2, <1>5 DEF Step, InKernel, InConfig, InConsole, KernelLimit, Written
<1>7. limit' \in [Cluster -> Limits] /\ \A k \in Item : At(limit', k) = IF k = i THEN v ELSE At(limit, k)
  BY <1>3, <1>4, <1>6, WriteLimit
<1>8. Ordered(limit')
  BY <1>3, <1>4, <1>5, <1>6, AcceptsKeepsOrder
<1>9. InTable(limit')
  BY <1>3, <1>4, <1>7, OrderOfItems
<1>10. Types'
  BY <1>1, <1>6, <1>7 DEF ConsoleInv, Types
<1>11. TablesInv'
  BY <1>1, <1>6, <1>8, <1>9, TablesShift DEF ConsoleInv, TablesInv
<1>12. ~ConfigLimit(w) /\ ~AnyGovernor(w) /\ ~Redraw(w) /\ About(w) = SideOf[i.cl] /\ AnyLimit(w)
  BY KindsDiffer DEF AnyLimit
<1> HIDE DEF w, i, v
<1>13. LimitsInv'
  <2>1. ASSUME ~torn, NEW j \in Todo', ConfigLimit(pending'[j])
        PROVE  \/ At(limit', pending'[j].of) = pending'[j].value
               \/ \E k \in Todo' : k < j /\ KernelLimit(pending'[k]) /\ pending'[k].of = pending'[j].of
    <3>1. j + 1 \in Todo /\ pending'[j] = pending[j + 1]
      BY <1>1 DEF Shift
    <3>2. pending'[j].of \in Item
      BY <2>1, <3>1, OpenPage, KindsOfCommand
    <3>3. CASE pending'[j].of = i
      <4>1. pending'[j].value = v
        BY <1>2, <1>12, <2>1, <3>1, <3>3 DEF ConsoleInv, LimitsInv, AnyLimit, w, i, v
      <4> QED BY <1>3, <1>7, <3>3, <4>1
    <3>4. CASE pending'[j].of # i
      <4>1. \/ At(limit, pending'[j].of) = pending'[j].value
            \/ \E k \in Todo : k < j + 1 /\ KernelLimit(pending[k]) /\ pending[k].of = pending'[j].of
        BY <2>1, <3>1 DEF ConsoleInv, LimitsInv
      <4> QED BY <1>1, <1>7, <3>2, <3>4, <4>1 DEF Shift, i, w
    <3> QED BY <3>3, <3>4
  <2>2. ASSUME ~torn, NEW k \in Item
        PROVE  \/ At(limit', k) = At(config.limit, k)
               \/ \E j \in Todo' : ConfigLimit(pending'[j]) /\ pending'[j].of = k
    <3>1. CASE k = i
      <4>1. PICK j \in Todo : 1 < j /\ ConfigLimit(pending[j]) /\ pending[j].of = i
        BY <1>2 DEF ConsoleInv, LimitsInv, w, i
      <4> QED BY <1>1, <3>1, <4>1 DEF Shift
    <3>2. CASE k # i
      <4>1. \/ At(limit, k) = At(config.limit, k)
            \/ \E j \in Todo : ConfigLimit(pending[j]) /\ pending[j].of = k
        BY <2>2 DEF ConsoleInv, LimitsInv
      <4> QED BY <1>1, <1>7, <1>12, <3>2, <4>1 DEF Shift, w
    <3> QED BY <3>1, <3>2
  <2> QED BY <1>1, <1>6, <2>1, <2>2, LimitsRest DEF ConsoleInv, LimitsInv
<1>14. GovernorsInv'
  BY <1>1, <1>6, <1>12, GovernorsShift DEF ConsoleInv, w
<1>15. NarrowInv'
  <2> SUFFICES ASSUME ~torn PROVE NarrowInv'
    BY <1>1 DEF NarrowInv
  <2>1. \A cl \in Cluster : governor[cl] # "ondemand" => limit'[cl] = Unlimited[cl]
    <3> SUFFICES ASSUME NEW cl \in Cluster, governor[cl] # "ondemand", NEW k \in Item, k.cl = cl
                 PROVE  At(limit', k) = At(Unlimited, k)
      BY <1>7, UnlimitedIs, SameLimits
    <3>1. At(limit, k) = At(Unlimited, k)
      BY <1>4, UnlimitedIs, SameLimits DEF ConsoleInv, NarrowInv
    <3>2. CASE k = i
      <4>1. Ends(w)
        BY <1>2, <1>12, <3>2 DEF ConsoleInv, NarrowInv, w, i
      <4> QED BY <1>7, <3>2, <4>1 DEF Ends, i, v
    <3>3. CASE k # i
      BY <1>7, <3>1, <3>3
    <3> QED BY <3>2, <3>3
  <2>2. ASSUME NEW j \in Todo', KernelGovernor(pending'[j]), pending'[j].value # "ondemand",
               NEW k \in Item, k.cl = pending'[j].of
        PROVE  \/ At(limit', k) = At(Unlimited, k)
               \/ \E l \in Todo' : l < j /\ KernelLimit(pending'[l]) /\ pending'[l].of = k
    <3>1. j + 1 \in Todo /\ pending'[j] = pending[j + 1]
      BY <1>1 DEF Shift
    <3>2. Ends(w)
      BY <1>2, <1>12, <2>2, <3>1, GovernorsWriteEnds DEF AnyGovernor, w
    <3>3. CASE k = i
      BY <1>7, <3>2, <3>3 DEF Ends, i, v
    <3>4. CASE k # i
      <4>1. \/ At(limit, k) = At(Unlimited, k)
            \/ \E l \in Todo : l < j + 1 /\ KernelLimit(pending[l]) /\ pending[l].of = k
        BY <2>2, <3>1 DEF ConsoleInv, NarrowInv
      <4> QED BY <1>1, <1>7, <3>4, <4>1 DEF Shift, i, w
    <3> QED BY <3>3, <3>4
  <2>3. ASSUME NEW j \in Todo', ConfigGovernor(pending'[j]), pending'[j].value # "ondemand",
               NEW k \in Item, SideOf[k.cl] = pending'[j].of
        PROVE  \/ At(config.limit, k) = At(Unlimited, k)
               \/ \E l \in Todo' : l < j /\ ConfigLimit(pending'[l]) /\ pending'[l].of = k
    <3>1. j + 1 \in Todo /\ pending'[j] = pending[j + 1]
      BY <1>1 DEF Shift
    <3>2. \/ At(config.limit, k) = At(Unlimited, k)
          \/ \E l \in Todo : l < j + 1 /\ ConfigLimit(pending[l]) /\ pending[l].of = k
      BY <2>3, <3>1 DEF ConsoleInv, NarrowInv
    <3> QED BY <1>1, <1>12, <3>2 DEF Shift, w
  <2>4. \A j \in Todo' : AnyLimit(pending'[j]) /\ ~Ends(pending'[j]) =>
          /\ governor[pending'[j].of.cl] = "ondemand"
          /\ config.governor[SideOf[pending'[j].of.cl]] = "ondemand"
    BY <1>1 DEF ConsoleInv, NarrowInv, Shift
  <2>5. \A cl \in Cluster : config.governor[SideOf[cl]] # "ondemand" => config.limit[cl] = Unlimited[cl]
    BY DEF ConsoleInv, NarrowInv
  <2> QED BY <1>6, <2>1, <2>2, <2>3, <2>4, <2>5 DEF NarrowInv
<1>16. SeenInv'
  <2>1. ASSUME NEW k \in Item
        PROVE  \/ At(ui.seen, k) = At(limit', k)
               \/ \E j \in Todo' : Redraw(pending'[j]) /\ pending'[j].of = SideOf[k.cl]
               \/ saving /\ mode[SideOf[k.cl]] = "limit" /\ ui.menu[SideOf[k.cl]] = k
    <3>1. CASE k = i
      <4>1. \/ mode[About(w)] = "limit"
            \/ \E j \in Todo : 1 < j /\ Redraw(pending[j]) /\ pending[j].of = About(w)
        BY <1>1, <1>2 DEF ConsoleInv, SeenInv, w
      <4>2. mode[About(w)] = "limit" => i = ui.menu[About(w)]
        BY <1>2 DEF ConsoleInv, PageInv, w, i
      <4> QED BY <1>1, <1>12, <3>1, <4>1, <4>2 DEF Shift
    <3>2. CASE k # i
      <4>1. \/ At(ui.seen, k) = At(limit, k)
            \/ \E j \in Todo : Redraw(pending[j]) /\ pending[j].of = SideOf[k.cl]
            \/ saving /\ mode[SideOf[k.cl]] = "limit" /\ ui.menu[SideOf[k.cl]] = k
        BY <1>1 DEF ConsoleInv, SeenInv
      <4> QED BY <1>1, <1>7, <1>12, <3>2, <4>1 DEF Shift, w
    <3> QED BY <3>1, <3>2
  <2>2. \A j \in Todo' : KernelLimit(pending'[j]) =>
          \/ mode[About(pending'[j])] = "limit"
          \/ \E k \in Todo' : j < k /\ Redraw(pending'[k]) /\ pending'[k].of = About(pending'[j])
    BY <1>1 DEF ConsoleInv, SeenInv, Shift
  <2> QED BY <1>1, <1>6, <2>1, <2>2 DEF SeenInv
<1>17. ShownInv'
  <2>1. ASSUME NEW s \in Side, Faithful(ui, s), mode[s] # "governor" PROVE Faithful(ui, s)'
    <3>1. ui.shown[s] = Automatic => ~Limited(limit', s)
      <4> SUFFICES ASSUME ui.shown[s] = Automatic, NEW k \in Item, SideOf[k.cl] = s
                   PROVE  At(limit', k) = At(Unlimited, k)
        BY <1>7, NotLimited
      <4>1. At(limit, k) = At(Unlimited, k)
        BY <1>4, <2>1, NotLimited DEF Faithful
      <4>2. SideOf[i.cl] # s
        <5>1. SUFFICES ASSUME SideOf[i.cl] = s PROVE FALSE
          OBVIOUS
        <5>2. mode[s] = "limit"
          BY <1>2, <1>12, <2>1, <5>1, OpenPage DEF w
        <5>3. IsManual(ui, s)
          BY <1>1, <5>2 DEF ConsoleInv, ShownInv, StandsInv
        <5> QED BY <5>3, GovernorsAre DEF IsManual
      <4> QED BY <1>7, <4>1, <4>2
    <3> QED BY <1>6, <2>1, <3>1 DEF Faithful, Limited
  <2>2. mode # Closed
    BY <1>1 DEF ConsoleInv, PageInv
  <2> QED BY <1>1, <1>6, <1>12, <2>1, <2>2, ShownShift DEF ConsoleInv, AnyGovernor, w
<1> QED BY <1>1, <1>10, <1>11, <1>13, <1>14, <1>15, <1>16, <1>17 DEF ConsoleInv

\* The parts of the invariant that only see what the kernel and the screen hold.
LEMMA ScreenShift ==
  ASSUME ConsoleInv, Step, Shift, UNCHANGED <<limit, governor, ui>>, ~KernelGovernor(pending[1]), ~Redraw(pending[1])
  PROVE  SeenInv' /\ ShownInv'
<1>1. /\ running /\ saving /\ UNCHANGED <<running, mode, switchTag, saving, torn>> /\ mode # Closed
  BY StepFrame DEF ConsoleInv, PageInv
<1>2. SeenInv'
  BY <1>1, SeenShift DEF ConsoleInv
<1>3. \A s \in Side : Faithful(ui, s) => Faithful(ui, s)'
  BY DEF Faithful, Limited
<1>4. SameSides(ui, ui') /\ ui'.priority = ui.priority
  BY DEF SameSides
<1> QED BY <1>1, <1>2, <1>3, <1>4, ShownShift DEF ConsoleInv

LEMMA StepConfigLimit ==
  ASSUME ConsoleInv, Step, ConfigLimit(pending[1])
  PROVE  ConsoleInv'
<1> DEFINE w == pending[1]
           i == w.of
           v == w.value
           c == config.limit
<1>1. /\ Shift /\ running /\ saving /\ UNCHANGED <<running, mode, switchTag, saving, torn>>
      /\ ui' \in UI /\ SameSides(ui, ui') /\ ui'.priority = ui.priority
      /\ pending' \in Seq(Command) /\ PageInv' /\ MenusInv'
  BY StepFrame
<1>2. Head(pending) = w /\ w \in Command /\ 1 \in Todo
  BY StepShifts DEF ConsoleInv, Shift
<1>3. i \in Item /\ v \in Nat /\ v \in 0..Last[i.cl]
  BY <1>2, KindsOfCommand DEF ConsoleInv, TablesInv, AnyLimit
<1>4. /\ limit \in [Cluster -> Limits] /\ c \in [Cluster -> Limits]
      /\ config \in [limit : [Cluster -> Limits], governor : [Side -> Governor]]
      /\ InTable(limit) /\ InTable(c) /\ Ordered(limit) /\ (~torn => Ordered(c))
  BY DEF ConsoleInv, Types, TablesInv
<1>5. /\ config' = [config EXCEPT !.limit = Written(c, i, v)]
      /\ UNCHANGED <<limit, governor, thermal, ui>>
  BY <1>2 DEF Step, InKernel, InConfig, InConsole, ConfigLimit, Written, kernel
<1>6. Written(c, i, v) \in [Cluster -> Limits] /\ \A k \in Item : At(Written(c, i, v), k) = IF k = i THEN v ELSE At(c, k)
  BY <1>3, <1>4, WriteLimit
<1>7. /\ config' \in [limit : [Cluster -> Limits], governor : [Side -> Governor]]
      /\ config'.limit = Written(c, i, v) /\ config'.governor = config.governor
  BY <1>4, <1>5, <1>6
<1>8. /\ config'.limit \in [Cluster -> Limits]
      /\ \A k \in Item : At(config'.limit, k) = IF k = i THEN v ELSE At(c, k)
  BY <1>6, <1>7
<1>9. InTable(config'.limit)
  BY <1>3, <1>4, <1>8, OrderOfItems
<1>10. ~KernelLimit(w) /\ ~AnyGovernor(w) /\ ~Redraw(w) /\ About(w) = SideOf[i.cl] /\ AnyLimit(w)
  BY KindsDiffer DEF AnyLimit
\* The kernel holds the value already.
<1>11. ~torn => At(limit, i) = v
  <2> SUFFICES ASSUME ~torn, At(limit, i) # v PROVE FALSE
    OBVIOUS
  <2>1. \E k \in Todo : k < 1 /\ KernelLimit(pending[k]) /\ pending[k].of = i
    BY <1>2 DEF ConsoleInv, LimitsInv
  <2> QED BY <1>1, <2>1 DEF Shift
<1>12. ~torn => Ordered(config'.limit)
  <2> SUFFICES ASSUME ~torn PROVE Ordered(config'.limit)
    OBVIOUS
  <2>1. CASE Ends(w)
    <3>1. Accepts(c, i.cl, i.bound, v)
      BY <1>3, <1>4, <2>1, EndsAreAccepted DEF Ends
    <3> QED BY <1>3, <1>4, <1>7, <3>1, AcceptsKeepsOrder
  <2>2. CASE ~Ends(w)
    <3>1. 1 = Len(pending)
      BY <1>2, <2>2 DEF ConsoleInv, LimitsInv
    <3>2. \A j \in Todo : j = 1
      BY <3>1, Positions DEF ConsoleInv, Types, Todo
    <3>3. \A k \in Item : k # i => At(limit, k) = At(c, k)
      BY <3>2 DEF ConsoleInv, LimitsInv
    <3>4. \A k \in Item : At(config'.limit, k) = At(limit, k)
      BY <1>8, <1>11, <3>3
    <3>5. config'.limit = limit
      BY <1>4, <1>8, <3>4, AllSameLimits
    <3> QED BY <1>4, <3>5
  <2> QED BY <2>1, <2>2
<1>13. Types'
  BY <1>1, <1>5, <1>7 DEF ConsoleInv, Types
<1>14. TablesInv'
  BY <1>1, <1>4, <1>5, <1>9, <1>12, TablesShift DEF ConsoleInv
<1> HIDE DEF w, i, v, c
<1>15. LimitsInv'
  <2>1. ASSUME ~torn, NEW j \in Todo', ConfigLimit(pending'[j])
        PROVE  \/ At(limit, pending'[j].of) = pending'[j].value
               \/ \E k \in Todo' : k < j /\ KernelLimit(pending'[k]) /\ pending'[k].of = pending'[j].of
    <3>1. j + 1 \in Todo /\ pending'[j] = pending[j + 1]
      BY <1>1 DEF Shift
    <3>2. \/ At(limit, pending'[j].of) = pending'[j].value
          \/ \E k \in Todo : k < j + 1 /\ KernelLimit(pending[k]) /\ pending[k].of = pending'[j].of
      BY <2>1, <3>1 DEF ConsoleInv, LimitsInv
    <3> QED BY <1>1, <1>10, <3>2 DEF Shift, w
  <2>2. ASSUME ~torn, NEW k \in Item
        PROVE  \/ At(limit, k) = At(config'.limit, k)
               \/ \E j \in Todo' : ConfigLimit(pending'[j]) /\ pending'[j].of = k
    <3>1. CASE k = i
      BY <1>8, <1>11, <2>2, <3>1
    <3>2. CASE k # i
      <4>1. \/ At(limit, k) = At(c, k)
            \/ \E j \in Todo : ConfigLimit(pending[j]) /\ pending[j].of = k
        BY <2>2 DEF ConsoleInv, LimitsInv, c
      <4> QED BY <1>1, <1>8, <3>2, <4>1 DEF Shift, w, i
    <3> QED BY <3>1, <3>2
  <2> QED BY <1>1, <1>5, <2>1, <2>2, LimitsRest DEF ConsoleInv, LimitsInv
<1>16. GovernorsInv'
  BY <1>1, <1>5, <1>7, <1>10, GovernorsShift DEF ConsoleInv, w
<1>17. NarrowInv'
  <2> SUFFICES ASSUME ~torn PROVE NarrowInv'
    BY <1>1 DEF NarrowInv
  <2>1. \A cl \in Cluster : config.governor[SideOf[cl]] # "ondemand" => config'.limit[cl] = Unlimited[cl]
    <3> SUFFICES ASSUME NEW cl \in Cluster, config.governor[SideOf[cl]] # "ondemand", NEW k \in Item, k.cl = cl
                 PROVE  At(config'.limit, k) = At(Unlimited, k)
      BY <1>8, UnlimitedIs, SameLimits
    <3>1. At(c, k) = At(Unlimited, k)
      BY <1>4, UnlimitedIs, SameLimits DEF ConsoleInv, NarrowInv, c
    <3>2. CASE k = i
      <4>1. Ends(w)
        BY <1>2, <1>10, <3>2 DEF ConsoleInv, NarrowInv, w, i
      <4> QED BY <1>8, <3>2, <4>1 DEF Ends, i, v
    <3>3. CASE k # i
      BY <1>8, <3>1, <3>3
    <3> QED BY <3>2, <3>3
  <2>2. ASSUME NEW j \in Todo', ConfigGovernor(pending'[j]), pending'[j].value # "ondemand",
               NEW k \in Item, SideOf[k.cl] = pending'[j].of
        PROVE  \/ At(config'.limit, k) = At(Unlimited, k)
               \/ \E l \in Todo' : l < j /\ ConfigLimit(pending'[l]) /\ pending'[l].of = k
    <3>1. j + 1 \in Todo /\ pending'[j] = pending[j + 1]
      BY <1>1 DEF Shift
    <3>2. Ends(w)
      BY <1>2, <1>10, <2>2, <3>1, GovernorsWriteEnds DEF AnyGovernor, w
    <3>3. CASE k = i
      BY <1>8, <3>2, <3>3 DEF Ends, i, v
    <3>4. CASE k # i
      <4>1. \/ At(c, k) = At(Unlimited, k)
            \/ \E l \in Todo : l < j + 1 /\ ConfigLimit(pending[l]) /\ pending[l].of = k
        BY <2>2, <3>1 DEF ConsoleInv, NarrowInv, c
      <4> QED BY <1>1, <1>8, <3>4, <4>1 DEF Shift, i, w
    <3> QED BY <3>3, <3>4
  <2>3. ASSUME NEW j \in Todo', KernelGovernor(pending'[j]), pending'[j].value # "ondemand",
               NEW k \in Item, k.cl = pending'[j].of
        PROVE  \/ At(limit, k) = At(Unlimited, k)
               \/ \E l \in Todo' : l < j /\ KernelLimit(pending'[l]) /\ pending'[l].of = k
    <3>1. j + 1 \in Todo /\ pending'[j] = pending[j + 1]
      BY <1>1 DEF Shift
    <3>2. \/ At(limit, k) = At(Unlimited, k)
          \/ \E l \in Todo : l < j + 1 /\ KernelLimit(pending[l]) /\ pending[l].of = k
      BY <2>3, <3>1 DEF ConsoleInv, NarrowInv
    <3> QED BY <1>1, <1>10, <3>2 DEF Shift, w
  <2>4. \A j \in Todo' : AnyLimit(pending'[j]) /\ ~Ends(pending'[j]) =>
          /\ governor[pending'[j].of.cl] = "ondemand"
          /\ config.governor[SideOf[pending'[j].of.cl]] = "ondemand"
    BY <1>1 DEF ConsoleInv, NarrowInv, Shift
  <2>5. \A cl \in Cluster : governor[cl] # "ondemand" => limit[cl] = Unlimited[cl]
    BY DEF ConsoleInv, NarrowInv
  <2> QED BY <1>5, <1>7, <2>1, <2>2, <2>3, <2>4, <2>5 DEF NarrowInv
<1>18. SeenInv' /\ ShownInv'
  BY <1>1, <1>5, <1>10, ScreenShift DEF AnyGovernor, w
<1> QED BY <1>1, <1>13, <1>14, <1>15, <1>16, <1>17, <1>18 DEF ConsoleInv

LEMMA StepThermal ==
  ASSUME ConsoleInv, Step, pending[1].to = "kernel", pending[1].what = "thermal"
  PROVE  ConsoleInv'
<1> DEFINE w == pending[1]
<1>1. /\ Shift /\ running /\ saving /\ UNCHANGED <<running, mode, switchTag, saving, torn>>
      /\ ui' \in UI /\ SameSides(ui, ui') /\ ui'.priority = ui.priority
      /\ pending' \in Seq(Command) /\ PageInv' /\ MenusInv'
  BY StepFrame
<1>2. Head(pending) = w /\ w \in Command
  BY StepShifts DEF ConsoleInv
<1>3. w.of \in Side /\ w.value \in BOOLEAN /\ ~AnyLimit(w) /\ ~AnyGovernor(w) /\ ~Redraw(w)
  BY <1>2, KindsOfCommand, KindsDiffer
<1>4. thermal' = [thermal EXCEPT ![w.of] = w.value] /\ UNCHANGED <<limit, governor, config, ui>>
  BY <1>2 DEF Step, InKernel, InConfig, InConsole
<1>5. Types'
  BY <1>1, <1>3, <1>4 DEF ConsoleInv, Types
<1>6. TablesInv'
  BY <1>1, <1>4, TablesShift DEF ConsoleInv, TablesInv
<1>7. LimitsInv'
  BY <1>1, <1>3, <1>4, LimitsShift DEF ConsoleInv
<1>8. GovernorsInv'
  BY <1>1, <1>3, <1>4, GovernorsShift DEF ConsoleInv
<1>9. NarrowInv'
  BY <1>1, <1>3, <1>4, NarrowShift DEF ConsoleInv
<1>10. SeenInv' /\ ShownInv'
  BY <1>1, <1>3, <1>4, ScreenShift DEF AnyGovernor
<1> QED BY <1>1, <1>5, <1>6, <1>7, <1>8, <1>9, <1>10 DEF ConsoleInv

LEMMA StepGovernor ==
  ASSUME ConsoleInv, Step, KernelGovernor(pending[1])
  PROVE  ConsoleInv'
<1> DEFINE w == pending[1]
           c == w.of
           g == w.value
<1>1. /\ Shift /\ running /\ saving /\ UNCHANGED <<running, mode, switchTag, saving, torn>>
      /\ ui' \in UI /\ SameSides(ui, ui') /\ ui'.priority = ui.priority
      /\ pending' \in Seq(Command) /\ PageInv' /\ MenusInv'
  BY StepFrame
<1>2. Head(pending) = w /\ w \in Command /\ 1 \in Todo
  BY StepShifts DEF ConsoleInv, Shift
<1>3. c \in Cluster /\ g \in Governor
  BY <1>2, KindsOfCommand
<1>4. ~ConfigGovernor(w) /\ ~AnyLimit(w) /\ ~Redraw(w) /\ About(w) = SideOf[c] /\ AnyGovernor(w)
  BY KindsDiffer DEF AnyGovernor
<1>5. governor' = [governor EXCEPT ![c] = g] /\ UNCHANGED <<limit, thermal, config, ui>>
  BY <1>2 DEF Step, InKernel, InConfig, InConsole, KernelGovernor
<1>6. governor' \in [Cluster -> Governor] /\ \A cl \in Cluster : governor'[cl] = IF cl = c THEN g ELSE governor[cl]
  BY <1>3, <1>5 DEF ConsoleInv, Types
<1>7. /\ mode[SideOf[c]] = "governor"
      /\ \A k \in Todo : AnyLimit(pending[k]) => Ends(pending[k])
  BY <1>2, <1>4, GovernorsWriteEnds
<1>8. Types'
  BY <1>1, <1>5, <1>6 DEF ConsoleInv, Types
<1>9. TablesInv'
  BY <1>1, <1>5, TablesShift DEF ConsoleInv, TablesInv
<1>10. LimitsInv'
  BY <1>1, <1>4, <1>5, LimitsShift DEF ConsoleInv
<1> HIDE DEF w, c, g
<1>11. GovernorsInv'
  <2>1. \A j \in Todo' : KernelGovernor(pending'[j]) =>
          \E k \in Todo' : j < k /\ ConfigGovernor(pending'[k]) /\ pending'[k].of = SideOf[pending'[j].of]
    BY <1>1 DEF ConsoleInv, GovernorsInv, Shift
  <2>2. \A j, k \in Todo' : AnyGovernor(pending'[j]) /\ AnyGovernor(pending'[k]) =>
          pending'[j].value = pending'[k].value
    BY <1>1 DEF ConsoleInv, GovernorsInv, Shift
  <2>3. ASSUME ~torn, NEW j \in Todo', ConfigGovernor(pending'[j]), NEW cl \in Cluster, SideOf[cl] = pending'[j].of
        PROVE  \/ governor'[cl] = pending'[j].value
               \/ \E k \in Todo' : k < j /\ KernelGovernor(pending'[k]) /\ pending'[k].of = cl
    <3>1. j + 1 \in Todo /\ pending'[j] = pending[j + 1]
      BY <1>1 DEF Shift
    <3>2. CASE cl = c
      <4>1. g = pending'[j].value
        BY <1>2, <1>4, <2>3, <3>1 DEF ConsoleInv, GovernorsInv, AnyGovernor, w, g
      <4> QED BY <1>6, <3>2, <4>1
    <3>3. CASE cl # c
      <4>1. \/ governor[cl] = pending'[j].value
            \/ \E k \in Todo : k < j + 1 /\ KernelGovernor(pending[k]) /\ pending[k].of = cl
        BY <2>3, <3>1 DEF ConsoleInv, GovernorsInv
      <4> QED BY <1>1, <1>6, <3>3, <4>1 DEF Shift, w, c
    <3> QED BY <3>2, <3>3
  <2>4. ASSUME ~torn, NEW cl \in Cluster
        PROVE  \/ governor'[cl] = config.governor[SideOf[cl]]
               \/ \E j \in Todo' : ConfigGovernor(pending'[j]) /\ pending'[j].of = SideOf[cl]
    <3>1. CASE cl = c
      <4>1. PICK k \in Todo : 1 < k /\ ConfigGovernor(pending[k]) /\ pending[k].of = SideOf[c]
        BY <1>2 DEF ConsoleInv, GovernorsInv, w, c
      <4> QED BY <1>1, <3>1, <4>1 DEF Shift
    <3>2. CASE cl # c
      <4>1. \/ governor[cl] = config.governor[SideOf[cl]]
            \/ \E j \in Todo : ConfigGovernor(pending[j]) /\ pending[j].of = SideOf[cl]
        BY <2>4 DEF ConsoleInv, GovernorsInv
      <4> QED BY <1>1, <1>4, <1>6, <3>2, <4>1 DEF Shift, w
    <3> QED BY <3>1, <3>2
  <2> QED BY <1>1, <1>5, <2>1, <2>2, <2>3, <2>4 DEF GovernorsInv
<1>12. NarrowInv'
  <2> SUFFICES ASSUME ~torn PROVE NarrowInv'
    BY <1>1 DEF NarrowInv
  <2>1. ASSUME NEW cl \in Cluster, governor'[cl] # "ondemand" PROVE limit[cl] = Unlimited[cl]
    <3>1. CASE cl = c
      <4>1. g # "ondemand"
        BY <1>6, <2>1, <3>1
      <4>2. ASSUME NEW i \in Item, i.cl = cl PROVE At(limit, i) = At(Unlimited, i)
        <5>1. \/ At(limit, i) = At(Unlimited, i)
              \/ \E k \in Todo : k < 1 /\ KernelLimit(pending[k]) /\ pending[k].of = i
          BY <1>2, <3>1, <4>1, <4>2 DEF ConsoleInv, NarrowInv, w, c, g
        <5> QED BY <1>1, <5>1 DEF Shift
      <4> QED BY <4>2, UnlimitedIs, SameLimits DEF ConsoleInv, Types
    <3>2. CASE cl # c
      BY <1>6, <2>1, <3>2 DEF ConsoleInv, NarrowInv
    <3> QED BY <3>1, <3>2
  <2>2. ASSUME NEW j \in Todo', KernelGovernor(pending'[j]), pending'[j].value # "ondemand",
               NEW k \in Item, k.cl = pending'[j].of
        PROVE  \/ At(limit, k) = At(Unlimited, k)
               \/ \E l \in Todo' : l < j /\ KernelLimit(pending'[l]) /\ pending'[l].of = k
    <3>1. j + 1 \in Todo /\ pending'[j] = pending[j + 1]
      BY <1>1 DEF Shift
    <3>2. \/ At(limit, k) = At(Unlimited, k)
          \/ \E l \in Todo : l < j + 1 /\ KernelLimit(pending[l]) /\ pending[l].of = k
      BY <2>2, <3>1 DEF ConsoleInv, NarrowInv
    <3> QED BY <1>1, <1>4, <3>2 DEF Shift, w, AnyLimit
  <2>3. ASSUME NEW j \in Todo', ConfigGovernor(pending'[j]), pending'[j].value # "ondemand",
               NEW k \in Item, SideOf[k.cl] = pending'[j].of
        PROVE  \/ At(config.limit, k) = At(Unlimited, k)
               \/ \E l \in Todo' : l < j /\ ConfigLimit(pending'[l]) /\ pending'[l].of = k
    <3>1. j + 1 \in Todo /\ pending'[j] = pending[j + 1]
      BY <1>1 DEF Shift
    <3>2. \/ At(config.limit, k) = At(Unlimited, k)
          \/ \E l \in Todo : l < j + 1 /\ ConfigLimit(pending[l]) /\ pending[l].of = k
      BY <2>3, <3>1 DEF ConsoleInv, NarrowInv
    <3> QED BY <1>1, <1>4, <3>2 DEF Shift, w, AnyLimit
  <2>4. \A j \in Todo' : AnyLimit(pending'[j]) => Ends(pending'[j])
    BY <1>1, <1>7 DEF Shift
  <2>5. \A cl \in Cluster : config.governor[SideOf[cl]] # "ondemand" => config.limit[cl] = Unlimited[cl]
    BY DEF ConsoleInv, NarrowInv
  <2> QED BY <1>5, <2>1, <2>2, <2>3, <2>4, <2>5 DEF NarrowInv
<1>13. SeenInv'
  BY <1>1, <1>4, <1>5, SeenShift DEF ConsoleInv, w
<1>14. ShownInv'
  <2>1. ASSUME NEW s \in Side, Faithful(ui, s), mode[s] # "governor" PROVE Faithful(ui, s)'
    <3>1. Policy[s] # c /\ Policy[s] \in Cluster
      BY <1>7, <2>1, Sides
    <3> QED BY <1>5, <1>6, <2>1, <3>1 DEF Faithful, Limited
  <2>2. mode # Closed
    BY <1>1 DEF ConsoleInv, PageInv
  <2>3. \A cl \in Cluster : \/ governor'[cl] = governor[cl]
                            \/ KernelGovernor(pending[1]) /\ pending[1].of = cl /\ governor'[cl] = pending[1].value
    BY <1>6 DEF w, c, g
  <2>4. governor'[pending[1].of] = pending[1].value
    BY <1>3, <1>6 DEF w, c, g
  <2> QED BY <1>1, <2>1, <2>2, <2>3, <2>4, ShownShift DEF ConsoleInv
<1> QED BY <1>1, <1>8, <1>9, <1>10, <1>11, <1>12, <1>13, <1>14 DEF ConsoleInv

LEMMA StepConfigGovernor ==
  ASSUME ConsoleInv, Step, ConfigGovernor(pending[1])
  PROVE  ConsoleInv'
<1> DEFINE w == pending[1]
           s == w.of
           g == w.value
<1>1. /\ Shift /\ running /\ saving /\ UNCHANGED <<running, mode, switchTag, saving, torn>>
      /\ ui' \in UI /\ SameSides(ui, ui') /\ ui'.priority = ui.priority
      /\ pending' \in Seq(Command) /\ PageInv' /\ MenusInv'
  BY StepFrame
<1>2. Head(pending) = w /\ w \in Command /\ 1 \in Todo
  BY StepShifts DEF ConsoleInv, Shift
<1>3. s \in Side /\ g \in Governor
  BY <1>2, KindsOfCommand
<1>4. ~KernelGovernor(w) /\ ~AnyLimit(w) /\ ~Redraw(w) /\ About(w) = s /\ AnyGovernor(w)
  BY KindsDiffer DEF AnyGovernor
<1>5. config' = [config EXCEPT !.governor[s] = g] /\ UNCHANGED <<limit, governor, thermal, ui>>
  BY <1>2 DEF Step, InKernel, InConfig, InConsole, ConfigGovernor, kernel
<1>6. /\ config' \in [limit : [Cluster -> Limits], governor : [Side -> Governor]]
      /\ config'.limit = config.limit
      /\ \A t \in Side : config'.governor[t] = IF t = s THEN g ELSE config.governor[t]
  <2> DEFINE e == [config.governor EXCEPT ![s] = g]
  <2>1. config \in [limit : [Cluster -> Limits], governor : [Side -> Governor]]
    BY DEF ConsoleInv, Types
  <2>2. e \in [Side -> Governor] /\ \A t \in Side : e[t] = IF t = s THEN g ELSE config.governor[t]
    BY <1>3, <2>1
  <2>3. config' = [config EXCEPT !.governor = e]
    BY <1>5
  <2> HIDE DEF e
  <2> QED BY <2>1, <2>2, <2>3
<1>7. \A k \in Todo : AnyLimit(pending[k]) => Ends(pending[k])
  BY <1>2, <1>4, GovernorsWriteEnds
<1>8. Types'
  BY <1>1, <1>5, <1>6 DEF ConsoleInv, Types
<1>9. TablesInv'
  BY <1>1, <1>5, <1>6, TablesShift DEF ConsoleInv, TablesInv
<1>10. LimitsInv'
  BY <1>1, <1>4, <1>5, <1>6, LimitsShift DEF ConsoleInv
<1> HIDE DEF w, s, g
<1>11. GovernorsInv'
  <2>1. \A j \in Todo' : KernelGovernor(pending'[j]) =>
          \E k \in Todo' : j < k /\ ConfigGovernor(pending'[k]) /\ pending'[k].of = SideOf[pending'[j].of]
    BY <1>1 DEF ConsoleInv, GovernorsInv, Shift
  <2>2. \A j, k \in Todo' : AnyGovernor(pending'[j]) /\ AnyGovernor(pending'[k]) =>
          pending'[j].value = pending'[k].value
    BY <1>1 DEF ConsoleInv, GovernorsInv, Shift
  <2>3. ASSUME ~torn, NEW j \in Todo', ConfigGovernor(pending'[j]), NEW cl \in Cluster, SideOf[cl] = pending'[j].of
        PROVE  \/ governor[cl] = pending'[j].value
               \/ \E k \in Todo' : k < j /\ KernelGovernor(pending'[k]) /\ pending'[k].of = cl
    <3>1. j + 1 \in Todo /\ pending'[j] = pending[j + 1]
      BY <1>1 DEF Shift
    <3>2. \/ governor[cl] = pending'[j].value
          \/ \E k \in Todo : k < j + 1 /\ KernelGovernor(pending[k]) /\ pending[k].of = cl
      BY <2>3, <3>1 DEF ConsoleInv, GovernorsInv
    <3> QED BY <1>1, <1>4, <3>2 DEF Shift, w
  <2>4. ASSUME ~torn, NEW cl \in Cluster
        PROVE  \/ governor[cl] = config'.governor[SideOf[cl]]
               \/ \E j \in Todo' : ConfigGovernor(pending'[j]) /\ pending'[j].of = SideOf[cl]
    <3>1. CASE SideOf[cl] = s
      <4>1. \/ governor[cl] = g
            \/ \E k \in Todo : k < 1 /\ KernelGovernor(pending[k]) /\ pending[k].of = cl
        BY <1>2, <2>4, <3>1 DEF ConsoleInv, GovernorsInv, w, s, g
      <4> QED BY <1>1, <1>3, <1>6, <3>1, <4>1 DEF Shift
    <3>2. CASE SideOf[cl] # s
      <4>1. \/ governor[cl] = config.governor[SideOf[cl]]
            \/ \E j \in Todo : ConfigGovernor(pending[j]) /\ pending[j].of = SideOf[cl]
        BY <2>4 DEF ConsoleInv, GovernorsInv
      <4> QED BY <1>1, <1>6, <3>2, <4>1, Sides DEF Shift, w, s
    <3> QED BY <3>1, <3>2
  <2> QED BY <1>1, <1>5, <2>1, <2>2, <2>3, <2>4 DEF GovernorsInv
<1>12. NarrowInv'
  <2> SUFFICES ASSUME ~torn PROVE NarrowInv'
    BY <1>1 DEF NarrowInv
  <2>1. ASSUME NEW cl \in Cluster, config'.governor[SideOf[cl]] # "ondemand"
        PROVE  config.limit[cl] = Unlimited[cl]
    <3>1. CASE SideOf[cl] = s
      <4>1. g # "ondemand"
        BY <1>3, <1>6, <2>1, <3>1
      <4>2. ASSUME NEW i \in Item, i.cl = cl PROVE At(config.limit, i) = At(Unlimited, i)
        <5>1. \/ At(config.limit, i) = At(Unlimited, i)
              \/ \E k \in Todo : k < 1 /\ ConfigLimit(pending[k]) /\ pending[k].of = i
          BY <1>2, <3>1, <4>1, <4>2 DEF ConsoleInv, NarrowInv, w, s, g
        <5> QED BY <1>1, <5>1 DEF Shift
      <4>3. config.limit \in [Cluster -> Limits]
        BY DEF ConsoleInv, Types
      <4> QED BY <4>2, <4>3, UnlimitedIs, SameLimits
    <3>2. CASE SideOf[cl] # s
      BY <1>6, <2>1, <3>2, Sides DEF ConsoleInv, NarrowInv
    <3> QED BY <3>1, <3>2
  <2>2. ASSUME NEW j \in Todo', KernelGovernor(pending'[j]), pending'[j].value # "ondemand",
               NEW k \in Item, k.cl = pending'[j].of
        PROVE  \/ At(limit, k) = At(Unlimited, k)
               \/ \E l \in Todo' : l < j /\ KernelLimit(pending'[l]) /\ pending'[l].of = k
    <3>1. j + 1 \in Todo /\ pending'[j] = pending[j + 1]
      BY <1>1 DEF Shift
    <3>2. \/ At(limit, k) = At(Unlimited, k)
          \/ \E l \in Todo : l < j + 1 /\ KernelLimit(pending[l]) /\ pending[l].of = k
      BY <2>2, <3>1 DEF ConsoleInv, NarrowInv
    <3> QED BY <1>1, <1>4, <3>2 DEF Shift, w, AnyLimit
  <2>3. ASSUME NEW j \in Todo', ConfigGovernor(pending'[j]), pending'[j].value # "ondemand",
               NEW k \in Item, SideOf[k.cl] = pending'[j].of
        PROVE  \/ At(config.limit, k) = At(Unlimited, k)
               \/ \E l \in Todo' : l < j /\ ConfigLimit(pending'[l]) /\ pending'[l].of = k
    <3>1. j + 1 \in Todo /\ pending'[j] = pending[j + 1]
      BY <1>1 DEF Shift
    <3>2. \/ At(config.limit, k) = At(Unlimited, k)
          \/ \E l \in Todo : l < j + 1 /\ ConfigLimit(pending[l]) /\ pending[l].of = k
      BY <2>3, <3>1 DEF ConsoleInv, NarrowInv
    <3> QED BY <1>1, <1>4, <3>2 DEF Shift, w, AnyLimit
  <2>4. \A j \in Todo' : AnyLimit(pending'[j]) => Ends(pending'[j])
    BY <1>1, <1>7 DEF Shift
  <2>5. \A cl \in Cluster : governor[cl] # "ondemand" => limit[cl] = Unlimited[cl]
    BY DEF ConsoleInv, NarrowInv
  <2> QED BY <1>5, <1>6, <2>1, <2>2, <2>3, <2>4, <2>5 DEF NarrowInv
<1>13. SeenInv' /\ ShownInv'
  BY <1>1, <1>4, <1>5, ScreenShift DEF w
<1> QED BY <1>1, <1>8, <1>9, <1>10, <1>11, <1>12, <1>13 DEF ConsoleInv

\* Drawing the boxes of a side again brings its cached limits up to date.
LEMMA StepRedraw ==
  ASSUME ConsoleInv, Step, Redraw(pending[1])
  PROVE  ConsoleInv'
<1> DEFINE w == pending[1]
           s == w.of
<1>1. /\ Shift /\ running /\ saving /\ UNCHANGED <<running, mode, switchTag, saving, torn>>
      /\ ui' \in UI /\ SameSides(ui, ui') /\ ui'.priority = ui.priority
      /\ pending' \in Seq(Command) /\ PageInv' /\ MenusInv'
  BY StepFrame
<1>2. Head(pending) = w /\ w \in Command /\ 1 \in Todo
  BY StepShifts DEF ConsoleInv, Shift
<1>3. s \in Side
  BY <1>2, KindsOfCommand
<1>4. ~AnyLimit(w) /\ ~AnyGovernor(w) /\ ~KernelLimit(w) /\ ~KernelGovernor(w)
  BY KindsDiffer DEF AnyGovernor, AnyLimit
<1>5. /\ UNCHANGED <<limit, governor, thermal, config>>
      /\ ui' = IF s = "cpu" THEN DrawAll(ui, {"a53", "a72"}, LastDrawn["gpu"])
               ELSE DrawAll(ui, {"t86x"}, LastDrawn["cpu"])
  BY <1>2 DEF Step, InKernel, InConfig, InConsole, Redraw, kernel
<1>6. ui \in UI /\ limit \in [Cluster -> Limits]
  BY DEF ConsoleInv, Types
<1> HIDE DEF w, s
<1>7. Cached(ui, ui', BoxesOf(ClustersIn(s)))
  <2>1. CASE s = "cpu"
    <3>1. ClustersIn(s) = {"a53", "a72"} /\ {"a53", "a72"} \in SUBSET Cluster
      BY <2>1 DEF ClustersIn, Cluster, SideOf
    <3>2. LastDrawn["gpu"] \in Item
      BY Sides DEF Side
    <3> QED BY <1>5, <1>6, <2>1, <3>1, <3>2, DrawAllIs
  <2>2. CASE s = "gpu"
    <3>1. ClustersIn(s) = {"t86x"} /\ {"t86x"} \in SUBSET Cluster
      BY <2>2 DEF ClustersIn, Cluster, SideOf
    <3>2. LastDrawn["cpu"] \in Item
      BY Sides DEF Side
    <3> QED BY <1>5, <1>6, <2>2, <3>1, <3>2, DrawAllIs
  <2> QED BY <1>3, <2>1, <2>2 DEF Side
<1>8. ASSUME NEW i \in Item
      PROVE  At(ui'.seen, i) = IF SideOf[i.cl] = s THEN At(limit, i) ELSE At(ui.seen, i)
  <2>1. i \in BoxesOf(ClustersIn(s)) <=> SideOf[i.cl] = s
    BY <1>6, AtIsField DEF BoxesOf, ClustersIn
  <2> QED BY <1>7, <2>1 DEF Cached
<1>9. Types'
  BY <1>1, <1>5 DEF ConsoleInv, Types
<1>10. TablesInv'
  BY <1>1, <1>5, TablesShift DEF ConsoleInv, TablesInv
<1>11. LimitsInv' /\ GovernorsInv' /\ NarrowInv'
  BY <1>1, <1>4, <1>5, LimitsShift, GovernorsShift, NarrowShift DEF ConsoleInv, w
<1>12. SeenInv'
  <2>1. ASSUME NEW i \in Item
        PROVE  \/ At(ui'.seen, i) = At(limit, i)
               \/ \E j \in Todo' : Redraw(pending'[j]) /\ pending'[j].of = SideOf[i.cl]
               \/ saving /\ mode[SideOf[i.cl]] = "limit" /\ ui'.menu[SideOf[i.cl]] = i
    <3>1. CASE SideOf[i.cl] = s
      BY <1>8, <3>1
    <3>2. CASE SideOf[i.cl] # s
      <4>1. ui'.menu = ui.menu
        BY <1>1 DEF SameSides
      <4>2. \/ At(ui.seen, i) = At(limit, i)
            \/ \E j \in Todo : Redraw(pending[j]) /\ pending[j].of = SideOf[i.cl]
            \/ saving /\ mode[SideOf[i.cl]] = "limit" /\ ui.menu[SideOf[i.cl]] = i
        BY <1>1 DEF ConsoleInv, SeenInv
      <4>3. CASE \E j \in Todo : Redraw(pending[j]) /\ pending[j].of = SideOf[i.cl]
        BY <1>1, <3>2, <4>3 DEF Shift, s, w
      <4> QED BY <1>8, <3>2, <4>1, <4>2, <4>3
    <3> QED BY <3>1, <3>2
  <2>2. \A j \in Todo' : KernelLimit(pending'[j]) =>
          \/ mode[About(pending'[j])] = "limit"
          \/ \E k \in Todo' : j < k /\ Redraw(pending'[k]) /\ pending'[k].of = About(pending'[j])
    BY <1>1 DEF ConsoleInv, SeenInv, Shift
  <2> QED BY <1>1, <1>5, <2>1, <2>2 DEF SeenInv
<1>13. ShownInv'
  <2>1. ASSUME NEW t \in Side, Faithful(ui, t) PROVE Faithful(ui, t)'
    <3>1. ui'.menu = ui.menu /\ ui'.shown = ui.shown
      BY <1>1 DEF SameSides
    <3> QED BY <1>5, <2>1, <3>1 DEF Faithful, Limited
  <2>2. mode # Closed
    BY <1>1 DEF ConsoleInv, PageInv
  <2> QED BY <1>1, <1>4, <1>5, <2>1, <2>2, ShownShift DEF ConsoleInv, w
<1> QED BY <1>1, <1>9, <1>10, <1>11, <1>12, <1>13 DEF ConsoleInv

-----------------------------------------------------------------------------
(* Every step.                                                             *)

LEMMA StepKeeps ==
  ASSUME ConsoleInv, Step PROVE ConsoleInv'
<1>1. pending[1] \in Command
  BY StepShifts DEF ConsoleInv
<1> QED BY <1>1, KindsOfCommand, StepLimit, StepConfigLimit, StepGovernor, StepConfigGovernor,
           StepThermal, StepRedraw

LEMMA NextKeeps ==
  ConsoleInv /\ [Next]_vars => ConsoleInv'
<1> SUFFICES ASSUME ConsoleInv, [Next]_vars PROVE ConsoleInv'
  OBVIOUS
<1>1. CASE Start
  BY <1>1, StartKeeps
<1>2. ASSUME NEW s \in Side, OpenGovernor(s) PROVE ConsoleInv'
  BY <1>2, OpenGovernorKeeps
<1>3. ASSUME NEW s \in Side, Move(s) PROVE ConsoleInv'
  BY <1>3, MoveKeeps
<1>4. ASSUME NEW s \in Side, Turn(s) PROVE ConsoleInv'
  BY <1>4, TurnKeeps
<1>5. ASSUME NEW s \in Side, SaveGovernor(s) PROVE ConsoleInv'
  BY <1>5, SaveGovernorKeeps
<1>6. ASSUME NEW s \in Side, SaveLimit(s) PROVE ConsoleInv'
  BY <1>6, SaveLimitKeeps
<1>7. ASSUME NEW s \in Side, Leave(s) PROVE ConsoleInv'
  BY <1>7, LeaveKeeps
<1>8. CASE OpenLimits
  BY <1>8, OpenLimitsKeeps
<1>9. CASE Step
  BY <1>9, StepKeeps
<1>10. CASE Interrupt
  BY <1>10, InterruptKeeps
<1>11. CASE Boot
  BY <1>11, BootKeeps
<1>12. CASE UNCHANGED vars
  <2>1. /\ limit' = limit /\ governor' = governor /\ thermal' = thermal /\ config' = config
        /\ running' = running /\ ui' = ui /\ mode' = mode /\ switchTag' = switchTag
        /\ saving' = saving /\ pending' = pending /\ torn' = torn
    BY <1>12 DEF vars
  <2> QED BY <2>1 DEF ConsoleInv, Types, TablesInv, InTable, Ordered, PageInv, LimitsInv, GovernorsInv,
             NarrowInv, SeenInv, MenusInv, MenusOf, ShownInv, StandsInv, Faithful, Limited, Todo, Accepts,
             At, IsManual, About
<1> QED BY <1>1, <1>2, <1>3, <1>4, <1>5, <1>6, <1>7, <1>8, <1>9, <1>10, <1>11, <1>12 DEF Next

-----------------------------------------------------------------------------
(* What follows of every state.                                            *)

\* The tables, the pages, the rest of a save, the cache and the screen are related as
\* ConsoleInv says, whatever the keys, Ctrl+C and the loss of power in the middle of
\* the commands of a save.
THEOREM Invariant == Spec => []ConsoleInv
BY InitConsoleInv, NextKeeps, PTL DEF Spec

\* Every variable keeps its type, no two pages are open and commands wait only inside a
\* save, for tables of any lengths.
THEOREM TypeCorrect == Spec => []TypeOK
<1>1. ConsoleInv => TypeOK
  <2> SUFFICES ASSUME ConsoleInv PROVE TypeOK
    OBVIOUS
  <2>1. \E s \in Side : mode[s] = "main"
    BY Sides DEF ConsoleInv, PageInv, Side
  <2> QED BY <2>1 DEF ConsoleInv, Types, PageInv, TypeOK, UI, Page
<1> QED BY <1>1, Invariant, PTL

\* Between the saves, the settings that the next boot restores are the limits and the
\* governors in force, unless a Ctrl+C cut a save short.
THEOREM ConfigAgreesThm == Spec => []ConfigAgrees
<1>1. ConsoleInv => ConfigAgrees
  <2> SUFFICES ASSUME ConsoleInv, ~saving, ~torn
               PROVE  \A cl \in Cluster : limit[cl] = config.limit[cl] /\ governor[cl] = config.governor[SideOf[cl]]
    BY DEF ConfigAgrees
  <2>1. pending = <<>>
    BY DEF ConsoleInv, PageInv
  <2> QED BY <2>1, SettledIs DEF Settled
<1> QED BY <1>1, Invariant, PTL

\* The kernel refuses no write of the console: a reset lowers the minimum before it
\* touches the maximum, and the limit of a page is checked against the cached limits.
THEOREM NeverRefusedThm == Spec => []NeverRefused
<1>1. ConsoleInv => NeverRefused
  <2> SUFFICES ASSUME ConsoleInv, pending # <<>>, pending[1].to = "kernel", pending[1].what = "limit"
               PROVE  Accepts(limit, pending[1].of.cl, pending[1].of.bound, pending[1].value)
    BY DEF NeverRefused, ConsoleInv, Types
  <2>1. 1 \in Todo /\ pending[1] \in Command
    BY DEF ConsoleInv, Types, Todo
  <2>2. KernelLimit(pending[1])
    BY DEF KernelLimit
  <2>3. CASE Ends(pending[1])
    <3>1. pending[1].of \in Item /\ limit \in [Cluster -> Limits] /\ InTable(limit)
      BY <2>1, <2>2, KindsOfCommand DEF ConsoleInv, Types, TablesInv
    <3> QED BY <2>3, <3>1, EndsAreAccepted DEF Ends
  <2>4. CASE ~Ends(pending[1])
    BY <2>1, <2>2, <2>4 DEF ConsoleInv, LimitsInv
  <2> QED BY <2>3, <2>4
<1> QED BY <1>1, Invariant, PTL

\* Limits narrower than the table belong to the ondemand governor alone, in the kernel
\* and in the settings, in the middle of a save and after a loss of power there.
THEOREM OnlyOndemandIsLimitedThm == Spec => []OnlyOndemandIsLimited
<1>1. ConsoleInv => OnlyOndemandIsLimited
  BY DEF ConsoleInv, NarrowInv, OnlyOndemandIsLimited
<1> QED BY <1>1, Invariant, PTL

\* On the main page the tag that every box shares is the value of the box where the user
\* stands, so the page that space opens starts there.
THEOREM TagOfMenuThm == Spec => []TagOfMenu
<1>1. ConsoleInv => TagOfMenu
  <2> SUFFICES ASSUME ConsoleInv, OnMain, \E s \in Side : IsManual(ui, s)
               PROVE  ui.menu[ui.priority] # NoItem /\ ui.currTag = At(limit, ui.menu[ui.priority])
    BY DEF TagOfMenu
  <2>1. ui.priority \in Side
    BY FieldsOfUI DEF ConsoleInv, Types
  <2> QED BY <2>1, OnMainIs DEF Faithful, IsManual
<1> QED BY <1>1, Invariant, PTL

\* On a governor page dirty says whether the limits of its side are narrowed: the reset
\* that another governor needs is never skipped, and never made in vain.
THEOREM DirtyIsExactThm == Spec => []DirtyIsExact
<1>1. ConsoleInv => DirtyIsExact
  BY DEF ConsoleInv, ShownInv, DirtyIsExact, Open, Ready
<1> QED BY <1>1, Invariant, PTL

\* The main page tells the truth: what is shown of a side is the governor it runs, a side
\* shown as automatic is not limited, and the priority is on a manual side if there is one.
THEOREM ShownIsTrueThm == Spec => []ShownIsTrue
<1>1. ConsoleInv => ShownIsTrue
  BY OnMainIs DEF ShownIsTrue, Faithful, IsManual
<1> QED BY <1>1, Invariant, PTL
=============================================================================
