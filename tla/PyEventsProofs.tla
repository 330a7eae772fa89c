---------------------------- MODULE PyEventsProofs ----------------------------
(***************************************************************************)
(* Proofs about PyEvents, for any finite number of records and any sets of *)
(* channels and functions: a walk of py_callbacks calls each function that *)
(* it should, in order, and none else; in a quiet program no record is     *)
(* freed under it.                                                         *)
(***************************************************************************)
EXTENDS PyEvents, FiniteSetTheorems, FunctionTheorems, TLAPS

-----------------------------------------------------------------------------
(* The invariant.                                                          *)

\* The list holds each of its records once ...
ListOK == /\ pyCallbacks \in Seq(Cell)
          /\ \A i, j \in 1..Len(pyCallbacks) : pyCallbacks[i] = pyCallbacks[j] => i = j

\* ... and each for a function that is wanted.
RecordsInv == \A k \in Listed : /\ cell[k].gpio \in Channel /\ cell[k].fn \in Function
                                /\ <<cell[k].gpio, cell[k].fn>> \in wanted

\* Only a program that is not quiet frees a record under the thread.
FreedInv == /\ poll.freed => poll.pc # "wait" /\ ~quiet
            /\ fault => poll.freed

\* The thread stands on a record of the list.
StandInv ==
  /\ poll.pc # "wait" => poll.gpio \in Channel
  /\ poll.pc \in {"wait", "run"} => poll.at = 0
  /\ ~poll.freed => /\ poll.pc = "walk" /\ poll.at # 0 => poll.at \in Listed
                    /\ poll.pc = "call" => poll.at \in Listed /\ cell[poll.at].gpio = poll.gpio

\* ks are the records of channel c, in the order of the list.
Order(ks, c) ==
  /\ \A i \in 1..Len(ks) : ks[i] \in Listed /\ cell[ks[i]].gpio = c
  /\ \A k \in Listed : cell[k].gpio = c => \E i \in 1..Len(ks) : ks[i] = k
  /\ \A i, j \in 1..Len(ks) : i < j => Index(ks[i]) < Index(ks[j])

\* fs are the functions of the first of the records ks.
FirstOf(ks, fs) == Len(fs) <= Len(ks) /\ \A i \in 1..Len(fs) : fs[i] = cell[ks[i]].fn

\* The functions called so far are those of the records ks that the thread has passed.
Passed(ks) ==
  /\ FirstOf(ks, due) /\ FirstOf(ks, heard)
  /\ poll.pc = "call" => Len(heard) > 0 /\ ks[Len(heard)] = poll.at
  /\ poll.pc = "walk" /\ poll.at = 0 => Len(due) <= Len(heard)
  /\ poll.pc = "walk" /\ poll.at # 0 =>
       \A i \in 1..Len(ks) : i <= Len(heard) <=> Index(ks[i]) < Index(poll.at)

HeardInv ==
  /\ due \in Seq(Function) /\ heard \in Seq(Function)
  /\ poll.pc \in {"wait", "run"} => IsPrefix(due, heard)
  /\ poll.pc \in {"walk", "call"} /\ ~poll.freed =>
       \E c \in Channel : c = poll.gpio /\ \E ks \in Seq(Cell) : Order(ks, c) /\ Passed(ks)

\* The rest is types.
Types ==
  /\ cell \in [Cell -> [gpio : Channel \cup {None}, fn : Function \cup {None}]]
  /\ poll \in [pc : {"wait", "run", "walk", "call"}, gpio : Channel \cup {None}, ran : Nat,
               at : Cell \cup {0}, freed : BOOLEAN]

EventsInv == Types /\ ListOK /\ RecordsInv /\ FreedInv /\ StandInv /\ HeardInv

-----------------------------------------------------------------------------
(* A finite set, each of whose members has a position of its own, can be    *)
(* enumerated by it.                                                        *)

Places(R, pos) == IsFiniteSet(R) /\ pos \in [R -> Nat] /\ \A k, l \in R : pos[k] = pos[l] => k = l
UpTo(R, pos, k) == {l \in R : pos[l] <= pos[k]}
Enumerates(s, R, pos) ==
  /\ s \in [1..Cardinality(R) -> R]
  /\ \A i, j \in 1..Cardinality(R) : i < j => pos[s[i]] < pos[s[j]]

LEMMA RankGrows ==
  ASSUME NEW R, NEW pos, Places(R, pos), NEW k \in R, NEW l \in R
  PROVE  /\ Cardinality(UpTo(R, pos, k)) \in 1..Cardinality(R)
         /\ pos[k] < pos[l] => Cardinality(UpTo(R, pos, k)) < Cardinality(UpTo(R, pos, l))
<1>1. /\ UpTo(R, pos, k) \subseteq R /\ UpTo(R, pos, l) \subseteq R
      /\ k \in UpTo(R, pos, k) /\ l \in UpTo(R, pos, l)
  BY DEF UpTo, Places
<1>2. /\ IsFiniteSet(R) /\ IsFiniteSet(UpTo(R, pos, k)) /\ IsFiniteSet(UpTo(R, pos, l))
      /\ Cardinality(UpTo(R, pos, k)) <= Cardinality(R)
  BY <1>1, FS_Subset DEF Places
<1>3. /\ Cardinality(R) \in Nat /\ Cardinality(UpTo(R, pos, k)) \in Nat
      /\ Cardinality(UpTo(R, pos, l)) \in Nat
  BY <1>2, FS_CardinalityType
<1>4. Cardinality(UpTo(R, pos, k)) # 0
  BY <1>1, <1>2, FS_EmptySet
<1>5. ASSUME pos[k] < pos[l] PROVE Cardinality(UpTo(R, pos, k)) < Cardinality(UpTo(R, pos, l))
  <2>1. UpTo(R, pos, k) \subseteq UpTo(R, pos, l) /\ l \notin UpTo(R, pos, k)
    BY <1>5 DEF UpTo, Places
  <2>2. Cardinality(UpTo(R, pos, k)) <= Cardinality(UpTo(R, pos, l))
    BY <1>2, <2>1, FS_Subset
  <2>3. Cardinality(UpTo(R, pos, k)) # Cardinality(UpTo(R, pos, l))
    BY <1>1, <1>2, <2>1, FS_Subset
  <2> QED BY <1>3, <2>2, <2>3
<1> QED BY <1>2, <1>3, <1>4, <1>5

LEMMA EnumerationExists ==
  ASSUME NEW R, NEW pos, Places(R, pos)
  PROVE  \E s : Enumerates(s, R, pos)
<1> DEFINE n == Cardinality(R)
           rank == [k \in R |-> Cardinality(UpTo(R, pos, k))]
           s == [i \in 1..n |-> CHOOSE k \in R : rank[k] = i]
<1>1. n \in Nat /\ IsFiniteSet(1..n) /\ Cardinality(1..n) = n
  BY FS_CardinalityType, FS_Interval DEF Places
<1>2. rank \in [R -> 1..n]
  BY RankGrows
<1>3. \A k, l \in R : pos[k] < pos[l] => rank[k] < rank[l]
  BY RankGrows
<1> HIDE DEF rank
<1>4. \A k, l \in R : rank[k] = rank[l] => k = l
  <2> SUFFICES ASSUME NEW k \in R, NEW l \in R, rank[k] = rank[l] PROVE k = l
    OBVIOUS
  <2>1. pos[k] \in Nat /\ pos[l] \in Nat /\ rank[k] \in Int
    BY <1>2 DEF Places
  <2>2. ~(pos[k] < pos[l]) /\ ~(pos[l] < pos[k])
    BY <1>3, <2>1
  <2>3. pos[k] = pos[l]
    BY <2>1, <2>2
  <2> QED BY <2>3 DEF Places
<1>5. rank \in Injection(R, 1..n)
  BY <1>2, <1>4, Fun_IsInj
<1>6. rank \in Surjection(R, 1..n)
  BY <1>1, <1>5, FS_Injection
<1>7. \A i \in 1..n : \E k \in R : rank[k] = i
  BY <1>6, Fun_SurjectionProperties
<1>8. s \in [1..n -> R] /\ \A i \in 1..n : rank[s[i]] = i
  BY <1>7
<1> HIDE DEF s
<1>9. ASSUME NEW i \in 1..n, NEW j \in 1..n, i < j PROVE pos[s[i]] < pos[s[j]]
  <2>1. s[i] \in R /\ s[j] \in R /\ rank[s[i]] < rank[s[j]] /\ rank[s[i]] \in Int /\ rank[s[j]] \in Int
    BY <1>8, <1>9
  <2>2. pos[s[i]] \in Nat /\ pos[s[j]] \in Nat
    BY <2>1 DEF Places
  <2>3. pos[s[i]] # pos[s[j]]
    BY <2>1 DEF Places
  <2>4. ~(pos[s[j]] < pos[s[i]])
    BY <1>3, <2>1
  <2> QED BY <2>2, <2>3, <2>4
<1> QED BY <1>8, <1>9 DEF Enumerates

LEMMA EnumerationIsOnto ==
  ASSUME NEW R, NEW pos, Places(R, pos), NEW s, Enumerates(s, R, pos)
  PROVE  /\ \A i, j \in 1..Cardinality(R) : /\ s[i] = s[j] => i = j
                                            /\ i < j <=> pos[s[i]] < pos[s[j]]
         /\ \A k \in R : \E i \in 1..Cardinality(R) : s[i] = k
<1> DEFINE n == Cardinality(R)
<1>1. n \in Nat /\ IsFiniteSet(R) /\ IsFiniteSet(1..n) /\ Cardinality(1..n) = n
  BY FS_CardinalityType, FS_Interval DEF Places
<1>2. /\ s \in [1..n -> R]
      /\ \A i, j \in 1..n : i < j => pos[s[i]] < pos[s[j]]
  BY DEF Enumerates
<1>3. \A i \in 1..n : pos[s[i]] \in Nat
  BY <1>2 DEF Places
<1> HIDE DEF n
<1>4. \A i, j \in 1..n : /\ s[i] = s[j] => i = j
                         /\ i < j <=> pos[s[i]] < pos[s[j]]
  <2> SUFFICES ASSUME NEW i \in 1..n, NEW j \in 1..n
               PROVE  (s[i] = s[j] => i = j) /\ (i < j <=> pos[s[i]] < pos[s[j]])
    OBVIOUS
  <2>1. i \in Int /\ j \in Int /\ pos[s[i]] \in Int /\ pos[s[j]] \in Int
    BY <1>1, <1>3
  <2>2. /\ i < j => pos[s[i]] < pos[s[j]]
        /\ j < i => pos[s[j]] < pos[s[i]]
    BY <1>2
  <2> QED BY <2>1, <2>2
<1>5. s \in Injection(1..n, R)
  BY <1>2, <1>4, Fun_IsInj
<1>6. \A k \in R : \E i \in 1..n : s[i] = k
  <2>1. s \in Surjection(1..n, R)
    BY <1>1, <1>5, FS_Injection DEF n
  <2> QED BY <2>1 DEF Surjection
<1> QED BY <1>4, <1>6 DEF n

-----------------------------------------------------------------------------
(* The list.                                                               *)

Indexed ==
  /\ \A k \in Listed : Index(k) \in 1..Len(pyCallbacks) /\ pyCallbacks[Index(k)] = k
  /\ \A i \in 1..Len(pyCallbacks) :
       pyCallbacks[i] \in Listed /\ \A k \in Listed : pyCallbacks[i] = k => Index(k) = i

LEMMA IndexKnows == ListOK => Indexed /\ IsFiniteSet(Listed) /\ Listed \subseteq Cell \ {0}
<1> SUFFICES ASSUME ListOK PROVE Indexed /\ IsFiniteSet(Listed) /\ Listed \subseteq Cell \ {0}
  OBVIOUS
<1>1. DOMAIN pyCallbacks = 1..Len(pyCallbacks) /\ \A i \in 1..Len(pyCallbacks) : pyCallbacks[i] \in Cell
  BY DEF ListOK
<1>2. Listed = {pyCallbacks[i] : i \in 1..Len(pyCallbacks)}
  BY <1>1 DEF Listed, ToSet
<1>3. Listed \subseteq Cell /\ 0 \notin Listed
  BY <1>1, <1>2 DEF Cell
<1>4. IsFiniteSet(Listed)
  <2>1. IsFiniteSet(Cell)
    BY FS_Interval, Parameters DEF Cell
  <2> QED BY <1>3, <2>1, FS_Subset
<1>5. ASSUME NEW k \in Listed PROVE Index(k) \in 1..Len(pyCallbacks) /\ pyCallbacks[Index(k)] = k
  <2>1. \E i \in DOMAIN pyCallbacks : pyCallbacks[i] = k
    BY <1>1, <1>2
  <2> QED BY <1>1, <2>1 DEF Index
<1>6. \A i \in 1..Len(pyCallbacks) :
        pyCallbacks[i] \in Listed /\ \A k \in Listed : pyCallbacks[i] = k => Index(k) = i
  BY <1>2, <1>5 DEF ListOK
<1> QED BY <1>3, <1>4, <1>5, <1>6 DEF Indexed

LEMMA InOrderKnows ==
  ASSUME ListOK, NEW R \in SUBSET Listed
  PROVE  /\ InOrder(R) \in Seq(R)
         /\ \A k \in R : \E i \in 1..Len(InOrder(R)) : InOrder(R)[i] = k
         /\ \A i, j \in 1..Len(InOrder(R)) :
              /\ InOrder(R)[i] = InOrder(R)[j] => i = j
              /\ i < j <=> Index(InOrder(R)[i]) < Index(InOrder(R)[j])
<1> DEFINE pos == [k \in R |-> Index(k)]
           n == Cardinality(R)
<1>1. /\ IsFiniteSet(R)
      /\ \A k \in R : Index(k) \in 1..Len(pyCallbacks) /\ pyCallbacks[Index(k)] = k
  BY IndexKnows, FS_Subset DEF Indexed
<1>2. Len(pyCallbacks) \in Nat
  BY DEF ListOK
<1>3. Places(R, pos)
  <2>1. \A k \in R : Index(k) \in Nat
    BY <1>1, <1>2
  <2>2. \A k, l \in R : Index(k) = Index(l) => k = l
    BY <1>1
  <2>3. pos \in [R -> Nat] /\ \A k, l \in R : pos[k] = pos[l] => k = l
    BY <2>1, <2>2
  <2> HIDE DEF pos
  <2> QED BY <1>1, <2>3 DEF Places
<1>4. \E s \in [1..n -> R] : \A i, j \in DOMAIN s : i < j => Index(s[i]) < Index(s[j])
  <2>1. PICK s : Enumerates(s, R, pos)
    BY <1>3, EnumerationExists
  <2>2. s \in [1..n -> R] /\ \A i, j \in 1..n : i < j => pos[s[i]] < pos[s[j]]
    BY <2>1 DEF Enumerates
  <2>3. \A i, j \in 1..n : i < j => Index(s[i]) < Index(s[j])
    BY <2>2
  <2> QED BY <2>2, <2>3
<1>5. /\ InOrder(R) \in [1..n -> R]
      /\ \A i, j \in DOMAIN InOrder(R) : i < j => Index(InOrder(R)[i]) < Index(InOrder(R)[j])
  BY <1>4 DEF InOrder
<1>6. PICK s : s = InOrder(R)
  OBVIOUS
<1>7. s \in [1..n -> R] /\ \A i, j \in 1..n : i < j => Index(s[i]) < Index(s[j])
  BY <1>5, <1>6
<1>8. Enumerates(s, R, pos)
  <2>1. \A i, j \in 1..n : i < j => pos[s[i]] < pos[s[j]]
    BY <1>7
  <2> HIDE DEF pos
  <2> QED BY <1>7, <2>1 DEF Enumerates
<1>9. /\ \A i, j \in 1..n : (s[i] = s[j] => i = j) /\ (i < j <=> pos[s[i]] < pos[s[j]])
      /\ \A k \in R : \E i \in 1..n : s[i] = k
  BY <1>3, <1>8, EnumerationIsOnto
<1>10. \A i, j \in 1..n : i < j <=> Index(s[i]) < Index(s[j])
  BY <1>7, <1>9
<1>11. n \in Nat
  BY <1>1, FS_CardinalityType
<1> HIDE DEF pos, n
<1>12. s \in Seq(R) /\ Len(s) = n
  BY <1>7, <1>11
<1> QED BY <1>6, <1>9, <1>10, <1>12

\* cb->next.
LEMMA NextKnows ==
  ASSUME ListOK, NEW k \in Listed
  PROVE  IF Index(k) = Len(pyCallbacks) THEN NextOf(k) = 0
         ELSE NextOf(k) \in Listed /\ Index(NextOf(k)) = Index(k) + 1
<1>1. Index(k) \in 1..Len(pyCallbacks) /\ Len(pyCallbacks) \in Nat
  BY IndexKnows DEF ListOK, Indexed
<1>2. Index(k) # Len(pyCallbacks) => Index(k) + 1 \in 1..Len(pyCallbacks)
  BY <1>1
<1> QED BY <1>1, <1>2, IndexKnows DEF NextOf, Indexed

LEMMA AppendKnows ==
  ASSUME ListOK, NEW k \in Cell, k \notin Listed, pyCallbacks' = Append(pyCallbacks, k)
  PROVE  /\ ListOK' /\ Listed' = Listed \cup {k}
         /\ \A l \in Listed : Index(l)' = Index(l) /\ Index(l) < Index(k)'
         /\ \A l \in Listed' : Index(l)' \in Nat
<1> DEFINE n == Len(pyCallbacks)
<1>1. /\ n \in Nat /\ pyCallbacks' \in Seq(Cell) /\ Len(pyCallbacks') = n + 1
      /\ pyCallbacks'[n + 1] = k /\ \A i \in 1..n : pyCallbacks'[i] = pyCallbacks[i]
  BY DEF ListOK
<1> HIDE DEF n
<1>2. \A i \in 1..(n + 1) : i = n + 1 \/ i \in 1..n
  BY <1>1
<1>3. \A i \in 1..n : pyCallbacks[i] \in Listed /\ pyCallbacks[i] # k
  BY IndexKnows DEF n, Indexed
<1>4. ListOK'
  <2>1. \A i, j \in 1..(n + 1) : pyCallbacks'[i] = pyCallbacks'[j] => i = j
    BY <1>1, <1>2, <1>3 DEF ListOK, n
  <2> QED BY <1>1, <2>1 DEF ListOK
<1>5. Indexed'
  <2>1. (ListOK => Indexed)'
    BY IndexKnows, PTL
  <2> QED BY <1>4, <2>1
<1>6. Listed' = Listed \cup {k}
  <2>1. \A l \in Listed' : \E i \in 1..(n + 1) : pyCallbacks'[i] = l
    BY <1>1, <1>5 DEF Indexed
  <2>2. \A i \in 1..(n + 1) : pyCallbacks'[i] \in Listed'
    BY <1>1, <1>5 DEF Indexed
  <2>3. n + 1 \in 1..(n + 1) /\ \A i \in 1..n : i \in 1..(n + 1)
    BY <1>1
  <2>4. \A l \in Listed : \E i \in 1..n : pyCallbacks[i] = l
    BY IndexKnows DEF Indexed, n
  <2>5. \A l \in Listed : l \in Listed'
    BY <1>1, <2>2, <2>3, <2>4
  <2> QED BY <1>1, <1>2, <1>3, <2>1, <2>2, <2>3, <2>5
<1>7. Index(k)' = n + 1
  BY <1>1, <1>5, <1>6 DEF Indexed
<1>8. ASSUME NEW l \in Listed PROVE Index(l)' = Index(l) /\ Index(l) < Index(k)'
  <2>1. Index(l) \in 1..n /\ pyCallbacks[Index(l)] = l
    BY IndexKnows DEF Indexed, n
  <2>2. pyCallbacks'[Index(l)] = l /\ Index(l) \in 1..(n + 1)
    BY <1>1, <2>1
  <2>3. Index(l)' = Index(l)
    BY <1>1, <1>5, <1>6, <2>2 DEF Indexed
  <2> QED BY <1>1, <1>7, <2>1, <2>3
<1>9. \A l \in Listed' : Index(l)' \in Nat
  BY <1>1, <1>5 DEF Indexed
<1> QED BY <1>4, <1>6, <1>8, <1>9

\* The list without some records.
LEMMA WithoutKnows ==
  ASSUME ListOK, NEW R \in SUBSET Listed, pyCallbacks' = InOrder(R)
  PROVE  /\ ListOK' /\ Listed' = R
         /\ \A k, l \in R : Index(k) < Index(l) <=> Index(k)' < Index(l)'
<1>1. /\ pyCallbacks' \in Seq(R)
      /\ \A k \in R : \E i \in 1..Len(pyCallbacks') : pyCallbacks'[i] = k
      /\ \A i, j \in 1..Len(pyCallbacks') :
           /\ pyCallbacks'[i] = pyCallbacks'[j] => i = j
           /\ i < j <=> Index(pyCallbacks'[i]) < Index(pyCallbacks'[j])
  BY InOrderKnows
<1>2. R \subseteq Cell
  BY IndexKnows
<1>3. ListOK'
  <2>1. pyCallbacks' \in Seq(Cell)
    BY <1>1, <1>2
  <2> QED BY <1>1, <2>1 DEF ListOK
<1>4. Indexed'
  <2>1. (ListOK => Indexed)'
    BY IndexKnows, PTL
  <2> QED BY <1>3, <2>1
<1>5. Listed' = R
  <2>1. \A l \in Listed' : l \in R
    BY <1>1, <1>4 DEF Indexed
  <2>2. \A l \in R : l \in Listed'
    BY <1>1, <1>4 DEF Indexed
  <2> QED BY <2>1, <2>2
<1>6. ASSUME NEW k \in R, NEW l \in R PROVE Index(k) < Index(l) <=> Index(k)' < Index(l)'
  <2>1. PICK i \in 1..Len(pyCallbacks'), j \in 1..Len(pyCallbacks') :
          pyCallbacks'[i] = k /\ pyCallbacks'[j] = l
    BY <1>1
  <2>2. Index(k)' = i /\ Index(l)' = j
    BY <1>4, <1>5, <2>1 DEF Indexed
  <2> QED BY <1>1, <2>1, <2>2
<1> QED BY <1>3, <1>5, <1>6

-----------------------------------------------------------------------------
(* What the thread has passed.                                             *)

LEMMA PrefixIs ==
  ASSUME NEW S, NEW a \in Seq(S), NEW b \in Seq(S), Len(a) <= Len(b),
         \A i \in 1..Len(a) : a[i] = b[i]
  PROVE  IsPrefix(a, b)
<1>1. SubSeq(a, 1, Len(a)) = SubSeq(b, 1, Len(a))
  OBVIOUS
<1> QED BY <1>1 DEF IsPrefix

LEMMA ListSame ==
  ASSUME UNCHANGED <<cell, pyCallbacks>>
  PROVE  /\ ListOK' <=> ListOK
         /\ Listed' = Listed
         /\ \A k : Index(k)' = Index(k)
         /\ \A ks, c : Order(ks, c)' <=> Order(ks, c)
<1>1. Listed' = Listed /\ \A k : Index(k)' = Index(k)
  BY DEF Listed, ToSet, Index
<1>2. \A ks, c : Order(ks, c)' <=> Order(ks, c)
  BY <1>1 DEF Order
<1> QED BY <1>1, <1>2 DEF ListOK

LEMMA OrderStays ==
  ASSUME NEW c, NEW ks, Order(ks, c),
         \A k \in Listed : cell[k].gpio = c => k \in Listed' /\ cell'[k] = cell[k],
         \A k \in Listed' : cell'[k].gpio = c => k \in Listed /\ cell[k].gpio = c,
         \A k, l \in Listed : cell[k].gpio = c /\ cell[l].gpio = c /\ Index(k) < Index(l)
                                => Index(k)' < Index(l)'
  PROVE  Order(ks, c)'
BY DEF Order

LEMMA FunctionsKnow ==
  ASSUME Types, ListOK, RecordsInv, NEW c \in Channel
  PROVE  \E ks \in Seq(Cell) :
           /\ Order(ks, c) /\ Functions(c) \in Seq(Function) /\ Len(Functions(c)) = Len(ks)
           /\ \A i \in 1..Len(ks) : Functions(c)[i] = cell[ks[i]].fn
<1> DEFINE R == Records(c)
<1>1. R \in SUBSET Listed /\ R \subseteq Cell
  BY IndexKnows DEF Records
<1>2. PICK ks : ks = InOrder(R)
  OBVIOUS
<1>3. /\ ks \in Seq(R) /\ \A k \in R : \E i \in 1..Len(ks) : ks[i] = k
      /\ \A i, j \in 1..Len(ks) : i < j => Index(ks[i]) < Index(ks[j])
  BY <1>1, <1>2, InOrderKnows
<1>4. Order(ks, c)
  BY <1>3 DEF Order, Records
<1>5. Len(ks) \in Nat /\ DOMAIN ks = 1..Len(ks)
  BY <1>3
<1>6. Functions(c) = [i \in 1..Len(ks) |-> cell[ks[i]].fn]
  BY <1>2, <1>5 DEF Functions
<1>7. \A i \in 1..Len(ks) : cell[ks[i]].fn \in Function
  BY <1>4 DEF Order, RecordsInv
<1>8. Functions(c) \in [1..Len(ks) -> Function]
  BY <1>6, <1>7
<1>9. Functions(c) \in Seq(Function) /\ Len(Functions(c)) = Len(ks)
  BY <1>5, <1>8
<1>10. ks \in Seq(Cell)
  BY <1>1, <1>3
<1> QED BY <1>4, <1>6, <1>9, <1>10

\* A step that neither the list nor the thread takes part in.
LEMMA OthersKeep ==
  ASSUME EventsInv, UNCHANGED <<cell, pyCallbacks, poll, due, heard, fault, quiet, wanted>>
  PROVE  EventsInv'
<1>1. ListOK' /\ Listed' = Listed /\ \A k : Index(k)' = Index(k)
  BY ListSame DEF EventsInv
<1>2. RecordsInv' /\ FreedInv' /\ StandInv' /\ Types'
  BY <1>1 DEF EventsInv, RecordsInv, FreedInv, StandInv, Types
<1>3. \A ks : Passed(ks) => Passed(ks)'
  BY <1>1 DEF Passed, FirstOf
<1>4. \A ks, c : Order(ks, c) => Order(ks, c)'
  BY ListSame
<1>5. HeardInv'
  BY <1>3, <1>4 DEF EventsInv, HeardInv
<1> QED BY <1>1, <1>2, <1>5 DEF EventsInv

\* cleanup: at worst the thread's channel is gone.
LEMMA CleanUpEvents ==
  ASSUME EventsInv, UNCHANGED quiet, NEW cs, NEW gone, CleanUp(cs, gone)
  PROVE  EventsInv'
<1>1. /\ UNCHANGED <<cell, pyCallbacks, fault, wanted, due, heard>>
      /\ poll' = [poll EXCEPT !.freed = @ \/ (poll.pc # "wait" /\ poll.gpio \in gone)]
      /\ quiet => poll.pc = "wait" \/ (poll.pc = "call" /\ poll.gpio \notin gone)
  BY DEF CleanUp, MayRemove
<1>2. /\ poll'.pc = poll.pc /\ poll'.gpio = poll.gpio /\ poll'.at = poll.at
      /\ poll'.freed <=> poll.freed \/ (poll.pc # "wait" /\ poll.gpio \in gone)
      /\ Types'
  BY <1>1 DEF EventsInv, Types
<1>3. ListOK' /\ Listed' = Listed /\ \A k : Index(k)' = Index(k)
  BY <1>1, ListSame DEF EventsInv
<1>4. RecordsInv' /\ FreedInv' /\ StandInv'
  BY <1>1, <1>2, <1>3 DEF EventsInv, RecordsInv, FreedInv, StandInv
<1>5. \A ks : Passed(ks) => Passed(ks)'
  BY <1>1, <1>2, <1>3 DEF Passed, FirstOf
<1>6. \A ks, c : Order(ks, c) => Order(ks, c)'
  BY <1>1, ListSame
<1>7. HeardInv'
  BY <1>1, <1>2, <1>5, <1>6 DEF EventsInv, HeardInv
<1> QED BY <1>2, <1>3, <1>4, <1>7 DEF EventsInv

\* A function is added: it is the last, so the thread has not passed it.
LEMMA AddEvents ==
  ASSUME EventsInv, NEW c \in Channel, NEW f \in Function, AddPyCallback(c, f),
         UNCHANGED <<poll, due, heard, fault, quiet>>
  PROVE  EventsInv'
<1>1. PICK k \in Unused :
        /\ cell' = [cell EXCEPT ![k] = [gpio |-> c, fn |-> f]]
        /\ pyCallbacks' = Append(pyCallbacks, k)
        /\ wanted' = wanted \cup {<<c, f>>}
  BY DEF AddPyCallback
<1>2. k \in Cell /\ k \notin Listed /\ Listed \subseteq Cell
  BY IndexKnows DEF Unused, EventsInv
<1>3. /\ ListOK' /\ Listed' = Listed \cup {k}
      /\ \A l \in Listed : Index(l)' = Index(l) /\ Index(l) < Index(k)'
      /\ \A l \in Listed' : Index(l)' \in Nat
  BY <1>1, <1>2, AppendKnows DEF EventsInv
<1>4. /\ cell'[k].gpio = c /\ cell'[k].fn = f /\ \A l \in Listed : cell'[l] = cell[l]
      /\ Types'
  BY <1>1, <1>2 DEF EventsInv, Types
<1>5. RecordsInv'
  BY <1>1, <1>3, <1>4 DEF EventsInv, RecordsInv
<1>6. FreedInv' /\ StandInv'
  BY <1>3, <1>4 DEF EventsInv, FreedInv, StandInv
<1>7. ASSUME poll.pc \in {"walk", "call"}, ~poll.freed, NEW g \in Channel, g = poll.gpio,
             NEW ks \in Seq(Cell), Order(ks, g), Passed(ks)
      PROVE  \E rs \in Seq(Cell) : Order(rs, g)' /\ Passed(rs)'
  <2>1. \A i \in 1..Len(ks) :
          ks[i] \in Listed /\ cell'[ks[i]] = cell[ks[i]] /\ Index(ks[i])' = Index(ks[i])
    BY <1>3, <1>4, <1>7 DEF Order
  <2>2. poll.pc = "walk" /\ poll.at # 0 => poll.at \in Listed /\ Index(poll.at)' = Index(poll.at)
    BY <1>3, <1>7 DEF EventsInv, StandInv
  <2>3. CASE c # g
    <3>1. Order(ks, g)'
      BY <1>3, <1>4, <1>7, <2>3, OrderStays
    <3>2. Passed(ks)'
      <4>1. FirstOf(ks, due)' /\ FirstOf(ks, heard)'
        <5>1. \A fs \in Seq(Function) : FirstOf(ks, fs) => Len(fs) \in Nat /\ Len(ks) \in Nat
                                                          /\ \A i \in 1..Len(fs) : i \in 1..Len(ks)
          BY DEF FirstOf
        <5> QED BY <1>7, <2>1, <5>1 DEF Passed, FirstOf, EventsInv, HeardInv
      <4> QED BY <1>7, <2>1, <2>2, <4>1 DEF Passed
    <3> QED BY <3>1, <3>2
  <2>4. CASE c = g
    <3> DEFINE rs == Append(ks, k)
               n == Len(ks)
    <3>1. /\ rs \in Seq(Cell) /\ Len(rs) = n + 1 /\ rs[n + 1] = k /\ n \in Nat
          /\ \A i \in 1..n : rs[i] = ks[i]
      BY <1>2
    <3> HIDE DEF rs
    <3>2. \A i \in 1..(n + 1) : i = n + 1 \/ i \in 1..n
      BY <3>1
    <3>3. Order(rs, g)'
      <4>1. \A i \in 1..(n + 1) : rs[i] \in Listed' /\ cell'[rs[i]].gpio = g
        <5>1. \A i \in 1..n : rs[i] \in Listed' /\ cell'[rs[i]].gpio = g
          BY <1>3, <1>7, <2>1, <3>1 DEF Order
        <5> QED BY <1>3, <1>4, <2>4, <3>1, <3>2, <5>1
      <4>2. \A l \in Listed' : cell'[l].gpio = g => \E i \in 1..(n + 1) : rs[i] = l
        <5>1. \A l \in Listed : cell[l].gpio = g => \E i \in 1..n : ks[i] = l
          BY <1>7 DEF Order
        <5>2. \A i \in 1..n : i \in 1..(n + 1)
          BY <3>1
        <5>3. n + 1 \in 1..(n + 1)
          BY <3>1
        <5> QED BY <1>3, <1>4, <3>1, <5>1, <5>2, <5>3
      <4>3. \A i, j \in 1..(n + 1) : i < j => Index(rs[i])' < Index(rs[j])'
        <5> SUFFICES ASSUME NEW i \in 1..(n + 1), NEW j \in 1..(n + 1), i < j
                     PROVE  Index(rs[i])' < Index(rs[j])'
          OBVIOUS
        <5>1. i \in 1..n
          BY <3>1
        <5>2. CASE j \in 1..n
          BY <1>7, <2>1, <3>1, <5>1, <5>2 DEF Order
        <5>3. CASE j = n + 1
          BY <1>3, <2>1, <3>1, <5>1, <5>3
        <5> QED BY <3>2, <5>2, <5>3
      <4> QED BY <3>1, <4>1, <4>2, <4>3 DEF Order
    <3>4. Passed(rs)'
      <4>1. \A fs \in Seq(Function) : FirstOf(ks, fs) => FirstOf(rs, fs)'
        <5> SUFFICES ASSUME NEW fs \in Seq(Function), FirstOf(ks, fs)
                     PROVE  Len(fs) <= n + 1 /\ \A i \in 1..Len(fs) : fs[i] = cell'[rs[i]].fn
          BY <3>1 DEF FirstOf
        <5>1. Len(fs) \in Nat /\ Len(fs) <= n /\ \A i \in 1..Len(fs) : i \in 1..n
          BY <3>1 DEF FirstOf
        <5> QED BY <2>1, <3>1, <5>1 DEF FirstOf
      <4>2. FirstOf(rs, due)' /\ FirstOf(rs, heard)'
        BY <1>7, <4>1 DEF Passed, EventsInv, HeardInv, FirstOf
      <4>3. Len(heard) \in Nat /\ Len(heard) <= n
        BY <1>7, <3>1 DEF Passed, FirstOf, EventsInv, HeardInv
      <4>4. poll.pc = "call" => Len(heard) > 0 /\ rs[Len(heard)] = poll.at
        BY <1>7, <3>1, <4>3 DEF Passed
      <4>5. ASSUME poll.pc = "walk", poll.at # 0, NEW i \in 1..(n + 1)
            PROVE  i <= Len(heard) <=> Index(rs[i])' < Index(poll.at)'
        <5>1. CASE i \in 1..n
          BY <1>7, <2>1, <2>2, <3>1, <4>5, <5>1 DEF Passed
        <5>2. CASE i = n + 1
          <6>1. Index(poll.at)' < Index(rs[i])' /\ ~(i <= Len(heard))
            BY <1>3, <2>2, <3>1, <4>3, <4>5, <5>2
          <6>2. PICK l \in Listed : l = poll.at
            BY <2>2, <4>5
          <6>3. Index(l)' \in Nat /\ Index(k)' \in Nat /\ l = poll'.at
            BY <1>3, <6>2
          <6> QED BY <3>1, <5>2, <6>1, <6>2, <6>3
        <5> QED BY <3>2, <5>1, <5>2
      <4> QED BY <1>7, <3>1, <4>2, <4>4, <4>5 DEF Passed
    <3> QED BY <3>1, <3>3, <3>4
  <2> QED BY <2>3, <2>4
<1>8. HeardInv'
  BY <1>7 DEF EventsInv, HeardInv
<1> QED BY <1>3, <1>4, <1>5, <1>6, <1>8 DEF EventsInv

\* The detection of another channel is removed, or the thread's records are gone.
LEMMA RemoveEvents ==
  ASSUME EventsInv, UNCHANGED quiet, NEW c \in Channel, RemoveEventDetect(c)
  PROVE  EventsInv'
<1> DEFINE R == Listed \ Records(c)
<1>1. /\ UNCHANGED <<fault, due, heard>>
      /\ pyCallbacks' = InOrder(R) /\ wanted' = {w \in wanted : w[1] # c}
      /\ quiet => poll.pc = "wait" \/ (poll.pc = "call" /\ poll.gpio # c)
  BY DEF RemoveEventDetect, MayRemove, Without
<1>2. /\ ListOK' /\ Listed' = R
      /\ \A k, l \in R : Index(k) < Index(l) <=> Index(k)' < Index(l)'
  BY <1>1, WithoutKnows DEF EventsInv
<1>3. \A k : k \in R <=> k \in Listed /\ cell[k].gpio # c
  BY DEF Records
<1>4. R \subseteq Cell /\ \A k \in R : cell'[k] = cell[k]
  <2>1. ToSet(Without(c)) = R
    BY <1>1, <1>2 DEF RemoveEventDetect, Listed
  <2> QED BY <1>3, <2>1, IndexKnows DEF RemoveEventDetect, EventsInv
<1> HIDE DEF R
<1>5. /\ poll'.pc = poll.pc /\ poll'.gpio = poll.gpio /\ poll'.at = poll.at
      /\ poll'.freed <=> \/ poll.freed \/ (poll.pc # "wait" /\ poll.gpio = c)
                         \/ (poll.at # 0 /\ poll.at \notin R)
      /\ Types'
  <2>1. ToSet(Without(c)) = R
    BY <1>1, <1>2 DEF RemoveEventDetect, Listed
  <2>2. cell' \in [Cell -> [gpio : Channel \cup {None}, fn : Function \cup {None}]]
    <3>1. NoCell \in [gpio : Channel \cup {None}, fn : Function \cup {None}]
      BY DEF NoCell
    <3> QED BY <3>1 DEF RemoveEventDetect, EventsInv, Types
  <2> QED BY <2>1, <2>2 DEF RemoveEventDetect, EventsInv, Types
<1>6. RecordsInv'
  <2>1. ASSUME NEW k \in R
        PROVE  <<cell[k].gpio, cell[k].fn>> \in wanted /\ <<cell[k].gpio, cell[k].fn>>[1] # c
    BY <1>3 DEF EventsInv, RecordsInv
  <2> QED BY <1>1, <1>2, <1>3, <1>4, <2>1 DEF EventsInv, RecordsInv
<1>7. FreedInv' /\ StandInv'
  <2>1. poll.pc = "call" /\ ~poll.freed => poll.at \in Listed /\ cell[poll.at].gpio = poll.gpio
    BY DEF EventsInv, StandInv
  <2>2. FreedInv'
    BY <1>1, <1>3, <1>5, <2>1 DEF EventsInv, FreedInv, StandInv
  <2>3. ASSUME ~poll'.freed PROVE poll.pc = "walk" /\ poll.at # 0 => poll.at \in R
    BY <1>5, <2>3
  <2>4. ASSUME ~poll'.freed, poll.pc = "call" PROVE poll.at \in R /\ cell'[poll.at].gpio = poll.gpio
    BY <1>3, <1>4, <1>5, <2>1, <2>4
  <2> QED BY <1>2, <1>5, <2>2, <2>3, <2>4 DEF EventsInv, StandInv
<1>8. ASSUME poll.pc \in {"walk", "call"}, ~poll'.freed, NEW g \in Channel, g = poll.gpio,
             NEW ks \in Seq(Cell), Order(ks, g), Passed(ks)
      PROVE  Order(ks, g)' /\ Passed(ks)'
  <2>1. g # c /\ ~poll.freed
    BY <1>5, <1>8
  <2>2. \A k \in Listed : cell[k].gpio = g => k \in Listed' /\ cell'[k] = cell[k]
    BY <1>2, <1>3, <1>4, <2>1
  <2>3. \A k \in Listed' : cell'[k].gpio = g => k \in Listed /\ cell[k].gpio = g
    BY <1>2, <1>3, <1>4
  <2>4. Order(ks, g)'
    BY <1>2, <1>3, <1>8, <2>1, <2>2, <2>3, OrderStays
  <2>5. \A i \in 1..Len(ks) : ks[i] \in R /\ cell'[ks[i]] = cell[ks[i]]
    BY <1>2, <1>8, <2>2 DEF Order
  <2>6. FirstOf(ks, due)' /\ FirstOf(ks, heard)'
    <3>1. \A fs \in Seq(Function) : FirstOf(ks, fs) => \A i \in 1..Len(fs) : i \in 1..Len(ks)
      BY DEF FirstOf
    <3> QED BY <1>1, <1>8, <2>5, <3>1 DEF Passed, FirstOf, EventsInv, HeardInv
  <2>7. ASSUME poll.pc = "walk", poll.at # 0, NEW i \in 1..Len(ks)
        PROVE  i <= Len(heard) <=> Index(ks[i])' < Index(poll.at)'
    <3>1. PICK l \in R : l = poll.at /\ l = poll'.at
      BY <1>5, <1>8, <2>7
    <3>2. PICK k \in R : k = ks[i]
      BY <2>5
    <3>3. i <= Len(heard) <=> Index(k) < Index(l)
      BY <1>8, <2>7, <3>1, <3>2 DEF Passed
    <3>4. Index(k) < Index(l) <=> Index(k)' < Index(l)'
      BY <1>2
    <3> QED BY <3>1, <3>2, <3>3, <3>4
  <2>8. poll.pc = "call" => Len(heard) > 0 /\ ks[Len(heard)] = poll.at
    BY <1>8 DEF Passed
  <2>9. poll.pc = "walk" /\ poll.at = 0 => Len(due) <= Len(heard)
    BY <1>8 DEF Passed
  <2> QED BY <1>1, <1>5, <2>4, <2>6, <2>7, <2>8, <2>9 DEF Passed
<1>9. HeardInv'
  BY <1>1, <1>5, <1>8 DEF EventsInv, HeardInv
<1> QED BY <1>2, <1>5, <1>6, <1>7, <1>9 DEF EventsInv

LEMMA MethodEvents ==
  ASSUME EventsInv, UNCHANGED quiet, Method
  PROVE  EventsInv'
<1>1. ASSUME NEW c \in Channel, NEW in, Setup(c, in) PROVE EventsInv'
  BY <1>1, OthersKeep DEF Setup, lists
<1>2. ASSUME NEW c \in Channel, NEW f \in Function \cup {None}, AddEventDetect(c, f) PROVE EventsInv'
  <2>1. CASE f = None
    BY <1>2, <2>1, OthersKeep DEF AddEventDetect, lists
  <2>2. CASE f # None
    BY <1>2, <2>2, AddEvents DEF AddEventDetect
  <2> QED BY <2>1, <2>2
<1>3. ASSUME NEW c \in Channel, NEW f \in Function, AddEventCallback(c, f) PROVE EventsInv'
  BY <1>3, AddEvents DEF AddEventCallback
<1>4. ASSUME NEW c \in Channel, Cleanup(c) PROVE EventsInv'
  BY <1>4, CleanUpEvents DEF Cleanup
<1>5. CASE CleanupAll
  BY <1>5, CleanUpEvents DEF CleanupAll
<1> QED BY <1>1, <1>2, <1>3, <1>4, <1>5, RemoveEvents DEF Method

-----------------------------------------------------------------------------
(* The poll thread.                                                        *)

\* The walk of a C callback begins at the head of the list.
LEMMA RunCallbackEvents ==
  ASSUME EventsInv, UNCHANGED quiet, RunCallback
  PROVE  EventsInv'
<1>1. /\ UNCHANGED <<cell, pyCallbacks, fault, wanted>>
      /\ poll.pc = "run" /\ ~poll.freed /\ poll.gpio \in Channel
      /\ poll' = [poll EXCEPT !.pc = "walk", !.at = First]
      /\ due' = Functions(poll.gpio) /\ heard' = <<>>
  BY DEF RunCallback, lists, EventsInv, StandInv
<1>2. ListOK' /\ Listed' = Listed /\ \A k : Index(k)' = Index(k)
  BY <1>1, ListSame DEF EventsInv
<1>3. Indexed /\ Listed \subseteq Cell \ {0} /\ Len(pyCallbacks) \in Nat
  BY IndexKnows DEF EventsInv, ListOK
<1>4. IF Len(pyCallbacks) = 0 THEN First = 0 /\ Listed = {}
      ELSE First \in Listed /\ Index(First) = 1
  <2>1. pyCallbacks = <<>> <=> Len(pyCallbacks) = 0
    BY DEF EventsInv, ListOK
  <2>2. CASE Len(pyCallbacks) = 0
    BY <1>3, <2>1, <2>2 DEF First, Indexed
  <2>3. CASE Len(pyCallbacks) # 0
    <3>1. 1 \in 1..Len(pyCallbacks) /\ First = pyCallbacks[1]
      BY <1>3, <2>1, <2>3 DEF First
    <3> QED BY <1>3, <2>3, <3>1 DEF Indexed
  <2> QED BY <2>2, <2>3
<1>5. First \in Cell \cup {0} /\ (First = 0 <=> Len(pyCallbacks) = 0)
  BY <1>3, <1>4
<1>6. /\ poll'.pc = "walk" /\ poll'.gpio = poll.gpio /\ poll'.at = First /\ ~poll'.freed
      /\ Types'
  BY <1>1, <1>5 DEF EventsInv, Types
<1>7. RecordsInv' /\ FreedInv' /\ StandInv'
  BY <1>1, <1>2, <1>4, <1>5, <1>6 DEF EventsInv, RecordsInv, FreedInv, StandInv
<1>8. PICK ks \in Seq(Cell) :
        /\ Order(ks, poll.gpio) /\ due' \in Seq(Function) /\ Len(due') = Len(ks)
        /\ \A i \in 1..Len(ks) : due'[i] = cell[ks[i]].fn
  BY <1>1, FunctionsKnow DEF EventsInv
<1>9. Order(ks, poll.gpio)'
  BY <1>1, <1>8, ListSame
<1>10. heard' = <<>> /\ heard' \in Seq(Function) /\ Len(heard') = 0 /\ Len(ks) \in Nat
  BY <1>1, <1>8
<1>11. FirstOf(ks, due)' /\ FirstOf(ks, heard)'
  BY <1>1, <1>8, <1>10 DEF FirstOf
<1>12. \A i \in 1..Len(ks) : ks[i] \in Listed /\ Index(ks[i]) \in 1..Len(pyCallbacks)
  BY <1>3, <1>8 DEF Order, Indexed
<1>13. ASSUME First = 0 PROVE Len(due') <= Len(heard')
  BY <1>4, <1>5, <1>8, <1>10, <1>12, <1>13
<1>14. ASSUME First # 0, NEW i \in 1..Len(ks)
       PROVE  i <= Len(heard') <=> Index(ks[i])' < Index(First)
  BY <1>2, <1>4, <1>5, <1>10, <1>12, <1>14
<1>15. Index(poll.at)' = Index(First)
  BY <1>1, <1>6 DEF Index
<1>16. Passed(ks)'
  BY <1>6, <1>11, <1>13, <1>14, <1>15 DEF Passed
<1>17. HeardInv'
  BY <1>1, <1>6, <1>8, <1>9, <1>10, <1>16 DEF HeardInv
<1> QED BY <1>2, <1>6, <1>7, <1>17 DEF EventsInv

\* Nothing of the list is left: every function that was due has been called.
LEMMA WalkEndEvents ==
  ASSUME EventsInv, UNCHANGED quiet, WalkEnd
  PROVE  EventsInv'
<1>1. /\ UNCHANGED <<cell, pyCallbacks, fault, wanted, due, heard>>
      /\ poll.pc = "walk" /\ ~poll.freed /\ poll.at = 0
      /\ poll' = [poll EXCEPT !.pc = "run", !.at = 0, !.ran = @ + 1]
  BY DEF WalkEnd, AtEnd, lists
<1>2. ListOK' /\ Listed' = Listed
  BY <1>1, ListSame DEF EventsInv
<1>3. /\ poll'.pc = "run" /\ poll'.gpio = poll.gpio /\ poll'.at = 0 /\ ~poll'.freed
      /\ Types'
  <2>1. /\ poll.ran + 1 \in Nat /\ poll.gpio \in Channel \cup {None} /\ poll.freed \in BOOLEAN
        /\ poll' = [pc |-> "run", gpio |-> poll.gpio, ran |-> poll.ran + 1, at |-> 0,
                    freed |-> poll.freed]
    <3>1. poll \in [pc : {"wait", "run", "walk", "call"}, gpio : Channel \cup {None}, ran : Nat,
                    at : Cell \cup {0}, freed : BOOLEAN]
      BY DEF EventsInv, Types
    <3>2. poll.ran + 1 \in Nat /\ poll.gpio \in Channel \cup {None} /\ poll.freed \in BOOLEAN
      BY <3>1
    <3>3. poll' = [poll EXCEPT !.pc = "run", !.at = 0, !.ran = poll.ran + 1]
      BY <1>1
    <3> QED BY <3>1, <3>2, <3>3
  <2>2. poll'.pc = "run" /\ poll'.gpio = poll.gpio /\ poll'.at = 0 /\ ~poll'.freed
    BY <1>1, <2>1
  <2>3. Types'
    BY <1>1, <2>1 DEF EventsInv, Types
  <2> QED BY <2>2, <2>3
<1>4. RecordsInv' /\ FreedInv' /\ StandInv'
  BY <1>1, <1>2, <1>3 DEF EventsInv, RecordsInv, FreedInv, StandInv
<1>5. PICK ks \in Seq(Cell) : Passed(ks)
  BY <1>1 DEF EventsInv, HeardInv
<1>6. due \in Seq(Function) /\ heard \in Seq(Function)
  BY DEF EventsInv, HeardInv
<1>7. Len(due) <= Len(heard) /\ \A i \in 1..Len(due) : due[i] = heard[i]
  BY <1>1, <1>5, <1>6 DEF Passed, FirstOf
<1>8. IsPrefix(due, heard)
  BY <1>6, <1>7, PrefixIs
<1>9. IsPrefix(due, heard)' <=> IsPrefix(due, heard)
  BY <1>1 DEF IsPrefix
<1>10. HeardInv'
  BY <1>1, <1>3, <1>6, <1>8, <1>9 DEF HeardInv
<1> QED BY <1>2, <1>3, <1>4, <1>10 DEF EventsInv

\* The thread goes to the next record: it has passed k, the one it stands on, and
\* the records that it has passed of ks are those it has called.
LEMMA GoOnEvents ==
  ASSUME EventsInv, UNCHANGED <<quiet, cell, pyCallbacks, fault, wanted, due, heard>>,
         poll.pc \in {"walk", "call"}, ~poll.freed, poll.at \in Listed,
         poll' = [poll EXCEPT !.pc = "walk", !.at = NextOf(@)],
         \A ks \in Seq(Cell) : Order(ks, poll.gpio) /\ Passed(ks) =>
           \A i \in 1..Len(ks) : i <= Len(heard) <=> Index(ks[i]) <= Index(poll.at)
  PROVE  EventsInv'
<1>1. ListOK' /\ Listed' = Listed /\ \A k : Index(k)' = Index(k)
  BY ListSame DEF EventsInv
<1>2. Indexed /\ Listed \subseteq Cell \ {0} /\ Len(pyCallbacks) \in Nat
  BY IndexKnows DEF EventsInv, ListOK
<1>3. IF Index(poll.at) = Len(pyCallbacks) THEN NextOf(poll.at) = 0
      ELSE NextOf(poll.at) \in Listed /\ Index(NextOf(poll.at)) = Index(poll.at) + 1
  BY NextKnows DEF EventsInv
<1>4. /\ NextOf(poll.at) \in Cell \cup {0}
      /\ NextOf(poll.at) = 0 <=> Index(poll.at) = Len(pyCallbacks)
      /\ NextOf(poll.at) # 0 => NextOf(poll.at) \in Listed
  BY <1>2, <1>3
<1>5. /\ poll'.pc = "walk" /\ poll'.gpio = poll.gpio /\ poll'.at = NextOf(poll.at)
      /\ ~poll'.freed /\ Types'
  BY <1>4 DEF EventsInv, Types
<1>6. RecordsInv' /\ FreedInv' /\ StandInv'
  BY <1>1, <1>4, <1>5 DEF EventsInv, RecordsInv, FreedInv, StandInv
<1>7. PICK ks \in Seq(Cell) : poll.gpio \in Channel /\ Order(ks, poll.gpio) /\ Passed(ks)
  BY DEF EventsInv, HeardInv
<1>8. Order(ks, poll.gpio)'
  BY <1>5, <1>7, ListSame
<1>9. /\ FirstOf(ks, due) /\ FirstOf(ks, heard) /\ FirstOf(ks, due)' /\ FirstOf(ks, heard)'
      /\ Len(ks) \in Nat /\ Len(due) \in Nat /\ Len(heard) \in Nat
      /\ Len(due) <= Len(ks) /\ Len(heard) <= Len(ks)
  BY <1>7 DEF Passed, FirstOf, EventsInv, HeardInv
<1>10. \A i \in 1..Len(ks) : /\ i <= Len(heard) <=> Index(ks[i]) <= Index(poll.at)
                             /\ Index(ks[i]) \in 1..Len(pyCallbacks)
  BY <1>2, <1>7 DEF Order, Indexed
<1>11. ASSUME NextOf(poll.at) = 0 PROVE Len(due) <= Len(heard)
  <2>1. \A i \in 1..Len(ks) : i <= Len(heard)
    BY <1>4, <1>10, <1>11
  <2>2. CASE Len(ks) = 0
    BY <1>9, <2>2
  <2>3. CASE Len(ks) # 0
    <3>1. Len(ks) \in 1..Len(ks)
      BY <1>9, <2>3
    <3> QED BY <1>9, <2>1, <3>1
  <2> QED BY <2>2, <2>3
<1>12. ASSUME NextOf(poll.at) # 0, NEW i \in 1..Len(ks)
       PROVE  i <= Len(heard) <=> Index(ks[i]) < Index(NextOf(poll.at))
  <2>1. Index(poll.at) \in 1..Len(pyCallbacks) /\ Index(NextOf(poll.at)) = Index(poll.at) + 1
    BY <1>2, <1>3, <1>4, <1>12 DEF Indexed
  <2> QED BY <1>2, <1>10, <1>12, <2>1
<1>13. Index(poll.at)' = Index(NextOf(poll.at)) /\ \A i : Index(ks[i])' = Index(ks[i])
  BY <1>1, <1>5 DEF Index
<1>14. Passed(ks)'
  BY <1>5, <1>9, <1>11, <1>12, <1>13 DEF Passed
<1>15. HeardInv'
  BY <1>5, <1>7, <1>8, <1>14 DEF EventsInv, HeardInv
<1> QED BY <1>1, <1>5, <1>6, <1>15 DEF EventsInv

\* The record is of another channel.
LEMMA WalkOtherEvents ==
  ASSUME EventsInv, UNCHANGED quiet, WalkOther
  PROVE  EventsInv'
<1>1. /\ UNCHANGED <<quiet, cell, pyCallbacks, fault, wanted, due, heard>>
      /\ poll.pc = "walk" /\ ~poll.freed /\ poll.at # 0 /\ cell[poll.at].gpio # poll.gpio
      /\ poll' = [poll EXCEPT !.at = NextOf(@)]
  BY DEF WalkOther, AtEnd, lists
<1>2. poll' = [poll EXCEPT !.pc = "walk", !.at = NextOf(@)] /\ poll.at \in Listed
  BY <1>1 DEF EventsInv, Types, StandInv
<1>3. Indexed
  BY IndexKnows DEF EventsInv
<1>4. ASSUME NEW ks \in Seq(Cell), Order(ks, poll.gpio), Passed(ks), NEW i \in 1..Len(ks)
      PROVE  i <= Len(heard) <=> Index(ks[i]) <= Index(poll.at)
  <2>1. ks[i] \in Listed /\ ks[i] # poll.at
    BY <1>1, <1>4 DEF Order
  <2>2. Index(ks[i]) \in Nat /\ Index(poll.at) \in Nat /\ Index(ks[i]) # Index(poll.at)
    BY <1>2, <1>3, <2>1 DEF Indexed, EventsInv, ListOK
  <2> QED BY <1>1, <1>4, <2>2 DEF Passed
<1> QED BY <1>1, <1>2, <1>4, GoOnEvents

\* A function has returned.
LEMMA CallReturnsEvents ==
  ASSUME EventsInv, UNCHANGED quiet, CallReturns
  PROVE  EventsInv'
<1>1. /\ UNCHANGED <<quiet, cell, pyCallbacks, fault, wanted, due, heard>>
      /\ poll.pc = "call" /\ ~poll.freed
      /\ poll' = [poll EXCEPT !.pc = "walk", !.at = NextOf(@)]
  BY DEF CallReturns, lists
<1>2. poll.at \in Listed
  BY <1>1 DEF EventsInv, StandInv
<1>3. Indexed
  BY IndexKnows DEF EventsInv
<1>4. ASSUME NEW ks \in Seq(Cell), Order(ks, poll.gpio), Passed(ks), NEW i \in 1..Len(ks)
      PROVE  i <= Len(heard) <=> Index(ks[i]) <= Index(poll.at)
  <2>1. /\ Len(heard) \in 1..Len(ks) /\ ks[Len(heard)] = poll.at
    BY <1>1, <1>4 DEF Passed, FirstOf, EventsInv, HeardInv
  <2>2. ks[i] \in Listed /\ Index(ks[i]) \in Nat /\ Index(poll.at) \in Nat
    BY <1>2, <1>3, <1>4 DEF Order, Indexed, EventsInv, ListOK
  <2>3. CASE i < Len(heard)
    BY <1>4, <2>1, <2>2, <2>3 DEF Order
  <2>4. CASE i = Len(heard)
    BY <2>1, <2>2, <2>4
  <2>5. CASE i > Len(heard)
    <3>1. Index(poll.at) < Index(ks[i])
      BY <1>4, <2>1, <2>5 DEF Order
    <3> QED BY <2>1, <2>2, <2>5, <3>1
  <2> QED BY <2>1, <2>3, <2>4, <2>5
<1> QED BY <1>1, <1>2, <1>4, GoOnEvents

\* The record is of the channel: it is the first of ks that has not been called.
LEMMA WalkCallEvents ==
  ASSUME EventsInv, UNCHANGED quiet, WalkCall
  PROVE  EventsInv'
<1>1. /\ UNCHANGED <<cell, pyCallbacks, fault, wanted, due>>
      /\ poll.pc = "walk" /\ ~poll.freed /\ poll.at # 0 /\ cell[poll.at].gpio = poll.gpio
      /\ poll' = [poll EXCEPT !.pc = "call"]
      /\ heard' = Append(heard, cell[poll.at].fn)
  BY DEF WalkCall, AtEnd, lists
<1>2. poll.at \in Listed /\ cell[poll.at].fn \in Function
  BY <1>1 DEF EventsInv, StandInv, RecordsInv
<1>3. ListOK' /\ Listed' = Listed
  BY <1>1, ListSame DEF EventsInv
<1>4. /\ poll'.pc = "call" /\ poll'.gpio = poll.gpio /\ poll'.at = poll.at /\ ~poll'.freed
      /\ Types'
  BY <1>1 DEF EventsInv, Types
<1>5. RecordsInv' /\ FreedInv' /\ StandInv'
  BY <1>1, <1>2, <1>3, <1>4 DEF EventsInv, RecordsInv, FreedInv, StandInv
<1>6. PICK ks \in Seq(Cell) : poll.gpio \in Channel /\ Order(ks, poll.gpio) /\ Passed(ks)
  BY <1>1 DEF EventsInv, HeardInv
<1>7. Order(ks, poll.gpio)'
  BY <1>1, <1>4, <1>6, ListSame
<1> DEFINE n == Len(heard)
<1>8. /\ due \in Seq(Function) /\ heard \in Seq(Function) /\ n \in Nat /\ Len(ks) \in Nat
      /\ heard' \in Seq(Function) /\ Len(heard') = n + 1 /\ heard'[n + 1] = cell[poll.at].fn
      /\ \A i \in 1..n : heard'[i] = heard[i]
      /\ FirstOf(ks, due) /\ FirstOf(ks, heard) /\ n <= Len(ks)
  BY <1>1, <1>2, <1>6 DEF EventsInv, HeardInv, Passed, FirstOf
<1>9. n + 1 \in 1..Len(ks) /\ ks[n + 1] = poll.at
  <2>1. PICK j \in 1..Len(ks) : ks[j] = poll.at
    BY <1>1, <1>2, <1>6 DEF Order
  <2>2. \A i \in 1..Len(ks) : i <= n <=> Index(ks[i]) < Index(poll.at)
    BY <1>1, <1>6 DEF Passed
  <2>3. Index(poll.at) \in Nat
    BY <1>2, IndexKnows DEF Indexed, EventsInv, ListOK
  <2>4. j > n
    BY <1>8, <2>1, <2>2, <2>3
  <2>5. n + 1 \in 1..Len(ks)
    BY <1>8, <2>4
  <2>6. CASE j > n + 1
    <3>1. Index(ks[n + 1]) < Index(ks[j])
      BY <1>6, <2>5, <2>6 DEF Order
    <3>2. n + 1 <= n
      BY <2>1, <2>2, <2>5, <3>1
    <3> QED BY <1>8, <3>2
  <2> QED BY <1>8, <2>1, <2>4, <2>5, <2>6
<1> HIDE DEF n
<1>10. FirstOf(ks, due)'
  BY <1>1, <1>8 DEF FirstOf
<1>11. FirstOf(ks, heard)'
  <2>1. \A i \in 1..n : heard[i] = cell[ks[i]].fn
    BY <1>8 DEF FirstOf, n
  <2>2. ASSUME NEW i \in 1..(n + 1) PROVE heard'[i] = cell'[ks[i]].fn
    <3>1. i \in 1..n \/ i = n + 1
      BY <1>8, <2>2
    <3> QED BY <1>1, <1>8, <1>9, <2>1, <3>1
  <2>3. n + 1 <= Len(ks)
    BY <1>8, <1>9
  <2> QED BY <1>8, <2>2, <2>3 DEF FirstOf
<1>12. Passed(ks)'
  BY <1>4, <1>8, <1>9, <1>10, <1>11 DEF Passed
<1>13. HeardInv'
  BY <1>1, <1>4, <1>6, <1>7, <1>8, <1>12 DEF HeardInv
<1> QED BY <1>3, <1>4, <1>5, <1>13 DEF EventsInv

LEMMA PollEvents ==
  ASSUME EventsInv, UNCHANGED quiet, PollStep
  PROVE  EventsInv'
<1>1. ASSUME NEW c \in Channel, Ignore(c) PROVE EventsInv'
  BY <1>1, OthersKeep DEF Ignore, lists
<1>2. ASSUME poll' = Waiting \/ \E c \in Channel : poll' = [Waiting EXCEPT !.pc = "run", !.gpio = c],
             poll.pc \in {"wait", "run"}, ~fault,
             UNCHANGED <<cell, pyCallbacks, fault, wanted, due, heard>>
      PROVE  EventsInv'
  <2>1. ListOK' /\ Listed' = Listed
    BY <1>2, ListSame DEF EventsInv
  <2>2. PICK pc \in {"wait", "run"}, g \in Channel \cup {None} :
          /\ poll' = [pc |-> pc, gpio |-> g, ran |-> 0, at |-> 0, freed |-> FALSE]
          /\ pc # "wait" => g \in Channel
    <3>1. CASE poll' = Waiting
      BY <3>1 DEF Waiting
    <3>2. ASSUME NEW c \in Channel, poll' = [Waiting EXCEPT !.pc = "run", !.gpio = c]
          PROVE  poll' = [pc |-> "run", gpio |-> c, ran |-> 0, at |-> 0, freed |-> FALSE]
      BY <3>2 DEF Waiting
    <3> QED BY <1>2, <3>1, <3>2
  <2>3. Types'
    BY <1>2, <2>2 DEF EventsInv, Types
  <2>4. RecordsInv' /\ FreedInv' /\ StandInv'
    BY <1>2, <2>1, <2>2 DEF EventsInv, RecordsInv, FreedInv, StandInv
  <2>5. IsPrefix(due, heard)' <=> IsPrefix(due, heard)
    BY <1>2 DEF IsPrefix
  <2>6. HeardInv'
    BY <1>2, <2>2, <2>5 DEF EventsInv, HeardInv
  <2> QED BY <2>1, <2>3, <2>4, <2>6 DEF EventsInv
<1>3. ASSUME NEW c \in Channel, Report(c) PROVE EventsInv'
  <2>1. ~fault
    BY <1>3 DEF Report, EventsInv, FreedInv
  <2> QED BY <1>2, <1>3, <2>1 DEF Report, lists
<1>4. CASE RunCallback
  BY <1>4, RunCallbackEvents
<1>5. CASE RunEnd
  <2>1. ~fault
    BY <1>5 DEF RunEnd, EventsInv, FreedInv
  <2> QED BY <1>2, <1>5, <2>1 DEF RunEnd, lists
<1>6. CASE WalkEnd
  BY <1>6, WalkEndEvents
<1>7. CASE WalkOther
  BY <1>7, WalkOtherEvents
<1>8. CASE WalkCall
  BY <1>8, WalkCallEvents
<1>9. CASE CallReturns
  BY <1>9, CallReturnsEvents
<1>10. CASE UseFreed
  <2>1. UNCHANGED <<cell, pyCallbacks, poll, wanted, due, heard>> /\ poll.freed /\ fault' = TRUE
    BY <1>10 DEF UseFreed, lists
  <2>2. ListOK' /\ Listed' = Listed
    BY <2>1, ListSame DEF EventsInv
  <2>3. Types' /\ RecordsInv' /\ FreedInv' /\ StandInv'
    BY <2>1, <2>2 DEF EventsInv, Types, RecordsInv, FreedInv, StandInv
  <2>4. IsPrefix(due, heard)' <=> IsPrefix(due, heard)
    BY <2>1 DEF IsPrefix
  <2>5. HeardInv'
    BY <2>1, <2>4 DEF EventsInv, HeardInv
  <2> QED BY <2>2, <2>3, <2>5 DEF EventsInv
<1> QED BY <1>1, <1>3, <1>4, <1>5, <1>6, <1>7, <1>8, <1>9, <1>10 DEF PollStep

-----------------------------------------------------------------------------
(* The specification.                                                      *)

LEMMA InitEvents == Init => EventsInv
<1> SUFFICES ASSUME Init PROVE EventsInv
  OBVIOUS
<1>1. /\ cell = [k \in Cell |-> NoCell] /\ pyCallbacks = <<>> /\ poll = Waiting /\ fault = FALSE
      /\ due = <<>> /\ heard = <<>>
  BY DEF Init
<1>2. ListOK
  BY <1>1 DEF ListOK
<1>3. Listed = {}
  BY <1>1 DEF Listed, ToSet
<1>4. poll.pc = "wait" /\ poll.at = 0 /\ ~poll.freed
  BY <1>1 DEF Waiting
<1>5. RecordsInv /\ FreedInv /\ StandInv
  BY <1>1, <1>3, <1>4 DEF RecordsInv, FreedInv, StandInv
<1>6. due \in Seq(Function) /\ heard \in Seq(Function) /\ Len(due) = 0 /\ Len(heard) = 0
  BY <1>1
<1>7. IsPrefix(due, heard)
  <2>1. \A i \in 1..Len(due) : due[i] = heard[i]
    BY <1>6
  <2>2. Len(due) <= Len(heard)
    BY <1>6
  <2> QED BY <1>6, <2>1, <2>2, PrefixIs
<1>8. HeardInv
  BY <1>4, <1>6, <1>7 DEF HeardInv
<1>9. Types
  BY <1>1 DEF Types, NoCell, Waiting
<1> QED BY <1>2, <1>5, <1>8, <1>9 DEF EventsInv

LEMMA NextEvents == EventsInv /\ [Next]_vars => EventsInv'
<1> SUFFICES ASSUME EventsInv, [Next]_vars PROVE EventsInv'
  OBVIOUS
<1>1. CASE Next
  <2>1. UNCHANGED quiet /\ (PollStep \/ Method \/ \E c \in Channel : Edge(c))
    BY <1>1 DEF Next
  <2>2. ASSUME NEW c \in Channel, Edge(c) PROVE EventsInv'
    BY <2>1, <2>2, OthersKeep DEF Edge, lists
  <2> QED BY <2>1, <2>2, PollEvents, MethodEvents
<1>2. CASE UNCHANGED vars
  BY <1>2, OthersKeep DEF vars, lists
<1> QED BY <1>1, <1>2

\* The invariant holds in every state of the program.
THEOREM EventsStay == Spec => []EventsInv
BY InitEvents, NextEvents, PTL DEF Spec

\* Of a program that removes the detection of a channel only while the poll thread
\* is not at work for it, no walk of py_callbacks reads a freed record.
THEOREM WalkIsSafe == Spec => []NoFault
<1>1. EventsInv => NoFault
  BY DEF EventsInv, FreedInv, NoFault
<1> QED BY <1>1, EventsStay, PTL

\* run_py_callbacks calls, for a channel, only functions that the program added
\* there and has not removed with the detection.
THEOREM CalledAreWanted == Spec => []OnlyWanted
<1>1. EventsInv => OnlyWanted
  BY DEF EventsInv, StandInv, RecordsInv, OnlyWanted
<1> QED BY <1>1, EventsStay, PTL

\* Each C callback calls, in order, every function its channel had when it began,
\* whatever functions are added and removed under the walk.
THEOREM WalkCallsEach == Spec => []EachIsCalled
<1>1. EventsInv => EachIsCalled
  BY DEF EventsInv, HeardInv, EachIsCalled
<1> QED BY <1>1, EventsStay, PTL
=============================================================================
