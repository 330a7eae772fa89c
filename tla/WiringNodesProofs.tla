-------------------------- MODULE WiringNodesProofs --------------------------
(***************************************************************************)
(* Proofs about WiringNodes, for any boards of chips and any number of     *)
(* threads: pin numbers are of one node, and what a node remembers of an   *)
(* output latch is what the program asked for, as is the latch itself.     *)
(***************************************************************************)
EXTENDS WiringNodes, Integers, SequenceTheorems, WellFoundedInduction, TLAPS

LEMMA KindOfChip == ASSUME TypeOK, NEW c \in Chips PROVE kind[c] \in Kind /\ Size[kind[c]] \in Nat \ {0}
BY Parameters DEF TypeOK, Chips

\* Every bit lies in one bank.
LEMMA BankOfPin ==
  ASSUME NEW c, NEW i \in Pins(c) PROVE Bank(c, i) \in Banks(c) /\ i \in InBank(c, Bank(c, i))
BY DEF Banks, InBank

\* A bank that was written holds what was written, and the others what they did.
LEMMA ReplacedBanks ==
  ASSUME NEW c, NEW b, NEW old, NEW new, new \subseteq InBank(c, b)
  PROVE  /\ Replaced(old, c, b, new) \cap InBank(c, b) = new
         /\ \A e : e # b => Replaced(old, c, b, new) \cap InBank(c, e) = old \cap InBank(c, e)
BY DEF Replaced, InBank

-----------------------------------------------------------------------------
(* Nodes.                                                                  *)

HasNode(c) == \E i \in DOMAIN nodes : nodes[i].chip = c
OnePerChip == \A i, j \in DOMAIN nodes : nodes[i].chip = nodes[j].chip => i = j
Cache(c) == nodes[NodeOf(c)].cache

\* A chip's node is the one that was set up for it.
LEMMA NodeOfChip ==
  ASSUME OnePerChip, NEW i \in DOMAIN nodes
  PROVE  NodeOf(nodes[i].chip) = i /\ Cache(nodes[i].chip) = nodes[i].cache
BY DEF OnePerChip, NodeOf, Cache

\* A setup adds a node before the others.
LEMMA SetupAddsNode ==
  ASSUME TypeOK, OnePerChip, NEW c \in Chips, ~HasNode(c), NEW n \in Node, n.chip = c,
         nodes' = <<n>> \o nodes
  PROVE  /\ nodes' \in Seq(Node) /\ OnePerChip'
         /\ HasNode(c)' /\ Cache(c)' = n.cache
         /\ \A d \in Chips : d # c => /\ HasNode(d)' = HasNode(d)
                                      /\ HasNode(d) => Cache(d)' = Cache(d)
<1>1. nodes \in Seq(Node) /\ <<n>> \in Seq(Node) /\ Len(<<n>>) = 1 /\ <<n>>[1] = n
  BY DEF TypeOK
<1>2. /\ nodes' \in Seq(Node) /\ Len(nodes') = Len(nodes) + 1 /\ nodes'[1] = n
      /\ \A i \in 1..Len(nodes) : nodes'[i + 1] = nodes[i]
  BY <1>1, ConcatProperties
<1>3. DOMAIN nodes = 1..Len(nodes) /\ DOMAIN nodes' = 1..Len(nodes') /\ Len(nodes) \in Nat
  BY <1>1, <1>2
<1>4. \A j \in DOMAIN nodes' : j = 1 \/ (j - 1 \in DOMAIN nodes /\ nodes'[j] = nodes[j - 1])
  <2> SUFFICES ASSUME NEW j \in DOMAIN nodes', j # 1
               PROVE  j - 1 \in DOMAIN nodes /\ nodes'[j] = nodes[j - 1]
    OBVIOUS
  <2>1. j - 1 \in 1..Len(nodes) /\ (j - 1) + 1 = j
    BY <1>2, <1>3
  <2> QED BY <1>2, <1>3, <2>1
<1>5. \A i \in DOMAIN nodes : nodes[i].chip # c
  BY DEF HasNode
<1>6. OnePerChip'
  <2> SUFFICES ASSUME NEW i \in DOMAIN nodes', NEW j \in DOMAIN nodes', nodes'[i].chip = nodes'[j].chip
               PROVE  i = j
    BY DEF OnePerChip
  <2>1. CASE i = 1 \/ j = 1
    BY <1>2, <1>4, <1>5, <2>1
  <2>2. CASE i # 1 /\ j # 1
    <3>1. i - 1 = j - 1
      BY <1>4, <2>2 DEF OnePerChip
    <3> QED BY <1>2, <1>3, <3>1
  <2> QED BY <2>1, <2>2
<1>7. 1 \in DOMAIN nodes' /\ \A i \in DOMAIN nodes : i + 1 \in DOMAIN nodes' /\ nodes'[i + 1] = nodes[i]
  BY <1>2, <1>3
<1>8. (\A i \in DOMAIN nodes : Cache(nodes[i].chip) = nodes[i].cache)'
  BY <1>6 DEF OnePerChip, NodeOf, Cache
<1>9. HasNode(c)' /\ Cache(c)' = n.cache
  BY <1>2, <1>7, <1>8 DEF HasNode
<1>10. ASSUME NEW d \in Chips, d # c
       PROVE  HasNode(d)' = HasNode(d) /\ (HasNode(d) => Cache(d)' = Cache(d))
  <2>1. ASSUME HasNode(d)' PROVE HasNode(d)
    BY <1>2, <1>4, <1>10, <2>1 DEF HasNode
  <2>2. ASSUME HasNode(d) PROVE HasNode(d)' /\ Cache(d)' = Cache(d)
    <3>1. PICK i \in DOMAIN nodes : nodes[i].chip = d
      BY <2>2 DEF HasNode
    <3>2. Cache(d) = nodes[i].cache
      BY <3>1, NodeOfChip
    <3> QED BY <1>7, <1>8, <3>1, <3>2 DEF HasNode
  <2> QED BY <2>1, <2>2 DEF HasNode
<1> QED BY <1>2, <1>6, <1>9, <1>10

\* An assignment to what a node remembers changes nothing else of the nodes.
LEMMA KeepChangesCache ==
  ASSUME TypeOK, OnePerChip, NEW c \in Chips, HasNode(c), NEW new \in SUBSET Nat,
         nodes' = [nodes EXCEPT ![NodeOf(c)].cache = new]
  PROVE  /\ nodes' \in Seq(Node) /\ OnePerChip' /\ DOMAIN nodes' = DOMAIN nodes
         /\ \A i \in DOMAIN nodes : nodes'[i].chip = nodes[i].chip /\ nodes'[i].base = nodes[i].base
         /\ Cache(c)' = new
         /\ \A d \in Chips : /\ HasNode(d)' = HasNode(d)
                             /\ HasNode(d) /\ d # c => Cache(d)' = Cache(d)
<1>1. PICK k \in DOMAIN nodes : nodes[k].chip = c
  BY DEF HasNode
<1>2. NodeOf(c) = k /\ nodes \in Seq(Node) /\ nodes[k] \in Node
  BY <1>1, NodeOfChip DEF TypeOK
<1>3. [nodes[k] EXCEPT !.cache = new] \in Node
  BY <1>2 DEF Node
<1>4. nodes' = [nodes EXCEPT ![k] = [nodes[k] EXCEPT !.cache = new]]
  BY <1>2
<1>5. nodes' \in Seq(Node) /\ DOMAIN nodes' = DOMAIN nodes
  BY <1>2, <1>3, <1>4
<1>6. /\ nodes'[k] = [nodes[k] EXCEPT !.cache = new]
      /\ \A i \in DOMAIN nodes : i # k => nodes'[i] = nodes[i]
  BY <1>4, <1>2
<1>7. nodes'[k].chip = nodes[k].chip /\ nodes'[k].base = nodes[k].base /\ nodes'[k].cache = new
  BY <1>2, <1>6 DEF Node
<1>8. \A i \in DOMAIN nodes : nodes'[i].chip = nodes[i].chip /\ nodes'[i].base = nodes[i].base
  BY <1>6, <1>7
<1>9. OnePerChip'
  BY <1>5, <1>8 DEF OnePerChip
<1>10. (\A i \in DOMAIN nodes : Cache(nodes[i].chip) = nodes[i].cache)'
  BY <1>9 DEF OnePerChip, NodeOf, Cache
<1>11. Cache(c)' = new
  BY <1>1, <1>5, <1>7, <1>10
<1>12. ASSUME NEW d \in Chips
       PROVE  HasNode(d)' = HasNode(d) /\ (HasNode(d) /\ d # c => Cache(d)' = Cache(d))
  <2>1. HasNode(d)' = HasNode(d)
    BY <1>5, <1>8 DEF HasNode
  <2>2. ASSUME HasNode(d), d # c PROVE Cache(d)' = Cache(d)
    <3>1. PICK i \in DOMAIN nodes : nodes[i].chip = d
      BY <2>2 DEF HasNode
    <3>2. Cache(d) = nodes[i].cache /\ i # k
      BY <1>1, <2>2, <3>1, NodeOfChip
    <3> QED BY <1>5, <1>6, <1>8, <1>10, <3>1, <3>2
  <2> QED BY <2>1, <2>2
<1> QED BY <1>5, <1>8, <1>9, <1>11, <1>12

\* A pin number is looked up among the nodes.
LEMMA MinExists ==
  ASSUME NEW S \in SUBSET Nat, S # {}
  PROVE  \E m \in S : \A n \in S : m <= n
<1>1. \E m \in S : \A n \in S : ~(<<n, m>> \in OpToRel(<, Nat))
  BY NatLessThanWellFounded, WFMin
<1>2. PICK m \in S : \A n \in S : ~(<<n, m>> \in OpToRel(<, Nat))
  BY <1>1
<1>3. \A n \in S : ~(n < m)
  BY <1>2 DEF OpToRel
<1> QED BY <1>3

LEMMA FoundNode ==
  ASSUME TypeOK, NEW pin \in Nat
  PROVE  /\ FindNode(pin) # 0 => FindNode(pin) \in DOMAIN nodes /\ Holds(nodes[FindNode(pin)], pin)
         /\ FindNode(pin) = 0 => \A i \in DOMAIN nodes : ~Holds(nodes[i], pin)
<1> DEFINE found == {i \in DOMAIN nodes : Holds(nodes[i], pin)}
<1>1. found \in SUBSET Nat /\ 0 \notin found
  BY DEF TypeOK
<1>2. CASE found = {}
  <2>1. FindNode(pin) = 0
    BY <1>2 DEF FindNode
  <2> QED BY <1>2, <2>1
<1>3. CASE found # {}
  <2>1. \E i \in found : \A j \in found : i <= j
    BY <1>1, <1>3, MinExists
  <2>2. FindNode(pin) = CHOOSE i \in found : \A j \in found : i <= j
    BY <1>3 DEF FindNode
  <2>3. FindNode(pin) \in found
    BY <2>1, <2>2
  <2> QED BY <1>1, <2>3
<1> QED BY <1>2, <1>3

-----------------------------------------------------------------------------
(* Types, and what holds of a call in progress.                            *)

Proper(o) ==
  /\ HasNode(o.chip)
  /\ kind[o.chip] = "sr595" => o.reg = "latch"
  /\ o.step = "keep" => o.reg = "latch"
  /\ o.step # "load" => o.new \subseteq InBank(o.chip, Bank(o.chip, o.pin))
CallsInv == OnePerChip /\ \A t \in Thread : op[t] # Idle => Proper(op[t])

LEMMA SameChips ==
  ASSUME kind' = kind
  PROVE  /\ Chips' = Chips
         /\ \A c : Pins(c)' = Pins(c)
         /\ \A c, i : Bank(c, i)' = Bank(c, i) /\ InBank(c, i)' = InBank(c, i)
         /\ PinCall' = PinCall /\ Node' = Node
BY DEF Chips, Pins, Bank, InBank, Latched, PinCall, Node

LEMMA StaysProper ==
  ASSUME kind' = kind, \A d \in Chips : HasNode(d) => HasNode(d)', NEW o \in PinCall, Proper(o)
  PROVE  Proper(o)'
BY SameChips DEF Proper, PinCall

LEMMA IdleIsNoCall == Idle \notin PinCall /\ Idle.step = "idle"
BY DEF Idle, PinCall

\* A step of thread t that leaves the chips and the nodes there are.
LEMMA CallChanges ==
  ASSUME TypeOK, CallsInv, kind' = kind, UNCHANGED held,
         word' \in [Chips -> [Register -> SUBSET Nat]],
         asked' \in [Chips -> SUBSET Nat], fresh' \in [Chips -> SUBSET Nat],
         nodes' \in Seq(Node), OnePerChip', \A d \in Chips : HasNode(d) => HasNode(d)',
         NEW t \in Thread, NEW o \in PinCall \cup {Idle}, op' = [op EXCEPT ![t] = o],
         o # Idle => Proper(o) /\ o.pin \in Pins(o.chip)
  PROVE  TypeOK' /\ CallsInv'
<1>1. op' \in [Thread -> PinCall \cup {Idle}] /\ op'[t] = o /\ \A u \in Thread \ {t} : op'[u] = op[u]
  BY DEF TypeOK
<1>2. TypeOK'
  BY <1>1, SameChips DEF TypeOK
<1>3. ASSUME NEW u \in Thread, op'[u] # Idle PROVE Proper(op[u])'
  <2>1. PICK x \in PinCall : x = op'[u]
    BY <1>1, <1>3
  <2>2. Proper(x)
    BY <1>1, <1>3, <2>1 DEF CallsInv
  <2>3. Proper(x)'
    BY <2>2, StaysProper
  <2> QED BY <2>1, <2>3 DEF Proper
<1>4. Idle' = Idle
  BY DEF Idle
<1> QED BY <1>2, <1>3, <1>4 DEF CallsInv

LEMMA TypeInit == Init => TypeOK /\ CallsInv
<1> SUFFICES ASSUME Init PROVE TypeOK /\ CallsInv
  OBVIOUS
<1>1. kind \in Boards /\ \A c \in Chips : kind[c] \in Kind /\ Size[kind[c]] \in Nat
  BY Parameters DEF Init, Chips
<1>2. \A c \in Chips : Pins(c) \subseteq Nat
  BY <1>1 DEF Pins
<1>3. \A c \in Chips : [in    |-> IF Latched(c) THEN Pins(c) ELSE {},
                        latch |-> IF kind[c] = "pcf8574" THEN Pins(c) ELSE {},
                        pull  |-> {}] \in [Register -> SUBSET Nat]
  BY <1>2 DEF Register
<1>4. word \in [Chips -> [Register -> SUBSET Nat]]
  BY <1>3 DEF Init
<1>5. nodes \in Seq(Node) /\ DOMAIN nodes = {}
  BY DEF Init
<1>6. \A t \in Thread : op[t] = Idle
  BY DEF Init
<1> QED BY <1>1, <1>4, <1>5, <1>6 DEF Init, TypeOK, CallsInv, OnePerChip

LEMMA EndsKeepsTypes ==
  ASSUME TypeOK, CallsInv, Ends, UNCHANGED <<kind, word, held>>
  PROVE  TypeOK' /\ CallsInv'
<1>1. nodes' \in Seq(Node') /\ DOMAIN nodes' = {}
  BY DEF Ends
<1>2. Idle' = Idle
  BY DEF Idle
<1> QED BY <1>1, <1>2, SameChips DEF Ends, TypeOK, CallsInv, OnePerChip

LEMMA SetupKeepsTypes ==
  ASSUME TypeOK, CallsInv, NEW c \in Chips, NEW base \in Bases[c], Setup(c, base)
  PROVE  TypeOK' /\ CallsInv'
<1>1. CASE Ends
  BY <1>1, EndsKeepsTypes DEF Setup
<1>2. CASE ~Overlaps(c, base)
  <2>1. PICK cache \in SetupLatch(c) :
          nodes' = <<[chip |-> c, base |-> base, cache |-> cache]>> \o nodes
    BY <1>2 DEF Setup
  <2>2. ASSUME NEW i \in Pins(c) PROVE i \in Nat
    BY <2>2, KindOfChip DEF Pins
  <2>3. cache \in SUBSET Nat
    BY <2>2, KindOfChip DEF SetupLatch, Reads, TypeOK, Kind, Register, Latched
  <2>4. [chip |-> c, base |-> base, cache |-> cache] \in Node
    BY <2>3, Parameters DEF Node, TypeOK, Chips
  <2>5. ~HasNode(c)
    BY DEF Setup, HasNode
  <2>6. /\ nodes' \in Seq(Node) /\ OnePerChip'
        /\ \A d \in Chips : HasNode(d) => HasNode(d)'
    BY <2>1, <2>4, <2>5, SetupAddsNode DEF CallsInv
  <2>7. \A i \in Pins(c) : Bank(c, i) \in Nat
    BY <2>2, KindOfChip, Parameters DEF Bank
  <2>8. asked' \in [Chips -> SUBSET Nat] /\ fresh' \in [Chips -> SUBSET Nat]
    BY <1>2, <2>7 DEF Setup, TypeOK, Banks, Register, Ends
  <2>9. UNCHANGED <<kind, word, held, op>>
    BY <1>2 DEF Setup
  <2>10. ASSUME NEW u \in Thread, op[u] # Idle PROVE Proper(op[u])'
    BY <2>6, <2>9, <2>10, StaysProper DEF TypeOK, CallsInv
  <2>11. Idle' = Idle
    BY DEF Idle
  <2> QED BY <2>6, <2>8, <2>9, <2>10, <2>11, SameChips DEF TypeOK, CallsInv
<1> QED BY <1>1, <1>2 DEF Setup

LEMMA PullKeepsTypes ==
  ASSUME TypeOK, CallsInv, NEW c \in Chips, NEW i \in Pins(c), Pull(c, i)
  PROVE  TypeOK' /\ CallsInv'
<1>1. i \in Nat
  BY KindOfChip DEF Pins
<1>2. held' \in [Chips -> SUBSET Nat]
  BY <1>1 DEF Pull, TypeOK
<1>3. UNCHANGED <<kind, word, nodes, op, asked, fresh>>
  BY DEF Pull
<1>4. ASSUME NEW u \in Thread, op[u] # Idle PROVE Proper(op[u])'
  BY <1>3, <1>4, SameChips DEF CallsInv, Proper, HasNode
<1>5. OnePerChip' /\ Idle' = Idle
  BY <1>3 DEF CallsInv, OnePerChip, Idle
<1> QED BY <1>2, <1>3, <1>4, <1>5, SameChips DEF TypeOK, CallsInv

\* A call is for a pin of a chip with a node; the register is its latch, or one
\* that the chip has.
Begun(t, c, i, reg, bit) ==
  /\ HasNode(c) /\ op[t] = Idle
  /\ kind[c] = "sr595" => reg = "latch"
  /\ Apart => ~Busy(c, reg, Bank(c, i))
  /\ op' = [op EXCEPT ![t] =
               [step |-> "load", chip |-> c, pin |-> i, reg |-> reg, bit |-> bit, new |-> {}]]
  /\ asked' = IF reg # "latch" THEN asked
              ELSE [asked EXCEPT ![c] = IF bit THEN @ \cup {i} ELSE @ \ {i}]
  /\ UNCHANGED <<kind, word, held, nodes, fresh>>

LEMMA BeginIsBegun ==
  ASSUME TypeOK, NEW t \in Thread, NEW pin \in Nat, NEW bit \in BOOLEAN,
         NEW regOf, regOf["sr595"] \in {"latch", "none"}, Begin(t, pin, regOf, bit)
  PROVE  \E c \in Chips : \E i \in Pins(c) : \E reg \in Register : Begun(t, c, i, reg, bit)
<1> DEFINE k == FindNode(pin)
           c == nodes[k].chip
           i == pin - nodes[k].base
           reg == regOf[kind[c]]
<1>1. k \in DOMAIN nodes /\ Holds(nodes[k], pin) /\ nodes[k] \in Node
  BY FoundNode DEF Begin, TypeOK
<1>2. c \in Chips /\ HasNode(c)
  BY <1>1 DEF Node, HasNode
<1>3. i \in Pins(c)
  BY <1>1, <1>2, KindOfChip DEF Holds, Pins, Node, Max
<1>4. reg \in Register /\ (Apart => ~Busy(c, reg, Bank(c, i)))
  BY DEF Begin
<1>5. kind[c] = "sr595" => reg = "latch"
  BY <1>4 DEF Register
<1>6. /\ op' = [op EXCEPT ![t] =
                   [step |-> "load", chip |-> c, pin |-> i, reg |-> reg, bit |-> bit, new |-> {}]]
      /\ asked' = IF reg # "latch" THEN asked
                  ELSE [asked EXCEPT ![c] = IF bit THEN @ \cup {i} ELSE @ \ {i}]
      /\ op[t] = Idle /\ UNCHANGED <<kind, word, held, nodes, fresh>>
  BY DEF Begin
<1>7. Begun(t, c, i, reg, bit)
  BY <1>2, <1>4, <1>5, <1>6 DEF Begun
<1> QED BY <1>2, <1>3, <1>4, <1>7

LEMMA PinNumbersAreNumbers == TypeOK => PinNumbers \subseteq Nat
BY KindOfChip, Parameters DEF PinNumbers, TypeOK, Chips

LEMMA CallIsBegun ==
  ASSUME TypeOK, NEW t \in Thread, Call(t)
  PROVE  \E c \in Chips : \E i \in Pins(c) : \E reg \in Register : \E bit \in BOOLEAN :
           Begun(t, c, i, reg, bit)
<1>1. PICK pin \in PinNumbers, bit \in BOOLEAN :
        DigitalWrite(t, pin, bit) \/ PinMode(t, pin, bit) \/ PullUpDnControl(t, pin, bit)
  BY DEF Call
<1>2. pin \in Nat
  BY PinNumbersAreNumbers
<1>3. CASE DigitalWrite(t, pin, bit)
  BY <1>2, <1>3, BeginIsBegun DEF DigitalWrite, Kind
<1>4. CASE PinMode(t, pin, bit)
  BY <1>2, <1>4, BeginIsBegun DEF PinMode
<1>5. CASE PullUpDnControl(t, pin, bit)
  BY <1>2, <1>5, BeginIsBegun DEF PullUpDnControl, Kind
<1> QED BY <1>1, <1>3, <1>4, <1>5

LEMMA BegunKeepsTypes ==
  ASSUME TypeOK, CallsInv, NEW t \in Thread, NEW c \in Chips, NEW i \in Pins(c),
         NEW reg \in Register, NEW bit \in BOOLEAN, Begun(t, c, i, reg, bit)
  PROVE  TypeOK' /\ CallsInv'
<1> DEFINE o == [step |-> "load", chip |-> c, pin |-> i, reg |-> reg, bit |-> bit, new |-> {}]
<1>1. i \in Nat
  BY KindOfChip DEF Pins
<1>2. o \in PinCall /\ o.pin \in Pins(o.chip)
  BY <1>1 DEF PinCall
<1>3. Proper(o)
  BY DEF Proper, Begun
<1>4. asked' \in [Chips -> SUBSET Nat]
  BY <1>1 DEF Begun, TypeOK
<1>5. UNCHANGED <<kind, word, held, nodes, fresh>> /\ op' = [op EXCEPT ![t] = o]
  BY DEF Begun
<1>6. nodes' \in Seq(Node) /\ OnePerChip' /\ \A d \in Chips : HasNode(d) => HasNode(d)'
  BY <1>5 DEF CallsInv, OnePerChip, HasNode, TypeOK
<1> HIDE DEF o
<1> QED BY <1>2, <1>3, <1>4, <1>5, <1>6, CallChanges DEF TypeOK

\* What a read leaves in the call.
Loaded(t, old) ==
  LET o == op[t]
      mine == old \cap InBank(o.chip, Bank(o.chip, o.pin))
  IN [o EXCEPT !.step = IF kind[o.chip] = "sr595" THEN "keep" ELSE "store",
               !.new = IF o.bit THEN mine \cup {o.pin} ELSE mine \ {o.pin}]

\* A thread that is to read, write or remember is in a call.
LEMMA InCall ==
  ASSUME TypeOK, CallsInv, NEW t \in Thread, op[t].step \in {"load", "store", "keep"}
  PROVE  /\ op[t] # Idle /\ op[t] \in PinCall /\ Proper(op[t])
         /\ op[t].pin \in Pins(op[t].chip) /\ op[t].chip \in Chips
BY IdleIsNoCall DEF TypeOK, CallsInv, PinCall

LEMMA LoadKeepsTypes ==
  ASSUME TypeOK, CallsInv, NEW t \in Thread, Load(t)
  PROVE  TypeOK' /\ CallsInv'
<1> DEFINE c == op[t].chip
<1>1. /\ op[t] \in PinCall /\ op[t] # Idle /\ Proper(op[t]) /\ op[t].pin \in Pins(c) /\ c \in Chips
  BY InCall DEF Load
<1>2. PICK old : op' = [op EXCEPT ![t] = Loaded(t, old)]
  BY DEF Load, Loaded
<1>3. \A i \in Pins(c) : i \in Nat
  BY <1>1, KindOfChip DEF Pins
<1>4. PICK o : o = Loaded(t, old)
  OBVIOUS
<1>5. /\ o.chip = c /\ o.pin = op[t].pin /\ o.reg = op[t].reg /\ o.bit = op[t].bit
      /\ o.step = (IF kind[c] = "sr595" THEN "keep" ELSE "store")
      /\ o.new \subseteq InBank(c, Bank(c, o.pin)) /\ o.new \subseteq Nat
      /\ o \in PinCall
  <2>1. op[t].pin \in InBank(c, Bank(c, op[t].pin))
    BY <1>1, BankOfPin
  <2>2. InBank(c, Bank(c, op[t].pin)) \subseteq Nat
    BY <1>3 DEF InBank
  <2>3. PICK st : st = IF kind[c] = "sr595" THEN "keep" ELSE "store"
    OBVIOUS
  <2>4. PICK new : new = LET mine == old \cap InBank(c, Bank(c, op[t].pin))
                         IN IF op[t].bit THEN mine \cup {op[t].pin} ELSE mine \ {op[t].pin}
    OBVIOUS
  <2>5. new \subseteq InBank(c, Bank(c, op[t].pin))
    BY <2>1, <2>4
  <2>6. o = [op[t] EXCEPT !.step = st, !.new = new]
    BY <1>4, <2>3, <2>4 DEF Loaded
  <2>7. /\ o.chip = c /\ o.pin = op[t].pin /\ o.reg = op[t].reg /\ o.bit = op[t].bit
        /\ o.step = st /\ o.new = new
    BY <1>1, <2>6 DEF PinCall
  <2>8. st \in {"load", "store", "keep"} /\ new \in SUBSET Nat
    BY <2>2, <2>3, <2>5
  <2>9. o \in PinCall
    BY <1>1, <2>6, <2>8 DEF PinCall
  <2> QED BY <2>2, <2>3, <2>5, <2>7, <2>9
<1>6. Proper(o) /\ o.pin \in Pins(o.chip)
  BY <1>1, <1>5 DEF Proper
<1>7. UNCHANGED <<kind, word, held, nodes, asked, fresh>>
  BY DEF Load
<1>8. nodes' \in Seq(Node) /\ OnePerChip' /\ \A d \in Chips : HasNode(d) => HasNode(d)'
  BY <1>7 DEF CallsInv, OnePerChip, HasNode, TypeOK
<1> QED BY <1>2, <1>4, <1>5, <1>6, <1>7, <1>8, CallChanges DEF TypeOK

\* Store or its failure, Keep: the call goes on, or ends.
LEMMA NextStepTyped ==
  ASSUME NEW o \in PinCall, o.step # "load", Proper(o)
  PROVE  /\ AfterStore(o) \in PinCall \cup {Idle}
         /\ AfterStore(o) # Idle => AfterStore(o) = [o EXCEPT !.step = "keep"] /\ o.reg = "latch"
         /\ AfterKeep(o) \in PinCall \cup {Idle}
         /\ AfterKeep(o) # Idle => AfterKeep(o) = [o EXCEPT !.step = "store"]
         /\ \A x \in {AfterStore(o), AfterKeep(o)} : x # Idle =>
              /\ x.chip = o.chip /\ x.pin = o.pin /\ x.reg = o.reg /\ x.bit = o.bit /\ x.new = o.new
              /\ Proper(x)
<1>1. [o EXCEPT !.step = "keep"] \in PinCall /\ [o EXCEPT !.step = "store"] \in PinCall
  BY DEF PinCall
<1>2. \A st \in {"keep", "store"} : LET x == [o EXCEPT !.step = st] IN
        /\ x.chip = o.chip /\ x.pin = o.pin /\ x.reg = o.reg /\ x.bit = o.bit /\ x.new = o.new
        /\ x.step = st
  BY DEF PinCall
<1>3. /\ AfterStore(o) \in {Idle, [o EXCEPT !.step = "keep"]}
      /\ AfterStore(o) # Idle => o.reg = "latch"
      /\ AfterKeep(o) \in {Idle, [o EXCEPT !.step = "store"]}
  BY DEF AfterStore, AfterKeep
<1>4. Proper([o EXCEPT !.step = "store"])
  BY <1>2 DEF Proper
<1>5. o.reg = "latch" => Proper([o EXCEPT !.step = "keep"])
  BY <1>2 DEF Proper
<1> QED BY <1>1, <1>2, <1>3, <1>4, <1>5

LEMMA StoreKeepsTypes ==
  ASSUME TypeOK, CallsInv, NEW t \in Thread, Store(t)
  PROVE  TypeOK' /\ CallsInv'
<1> DEFINE c == op[t].chip
<1>1. /\ op[t] \in PinCall /\ op[t] # Idle /\ Proper(op[t]) /\ op[t].pin \in Pins(c) /\ c \in Chips
      /\ op[t].step = "store"
  BY InCall DEF Store
<1>2. PICK o : o = AfterStore(op[t])
  OBVIOUS
<1>3. /\ o \in PinCall \cup {Idle}
      /\ o # Idle => Proper(o) /\ o.pin \in Pins(o.chip)
  BY <1>1, <1>2, NextStepTyped
<1>4. op' = [op EXCEPT ![t] = o]
  BY <1>2 DEF Store
<1>5. op[t].new \in SUBSET Nat /\ op[t].reg \in Register /\ op[t].pin \in Nat
  BY <1>1 DEF PinCall
<1>6. \A old \in SUBSET Nat : Replaced(old, c, Bank(c, op[t].pin), op[t].new) \in SUBSET Nat
  BY <1>5 DEF Replaced
<1>7. word' \in [Chips -> [Register -> SUBSET Nat]]
  <2>1. word[c] \in [Register -> SUBSET Nat]
    BY <1>1 DEF TypeOK
  <2>2. word[c][op[t].reg] \in SUBSET Nat
    BY <2>1, <1>5
  <2>3. PICK w : w = [word[c] EXCEPT ![op[t].reg] = Replaced(@, c, Bank(c, op[t].pin), op[t].new)]
    OBVIOUS
  <2>4. w \in [Register -> SUBSET Nat]
    BY <2>1, <2>2, <2>3, <1>6
  <2>5. word' = word \/ word' = [word EXCEPT ![c] = w]
    BY <2>3 DEF Store
  <2> QED BY <2>4, <2>5 DEF TypeOK
<1>8. fresh' \in [Chips -> SUBSET Nat]
  <2>1. Bank(c, op[t].pin) \in Nat
    BY <1>5, Parameters DEF Bank
  <2>2. fresh[c] \cup {Bank(c, op[t].pin)} \in SUBSET Nat /\ fresh[c] \ {Bank(c, op[t].pin)} \in SUBSET Nat
    BY <1>1, <2>1 DEF TypeOK
  <2>3. \E f \in {fresh[c], fresh[c] \cup {Bank(c, op[t].pin)}, fresh[c] \ {Bank(c, op[t].pin)}} :
          fresh' = fresh \/ fresh' = [fresh EXCEPT ![c] = f]
    BY DEF Store
  <2> QED BY <1>1, <2>2, <2>3 DEF TypeOK
<1>9. UNCHANGED <<kind, held, nodes, asked>>
  BY DEF Store
<1>10. nodes' \in Seq(Node) /\ OnePerChip' /\ \A d \in Chips : HasNode(d) => HasNode(d)'
  BY <1>9 DEF CallsInv, OnePerChip, HasNode, TypeOK
<1> QED BY <1>3, <1>4, <1>7, <1>8, <1>9, <1>10, CallChanges DEF TypeOK

\* What Keep assigns.
LEMMA KeepChangesANode ==
  ASSUME TypeOK, CallsInv, NEW t \in Thread, Keep(t)
  PROVE  LET c == op[t].chip IN
         \E new \in SUBSET Nat :
           /\ new = Replaced(Cache(c), c, Bank(c, op[t].pin), op[t].new)
           /\ nodes' = [nodes EXCEPT ![NodeOf(c)].cache = new]
<1> DEFINE c == op[t].chip
<1>1. op[t] \in PinCall /\ Proper(op[t])
  BY InCall DEF Keep
<1>2. PICK new : new = Replaced(Cache(c), c, Bank(c, op[t].pin), op[t].new)
  OBVIOUS
<1>3. PICK i \in DOMAIN nodes : nodes[i].chip = c
  BY <1>1 DEF Proper, HasNode
<1>4. nodes[i] \in Node /\ Cache(c) = nodes[i].cache
  BY <1>3, NodeOfChip DEF TypeOK, CallsInv
<1>5. new \in SUBSET Nat
  BY <1>1, <1>2, <1>4 DEF Replaced, PinCall, Node
<1> QED BY <1>2, <1>5 DEF Keep, Cache

LEMMA KeepKeepsTypes ==
  ASSUME TypeOK, CallsInv, NEW t \in Thread, Keep(t)
  PROVE  TypeOK' /\ CallsInv'
<1>1. /\ op[t] \in PinCall /\ op[t] # Idle /\ Proper(op[t]) /\ op[t].pin \in Pins(op[t].chip)
      /\ op[t].chip \in Chips /\ HasNode(op[t].chip) /\ op[t].step = "keep"
  BY InCall DEF Keep, Proper
<1>2. PICK o : o = AfterKeep(op[t])
  OBVIOUS
<1>3. /\ o \in PinCall \cup {Idle}
      /\ o # Idle => Proper(o) /\ o.pin \in Pins(o.chip)
  BY <1>1, <1>2, NextStepTyped
<1>4. op' = [op EXCEPT ![t] = o] /\ UNCHANGED <<kind, word, held, asked, fresh>>
  BY <1>2 DEF Keep
<1>5. nodes' \in Seq(Node) /\ OnePerChip' /\ \A d \in Chips : HasNode(d) => HasNode(d)'
  BY <1>1, KeepChangesANode, KeepChangesCache DEF CallsInv
<1> QED BY <1>3, <1>4, <1>5, CallChanges DEF TypeOK

LEMMA StutterKeepsTypes == ASSUME TypeOK, CallsInv, UNCHANGED vars PROVE TypeOK' /\ CallsInv'
<1>1. Idle' = Idle
  BY DEF Idle
<1> QED BY <1>1, SameChips DEF vars, TypeOK, CallsInv, OnePerChip, Proper, HasNode

LEMMA TypeStep == TypeOK /\ CallsInv /\ [Next]_vars => TypeOK' /\ CallsInv'
<1> SUFFICES ASSUME TypeOK, CallsInv, [Next]_vars PROVE TypeOK' /\ CallsInv'
  OBVIOUS
<1>1. CASE \E c \in Chips : \E base \in Bases[c] : Setup(c, base)
  BY <1>1, SetupKeepsTypes
<1>2. CASE \E c \in Chips : \E i \in Pins(c) : Pull(c, i)
  BY <1>2, PullKeepsTypes
<1>3. CASE Exit
  BY <1>3, EndsKeepsTypes DEF Exit
<1>4. ASSUME NEW t \in Thread, Call(t) PROVE TypeOK' /\ CallsInv'
  BY <1>4, CallIsBegun, BegunKeepsTypes
<1>5. ASSUME NEW t \in Thread, CallStep(t) PROVE TypeOK' /\ CallsInv'
  BY <1>5, LoadKeepsTypes, StoreKeepsTypes, KeepKeepsTypes DEF CallStep
<1> QED BY <1>1, <1>2, <1>3, <1>4, <1>5, StutterKeepsTypes DEF Next

\* Types, for any board.
THEOREM TypeCorrect == Spec => []TypeOK
BY TypeInit, TypeStep, PTL DEF Spec

\* With it, that a chip has one node and a call's chip has a node.
THEOREM CallsInvariant == Spec => [](TypeOK /\ CallsInv)
BY TypeInit, TypeStep, PTL DEF Spec

-----------------------------------------------------------------------------
(* Pin numbers.                                                            *)

LEMMA SetupKeepsApart ==
  ASSUME TypeOK, CallsInv, NodesApart, NEW c \in Chips, NEW base \in Bases[c], Setup(c, base)
  PROVE  NodesApart'
<1>1. CASE nodes' = <<>>
  BY <1>1 DEF NodesApart
<1>2. CASE nodes' # <<>>
  <2>1. PICK cache : nodes' = <<[chip |-> c, base |-> base, cache |-> cache]>> \o nodes
    BY <1>2 DEF Setup, Ends
  <2>2. ~Overlaps(c, base) /\ UNCHANGED kind
    BY <1>2 DEF Setup, Ends
  <2>3. PICK n : n = [chip |-> c, base |-> base, cache |-> cache]
    OBVIOUS
  <2>4. nodes \in Seq(Node) /\ \A i \in DOMAIN nodes : nodes[i] \in Node
    BY DEF TypeOK
  <2>5. /\ DOMAIN nodes = 1..Len(nodes) /\ Len(nodes) \in Nat
        /\ DOMAIN nodes' = 1..(Len(nodes) + 1) /\ nodes'[1] = n
        /\ \A i \in 1..Len(nodes) : nodes'[i + 1] = nodes[i]
    <3>1. Len(<<n>>) = 1 /\ <<n>>[1] = n
      OBVIOUS
    <3>2. PICK S : <<n>> \in Seq(S) /\ nodes \in Seq(S)
      <4>1. nodes \in Seq(Node \cup {n}) /\ <<n>> \in Seq(Node \cup {n})
        BY <2>4
      <4> QED BY <4>1
    <3>3. nodes' = <<n>> \o nodes
      BY <2>1, <2>3
    <3> QED BY <3>1, <3>2, <3>3, ConcatProperties
  <2>6. \A i \in DOMAIN nodes : \A pin \in Nat : Holds(n, pin) => ~Holds(nodes[i], pin)
    <3> SUFFICES ASSUME NEW i \in DOMAIN nodes, NEW pin \in Nat, Holds(n, pin)
                 PROVE  ~Holds(nodes[i], pin)
      OBVIOUS
    <3>1. pin \in base .. base + Size[kind[c]] - 1
      <4>1. base \in Nat /\ Size[kind[c]] \in Nat
        BY KindOfChip, Parameters DEF TypeOK, Chips
      <4> QED BY <2>3, <4>1 DEF Holds, Max
    <3>2. FindNode(pin) = 0
      BY <2>2, <3>1 DEF Overlaps
    <3> QED BY <3>2, FoundNode
  <2>7. \A x, pin : Holds(x, pin)' = Holds(x, pin)
    BY <2>2 DEF Holds, Max
  <2> SUFFICES ASSUME NEW i \in DOMAIN nodes', NEW j \in DOMAIN nodes', NEW pin \in Nat,
                      Holds(nodes[i], pin)', Holds(nodes[j], pin)'
               PROVE  i = j
    BY DEF NodesApart
  <2>8. Holds(nodes'[i], pin) /\ Holds(nodes'[j], pin)
    BY <2>2 DEF Holds, Max
  <2>9. \A k \in DOMAIN nodes' : k # 1 => k - 1 \in DOMAIN nodes /\ nodes'[k] = nodes[k - 1]
    <3> SUFFICES ASSUME NEW k \in DOMAIN nodes', k # 1
                 PROVE  k - 1 \in DOMAIN nodes /\ nodes'[k] = nodes[k - 1]
      OBVIOUS
    <3>1. k - 1 \in 1..Len(nodes) /\ (k - 1) + 1 = k
      BY <2>5
    <3> QED BY <2>5, <3>1
  <2>10. CASE i = 1
    BY <2>5, <2>6, <2>8, <2>9, <2>10
  <2>11. CASE j = 1
    BY <2>5, <2>6, <2>8, <2>9, <2>11
  <2>12. CASE i # 1 /\ j # 1
    <3>1. i - 1 = j - 1
      BY <2>8, <2>9, <2>12 DEF NodesApart
    <3> QED BY <2>5, <3>1
  <2> QED BY <2>10, <2>11, <2>12
<1> QED BY <1>1, <1>2

\* Any other step leaves the nodes their chips and bases.
LEMMA OthersKeepApart ==
  ASSUME NodesApart, kind' = kind, DOMAIN nodes' = DOMAIN nodes,
         \A i \in DOMAIN nodes : nodes'[i].chip = nodes[i].chip /\ nodes'[i].base = nodes[i].base
  PROVE  NodesApart'
<1>1. \A i \in DOMAIN nodes' : \A pin \in Nat : Holds(nodes[i], pin)' = Holds(nodes[i], pin)
  BY DEF Holds, Max
<1> QED BY <1>1 DEF NodesApart

LEMMA ApartStep == TypeOK /\ CallsInv /\ NodesApart /\ [Next]_vars => NodesApart'
<1> SUFFICES ASSUME TypeOK, CallsInv, NodesApart, [Next]_vars PROVE NodesApart'
  OBVIOUS
<1>1. CASE \E c \in Chips : \E base \in Bases[c] : Setup(c, base)
  BY <1>1, SetupKeepsApart
<1>2. CASE Exit
  BY <1>2 DEF Exit, Ends, NodesApart
<1>3. CASE UNCHANGED <<kind, nodes>>
  BY <1>3, OthersKeepApart
<1>4. ASSUME NEW t \in Thread, Keep(t) PROVE NodesApart'
  <2>1. op[t] \in PinCall /\ Proper(op[t]) /\ op[t].chip \in Chips
    BY <1>4, InCall DEF Keep
  <2>2. UNCHANGED kind
    BY <1>4 DEF Keep
  <2> QED BY <1>4, <2>1, <2>2, KeepChangesANode, KeepChangesCache, OthersKeepApart DEF CallsInv, Proper
<1>5. ASSUME NEW t \in Thread, Call(t) PROVE UNCHANGED <<kind, nodes>>
  BY <1>5, CallIsBegun DEF Begun
<1> QED BY <1>1, <1>2, <1>3, <1>4, <1>5 DEF Next, CallStep, Load, Store, Pull, vars

\* The pins of two nodes never overlap, so that a pin number means one pin.
THEOREM PinsHaveOneNode == Spec => []NodesApart
<1>1. Init => NodesApart
  BY DEF Init, NodesApart
<1> QED BY <1>1, ApartStep, CallsInvariant, PTL DEF Spec

-----------------------------------------------------------------------------
(* The latch, the node's memory of it and what the program asked for.      *)

Same(s, r, c, b) == s \cap InBank(c, b) = r \cap InBank(c, b)

\* Thread t is in a call that writes bank b of the latch of chip c.
Serves(t, c, b) == /\ op[t] # Idle /\ op[t].chip = c /\ op[t].reg = "latch"
                   /\ Bank(c, op[t].pin) = b

\* Between calls all agree, in a call what it has yet to do makes them agree.
Settled(c, b) == /\ Same(Cache(c), asked[c], c, b)
                 /\ b \in fresh[c] => Same(word[c].latch, asked[c], c, b)
Midway(t, c, b) ==
  LET o == op[t]
      cached == Cache(c) \cap InBank(c, b)
      meant == asked[c] \cap InBank(c, b)
  IN /\ o.step = "load" => meant = IF o.bit THEN cached \cup {o.pin} ELSE cached \ {o.pin}
     /\ o.step # "load" => o.new = meant
     /\ o.step = "store" /\ kind[c] = "sr595" => cached = meant
     /\ o.step = "keep" /\ kind[c] # "sr595" /\ b \in fresh[c] =>
          word[c].latch \cap InBank(c, b) = meant
BankInv(c, b) ==
  /\ \A t, u \in Thread : Serves(t, c, b) /\ Serves(u, c, b) => t = u
  /\ (\A t \in Thread : ~Serves(t, c, b)) => Settled(c, b)
  /\ \A t \in Thread : Serves(t, c, b) => Midway(t, c, b)
LatchInv == \A c \in Chips : HasNode(c) => \A b \in Banks(c) : BankInv(c, b)

\* A bank that a step does not touch.
LEMMA BankUntouched ==
  ASSUME kind' = kind, NEW c, NEW b, BankInv(c, b),
         \A t \in Thread : \/ op'[t] = op[t]
                           \/ ~Serves(t, c, b) /\ ~Serves(t, c, b)',
         Same(Cache(c)', Cache(c), c, b), Same(asked'[c], asked[c], c, b),
         Same(word'[c].latch, word[c].latch, c, b), b \in fresh'[c] <=> b \in fresh[c]
  PROVE  BankInv(c, b)'
<1>1. \A t \in Thread : Serves(t, c, b)' <=> Serves(t, c, b)
  BY SameChips DEF Serves, Idle
<1>2. ASSUME \A t \in Thread : ~Serves(t, c, b)' PROVE Settled(c, b)'
  <2>1. Settled(c, b)
    BY <1>1, <1>2 DEF BankInv
  <2> QED BY <2>1, SameChips DEF Settled, Same
<1>3. ASSUME NEW t \in Thread, Serves(t, c, b)' PROVE Midway(t, c, b)'
  <2>1. Midway(t, c, b) /\ op'[t] = op[t]
    BY <1>1, <1>3 DEF BankInv
  <2> QED BY <2>1, SameChips DEF Midway, Same
<1> QED BY <1>1, <1>2, <1>3 DEF BankInv

\* A bank that thread t serves before or after its step, and no other.
LEMMA BankTouched ==
  ASSUME kind' = kind, NEW c, NEW b, NEW t \in Thread,
         \A u \in Thread \ {t} : op'[u] = op[u] /\ ~Serves(u, c, b),
         Serves(t, c, b)' => Midway(t, c, b)', ~Serves(t, c, b)' => Settled(c, b)'
  PROVE  BankInv(c, b)'
<1>1. \A u \in Thread \ {t} : ~Serves(u, c, b)'
  BY SameChips DEF Serves, Idle
<1> QED BY <1>1 DEF BankInv

LEMMA SetupKeepsLatch ==
  ASSUME Apart, "read" \notin Fails, TypeOK, CallsInv, LatchInv,
         NEW c \in Chips, NEW base \in Bases[c], Setup(c, base)
  PROVE  LatchInv'
<1>1. CASE Ends
  BY <1>1 DEF Ends, LatchInv, HasNode
<1>2. CASE ~Overlaps(c, base)
  <2>1. PICK cache \in SetupLatch(c) :
          nodes' = <<[chip |-> c, base |-> base, cache |-> cache]>> \o nodes
    BY <1>2 DEF Setup
  <2>2. UNCHANGED <<kind, word, held, op>> /\ held[c] = {}
    BY <1>2 DEF Setup
  <2>3. /\ kind[c] = "sr595" => cache = {}
        /\ kind[c] # "sr595" => cache = word[c].latch
    BY <2>1, <2>2, KindOfChip DEF SetupLatch, Reads, Latched, Kind
  <2>4. /\ kind[c] = "sr595" => asked'[c] = {} /\ fresh'[c] = {}
        /\ kind[c] # "sr595" => asked'[c] = word[c].latch
        /\ \A d \in Chips : d # c => asked'[d] = asked[d] /\ fresh'[d] = fresh[d]
    BY <1>2 DEF Setup, TypeOK
  <2>5. ~HasNode(c)
    BY DEF Setup, HasNode
  <2>6. [chip |-> c, base |-> base, cache |-> cache] \in Node
    <3>1. \A i \in Pins(c) : i \in Nat
      BY KindOfChip DEF Pins
    <3>2. cache \in SUBSET Nat
      BY <3>1, <2>3 DEF TypeOK, Register
    <3> QED BY <3>2, Parameters DEF Node, TypeOK, Chips
  <2>7. /\ Cache(c)' = cache
        /\ \A d \in Chips : d # c => /\ HasNode(d)' = HasNode(d)
                                     /\ HasNode(d) => Cache(d)' = Cache(d)
    BY <2>1, <2>5, <2>6, SetupAddsNode DEF CallsInv
  <2>8. ASSUME NEW b \in Banks(c) PROVE BankInv(c, b)'
    <3>1. \A t \in Thread : ~Serves(t, c, b)
      BY <2>5 DEF Serves, CallsInv, Proper
    <3>2. \A t \in Thread : ~Serves(t, c, b)'
      BY <2>2, <3>1, SameChips DEF Serves, Idle
    <3>3. Settled(c, b)'
      BY <2>2, <2>3, <2>4, <2>7 DEF Settled, Same
    <3> QED BY <3>2, <3>3 DEF BankInv
  <2>9. ASSUME NEW d \in Chips, d # c, HasNode(d), NEW b \in Banks(d) PROVE BankInv(d, b)'
    <3>1. BankInv(d, b)
      BY <2>9 DEF LatchInv
    <3> QED BY <2>2, <2>4, <2>7, <2>9, <3>1, BankUntouched DEF Same
  <2>10. \A d : Banks(d)' = Banks(d)
    BY <2>2, SameChips DEF Banks
  <2>11. Chips' = Chips
    BY <2>2, SameChips
  <2> QED BY <2>7, <2>8, <2>9, <2>10, <2>11 DEF LatchInv
<1> QED BY <1>1, <1>2 DEF Setup

\* What remains to be shown of a step of thread t in a call of chip c: the bank
\* of its pin, if its register is the latch.
LEMMA OneBankTouched ==
  ASSUME TypeOK, CallsInv, LatchInv, kind' = kind, NEW t \in Thread, NEW c \in Chips, NEW i \in Pins(c),
         op[t] # Idle => op[t].chip = c /\ op[t].pin = i,
         op'[t] # Idle => op'[t].chip = c /\ op'[t].pin = i,
         \A u \in Thread \ {t} : op'[u] = op[u],
         \A d \in Chips : HasNode(d)' => HasNode(d),
         NEW bank, bank = Bank(c, i),
         \A d \in Chips : HasNode(d) =>
           \A b \in Banks(d) : \/ d = c /\ b = bank
                               \/ /\ Same(Cache(d)', Cache(d), d, b)
                                  /\ Same(asked'[d], asked[d], d, b)
                                  /\ Same(word'[d].latch, word[d].latch, d, b)
                                  /\ b \in fresh'[d] <=> b \in fresh[d],
         HasNode(c) => BankInv(c, bank)'
  PROVE  LatchInv'
<1>1. ASSUME NEW d \in Chips, HasNode(d), NEW b \in Banks(d), ~(d = c /\ b = bank)
      PROVE  BankInv(d, b)'
  <2>1. BankInv(d, b)
    BY <1>1 DEF LatchInv
  <2>2. ~Serves(t, d, b) /\ ~Serves(t, d, b)'
    BY <1>1, SameChips DEF Serves, Idle
  <2> QED BY <1>1, <2>1, <2>2, BankUntouched
<1>2. Chips' = Chips /\ \A d : Banks(d)' = Banks(d)
  BY SameChips DEF Banks
<1>3. ASSUME NEW d \in Chips, HasNode(d)', NEW b \in Banks(d) PROVE BankInv(d, b)'
  BY <1>1, <1>3
<1> QED BY <1>2, <1>3 DEF LatchInv

LEMMA BegunKeepsLatch ==
  ASSUME Apart, TypeOK, CallsInv, LatchInv, NEW t \in Thread, NEW c \in Chips, NEW i \in Pins(c),
         NEW reg \in Register, NEW bit \in BOOLEAN, Begun(t, c, i, reg, bit)
  PROVE  LatchInv'
<1>0. PICK b : b = Bank(c, i)
  OBVIOUS
<1>1. PICK o : o = [step |-> "load", chip |-> c, pin |-> i, reg |-> reg, bit |-> bit, new |-> {}]
  OBVIOUS
<1>2. /\ o.step = "load" /\ o.chip = c /\ o.pin = i /\ o.reg = reg /\ o.bit = bit
      /\ o # Idle /\ op[t] = Idle
      /\ op'[t] = o /\ \A u \in Thread \ {t} : op'[u] = op[u]
  BY <1>1 DEF Begun, TypeOK, Idle
<1>3. UNCHANGED <<kind, word, nodes, fresh>>
  BY DEF Begun
<1>4. \A d : HasNode(d)' = HasNode(d) /\ Cache(d)' = Cache(d)
  BY <1>3 DEF HasNode, Cache, NodeOf
<1>5. i \in InBank(c, b) /\ b \in Banks(c)
  BY <1>0, BankOfPin
<1>6. /\ reg # "latch" => asked' = asked
      /\ reg = "latch" => asked'[c] = IF bit THEN asked[c] \cup {i} ELSE asked[c] \ {i}
      /\ \A d \in Chips : d # c => asked'[d] = asked[d]
  BY DEF Begun, TypeOK
<1>7. \A d \in Chips : \A e : ~(d = c /\ e = b) => Same(asked'[d], asked[d], d, e)
  <2> SUFFICES ASSUME NEW d \in Chips, NEW e, ~(d = c /\ e = b) PROVE Same(asked'[d], asked[d], d, e)
    OBVIOUS
  <2>1. CASE d # c
    BY <1>6, <2>1 DEF Same
  <2>2. CASE d = c
    <3>1. i \notin InBank(c, e)
      BY <1>0, <2>2 DEF InBank
    <3> QED BY <1>6, <2>2, <3>1 DEF Same
  <2> QED BY <2>1, <2>2
<1>8. HasNode(c) => BankInv(c, b)'
  <2> SUFFICES ASSUME HasNode(c) PROVE BankInv(c, b)'
    OBVIOUS
  <2>1. BankInv(c, b)
    BY <1>5 DEF LatchInv
  <2>2. CASE reg # "latch"
    <3>1. ~Serves(t, c, b) /\ ~Serves(t, c, b)'
      BY <1>0, <1>2, <1>3, <2>2, SameChips DEF Serves, Idle
    <3> QED BY <1>2, <1>3, <1>4, <1>6, <2>1, <2>2, <3>1, BankUntouched DEF Same
  <2>3. CASE reg = "latch"
    <3>1. \A u \in Thread : ~Serves(u, c, b)
      BY <1>0, <2>3 DEF Begun, Busy, Serves
    <3>2. Settled(c, b)
      BY <2>1, <3>1 DEF BankInv
    <3>3. Serves(t, c, b)'
      BY <1>0, <1>2, <1>3, <2>3, SameChips DEF Serves, Idle
    <3>4. Midway(t, c, b)'
      <4>1. Cache(c) \cap InBank(c, b) = asked[c] \cap InBank(c, b)
        BY <3>2 DEF Settled, Same
      <4>2. asked'[c] \cap InBank(c, b) =
              IF bit THEN (Cache(c) \cap InBank(c, b)) \cup {i} ELSE (Cache(c) \cap InBank(c, b)) \ {i}
        BY <1>5, <1>6, <2>3, <4>1
      <4> QED BY <1>2, <1>3, <1>4, <4>2, SameChips DEF Midway
    <3> QED BY <1>2, <1>3, <3>1, <3>3, <3>4, BankTouched
  <2> QED BY <2>2, <2>3
<1> QED BY <1>0, <1>2, <1>3, <1>4, <1>7, <1>8, OneBankTouched DEF Same

LEMMA LoadKeepsLatch ==
  ASSUME TypeOK, CallsInv, LatchInv, NEW t \in Thread, Load(t)
  PROVE  LatchInv'
<1>0. PICK c, i, b : c = op[t].chip /\ i = op[t].pin /\ b = Bank(c, i)
  OBVIOUS
<1>1. /\ op[t] \in PinCall /\ op[t] # Idle /\ Proper(op[t]) /\ i \in Pins(c) /\ c \in Chips
      /\ op[t].step = "load"
  BY <1>0, InCall DEF Load
<1>2. PICK old : /\ op' = [op EXCEPT ![t] = Loaded(t, old)]
                 /\ op[t].reg = "latch" => old = Cache(c)
  BY <1>0 DEF Load, Loaded, Cache
<1>3. PICK o : o = Loaded(t, old)
  OBVIOUS
<1>4. /\ o.chip = c /\ o.pin = i /\ o.reg = op[t].reg
      /\ o.step = IF kind[c] = "sr595" THEN "keep" ELSE "store"
      /\ o.new = IF op[t].bit THEN (old \cap InBank(c, b)) \cup {i} ELSE (old \cap InBank(c, b)) \ {i}
  BY <1>0, <1>1, <1>3 DEF Loaded, PinCall
<1>5. /\ op'[t] = o /\ o # Idle /\ \A u \in Thread \ {t} : op'[u] = op[u]
  BY <1>2, <1>3, <1>4 DEF TypeOK, Idle
<1>6. UNCHANGED <<kind, word, nodes, asked, fresh>>
  BY DEF Load
<1>7. \A d : HasNode(d)' = HasNode(d) /\ Cache(d)' = Cache(d)
  BY <1>6 DEF HasNode, Cache, NodeOf
<1>8. BankInv(c, b)
  BY <1>0, <1>1, BankOfPin DEF LatchInv, Proper
<1>9. BankInv(c, b)'
  <2>1. CASE op[t].reg # "latch"
    <3>1. ~Serves(t, c, b) /\ ~Serves(t, c, b)'
      BY <1>0, <1>4, <1>5, <2>1 DEF Serves
    <3> QED BY <1>5, <1>6, <1>7, <1>8, <3>1, BankUntouched DEF Same
  <2>2. CASE op[t].reg = "latch"
    <3>1. Serves(t, c, b)
      BY <1>0, <1>1, <2>2 DEF Serves
    <3>2. Midway(t, c, b) /\ \A u \in Thread \ {t} : ~Serves(u, c, b)
      BY <1>8, <3>1 DEF BankInv
    <3>3. Serves(t, c, b)'
      BY <1>0, <1>4, <1>5, <1>6, <2>2, SameChips DEF Serves, Idle
    <3>4. o.new = asked[c] \cap InBank(c, b)
      BY <1>0, <1>1, <1>2, <1>4, <2>2, <3>2 DEF Midway
    <3>5. Midway(t, c, b)'
      BY <1>4, <1>5, <1>6, <3>4, SameChips DEF Midway
    <3> QED BY <1>5, <1>6, <3>2, <3>3, <3>5, BankTouched
  <2> QED BY <2>1, <2>2
<1> QED BY <1>0, <1>1, <1>4, <1>5, <1>6, <1>7, <1>9, OneBankTouched DEF Same

LEMMA StoreKeepsLatch ==
  ASSUME TypeOK, CallsInv, LatchInv, NEW t \in Thread, Store(t)
  PROVE  LatchInv'
<1>0. PICK c, i, b, new, reg :
        c = op[t].chip /\ i = op[t].pin /\ b = Bank(c, i) /\ new = op[t].new /\ reg = op[t].reg
  OBVIOUS
<1>1. /\ op[t] \in PinCall /\ op[t] # Idle /\ Proper(op[t]) /\ i \in Pins(c) /\ c \in Chips
      /\ op[t].step = "store"
  BY <1>0, InCall DEF Store
<1>2. PICK o : o = AfterStore(op[t])
  OBVIOUS
<1>3. /\ o # Idle => /\ o.chip = c /\ o.pin = i /\ o.reg = "latch" /\ o.step = "keep" /\ o.new = new
                     /\ reg = "latch" /\ kind[c] # "sr595"
      /\ reg = "latch" /\ kind[c] # "sr595" => o # Idle
  BY <1>0, <1>1, <1>2 DEF AfterStore, PinCall, Idle
<1>4. /\ op'[t] = o /\ \A u \in Thread \ {t} : op'[u] = op[u]
  BY <1>2 DEF Store, TypeOK
<1>5. UNCHANGED <<kind, nodes, asked>>
  BY DEF Store
<1>6. \A d : HasNode(d)' = HasNode(d) /\ Cache(d)' = Cache(d)
  BY <1>5 DEF HasNode, Cache, NodeOf
<1>7. BankInv(c, b) /\ new \subseteq InBank(c, b)
  BY <1>0, <1>1, BankOfPin DEF LatchInv, Proper
\* Written or not, another bank keeps its latch.
<1>8. \/ /\ word' = [word EXCEPT ![c][reg] = Replaced(@, c, b, new)]
         /\ reg = "latch" => fresh'[c] = fresh[c] \cup {b}
      \/ /\ word' = word /\ kind[c] # "sr595"
         /\ reg = "latch" => fresh'[c] = fresh[c] \ {b}
  BY <1>0, <1>1 DEF Store, TypeOK
<1>9. /\ reg # "latch" => fresh' = fresh
      /\ \A d \in Chips : d # c => fresh'[d] = fresh[d]
  BY <1>0 DEF Store, TypeOK
<1>10. word[c] \in [Register -> SUBSET Nat] /\ reg \in Register /\ "latch" \in Register
  BY <1>0, <1>1 DEF TypeOK, PinCall, Register
<1>11. ASSUME word' = [word EXCEPT ![c][reg] = Replaced(@, c, b, new)]
       PROVE  /\ reg = "latch" => word'[c].latch = Replaced(word[c].latch, c, b, new)
              /\ reg # "latch" => word'[c].latch = word[c].latch
              /\ \A d \in Chips : d # c => word'[d] = word[d]
  <2>1. PICK w : w = [word[c] EXCEPT ![reg] = Replaced(@, c, b, new)]
    OBVIOUS
  <2>2. word' = [word EXCEPT ![c] = w]
    BY <1>11, <2>1
  <2>3. w["latch"] = IF reg = "latch" THEN Replaced(word[c]["latch"], c, b, new) ELSE word[c]["latch"]
    BY <1>10, <2>1
  <2> QED BY <1>1, <2>2, <2>3 DEF TypeOK
<1>12. ASSUME NEW d \in Chips, NEW e, ~(d = c /\ e = b)
       PROVE  /\ Same(word'[d].latch, word[d].latch, d, e)
              /\ e \in fresh'[d] <=> e \in fresh[d]
  <2>1. e \in fresh'[d] <=> e \in fresh[d]
    BY <1>8, <1>9, <1>12
  <2>2. CASE d # c
    BY <1>8, <1>11, <2>1, <2>2 DEF Same
  <2>3. CASE d = c
    <3>1. e # b
      BY <1>12, <2>3
    <3>2. Same(Replaced(word[c].latch, c, b, new), word[c].latch, c, e)
      BY <1>7, <3>1, ReplacedBanks DEF Same
    <3> QED BY <1>8, <1>11, <2>1, <2>3, <3>2 DEF Same
  <2> QED BY <2>2, <2>3
<1>13. BankInv(c, b)'
  <2>1. CASE reg # "latch"
    <3>1. ~Serves(t, c, b) /\ ~Serves(t, c, b)'
      BY <1>0, <1>3, <1>4, <2>1 DEF Serves, Idle
    <3>2. word'[c].latch = word[c].latch /\ fresh' = fresh
      BY <1>8, <1>9, <1>11, <2>1
    <3> QED BY <1>4, <1>5, <1>6, <1>7, <3>1, <3>2, BankUntouched DEF Same
  <2>2. CASE reg = "latch"
    <3>1. Serves(t, c, b)
      BY <1>0, <1>1, <2>2 DEF Serves
    <3>2. Midway(t, c, b) /\ \A u \in Thread \ {t} : ~Serves(u, c, b)
      BY <1>7, <3>1 DEF BankInv
    <3>3. /\ new = asked[c] \cap InBank(c, b)
          /\ kind[c] = "sr595" => Same(Cache(c), asked[c], c, b)
      BY <1>0, <1>1, <3>2 DEF Midway, Same
    <3>4. b \in fresh'[c] => word'[c].latch \cap InBank(c, b) = new
      <4>1. Replaced(word[c].latch, c, b, new) \cap InBank(c, b) = new
        BY <1>7, ReplacedBanks
      <4> QED BY <1>8, <1>11, <2>2, <4>1
    <3>5. CASE o # Idle
      <4>1. Midway(t, c, b)'
        BY <1>3, <1>4, <1>5, <3>3, <3>4, <3>5, SameChips DEF Midway
      <4>2. Serves(t, c, b)'
        BY <1>0, <1>3, <1>4, <1>5, <3>5, SameChips DEF Serves, Idle
      <4> QED BY <1>4, <1>5, <3>2, <4>1, <4>2, BankTouched
    <3>6. CASE o = Idle
      <4>1. kind[c] = "sr595" /\ ~Serves(t, c, b)'
        BY <1>3, <1>4, <2>2, <3>6 DEF Serves, Idle
      <4>2. Settled(c, b)'
        BY <1>5, <1>6, <3>3, <3>4, <4>1, SameChips DEF Settled, Same
      <4> QED BY <1>4, <1>5, <3>2, <4>1, <4>2, BankTouched
    <3> QED BY <3>5, <3>6
  <2> QED BY <2>1, <2>2
<1> QED BY <1>0, <1>1, <1>3, <1>4, <1>5, <1>6, <1>12, <1>13, OneBankTouched DEF Same

LEMMA KeepKeepsLatch ==
  ASSUME TypeOK, CallsInv, LatchInv, NEW t \in Thread, Keep(t)
  PROVE  LatchInv'
<1>0. PICK c, i, b, new :
        c = op[t].chip /\ i = op[t].pin /\ b = Bank(c, i) /\ new = op[t].new
  OBVIOUS
<1>1. /\ op[t] \in PinCall /\ op[t] # Idle /\ Proper(op[t]) /\ i \in Pins(c) /\ c \in Chips
      /\ op[t].step = "keep" /\ op[t].reg = "latch" /\ HasNode(c)
  BY <1>0, InCall DEF Keep, Proper
<1>2. PICK o : o = AfterKeep(op[t])
  OBVIOUS
<1>3. /\ o # Idle => /\ o.chip = c /\ o.pin = i /\ o.reg = "latch" /\ o.step = "store" /\ o.new = new
                     /\ kind[c] = "sr595"
      /\ kind[c] = "sr595" => o # Idle
  BY <1>0, <1>1, <1>2 DEF AfterKeep, PinCall, Idle
<1>4. /\ op'[t] = o /\ \A u \in Thread \ {t} : op'[u] = op[u]
  BY <1>2 DEF Keep, TypeOK
<1>5. UNCHANGED <<kind, word, asked, fresh>>
  BY DEF Keep
<1>6. BankInv(c, b) /\ new \subseteq InBank(c, b)
  BY <1>0, <1>1, BankOfPin DEF LatchInv, Proper
<1>7. PICK memory : memory = Replaced(Cache(c), c, b, new)
  OBVIOUS
<1>8. /\ \A d \in Chips : HasNode(d)' = HasNode(d) /\ (HasNode(d) /\ d # c => Cache(d)' = Cache(d))
      /\ Cache(c)' = memory
  BY <1>0, <1>1, <1>7, KeepChangesANode, KeepChangesCache DEF CallsInv
<1>9. /\ memory \cap InBank(c, b) = new
      /\ \A e : e # b => Same(memory, Cache(c), c, e)
  BY <1>6, <1>7, ReplacedBanks DEF Same
<1>10. Serves(t, c, b)
  BY <1>0, <1>1 DEF Serves
<1>11. Midway(t, c, b) /\ \A u \in Thread \ {t} : ~Serves(u, c, b)
  BY <1>6, <1>10 DEF BankInv
<1>12. /\ new = asked[c] \cap InBank(c, b)
       /\ kind[c] # "sr595" /\ b \in fresh[c] => Same(word[c].latch, asked[c], c, b)
  BY <1>0, <1>1, <1>11 DEF Midway, Same
<1>13. BankInv(c, b)'
  <2>1. CASE o # Idle
    <3>1. Serves(t, c, b)'
      BY <1>0, <1>3, <1>4, <1>5, <2>1, SameChips DEF Serves, Idle
    <3>2. Midway(t, c, b)'
      BY <1>3, <1>4, <1>5, <1>8, <1>9, <1>12, <2>1, SameChips DEF Midway
    <3> QED BY <1>4, <1>5, <1>11, <3>1, <3>2, BankTouched
  <2>2. CASE o = Idle
    <3>1. ~Serves(t, c, b)'
      BY <1>4, <2>2 DEF Serves, Idle
    <3>2. Settled(c, b)'
      BY <1>3, <1>5, <1>8, <1>9, <1>12, <2>2, SameChips DEF Settled, Same
    <3> QED BY <1>4, <1>5, <1>11, <3>1, <3>2, BankTouched
  <2> QED BY <2>1, <2>2
<1>14. \A d \in Chips : HasNode(d) => \A e \in Banks(d) : (d = c /\ e = b) \/ Same(Cache(d)', Cache(d), d, e)
  BY <1>8, <1>9 DEF Same
<1> QED BY <1>0, <1>1, <1>3, <1>4, <1>5, <1>8, <1>13, <1>14, OneBankTouched DEF Same

LEMMA UnchangedLatch ==
  ASSUME LatchInv, UNCHANGED <<kind, word, nodes, op, asked, fresh>>
  PROVE  LatchInv'
<1>1. \A d : HasNode(d)' = HasNode(d) /\ Cache(d)' = Cache(d) /\ Banks(d)' = Banks(d)
  BY SameChips DEF HasNode, Cache, NodeOf, Banks
<1>2. ASSUME NEW d \in Chips, HasNode(d), NEW b \in Banks(d) PROVE BankInv(d, b)'
  BY <1>1, <1>2, BankUntouched DEF LatchInv, Same
<1> QED BY <1>1, <1>2, SameChips DEF LatchInv

LEMMA LatchStep ==
  ASSUME Apart, "read" \notin Fails
  PROVE  TypeOK /\ CallsInv /\ LatchInv /\ [Next]_vars => LatchInv'
<1> SUFFICES ASSUME TypeOK, CallsInv, LatchInv, [Next]_vars PROVE LatchInv'
  OBVIOUS
<1>1. CASE \E c \in Chips : \E base \in Bases[c] : Setup(c, base)
  BY <1>1, SetupKeepsLatch
<1>2. CASE (\E c \in Chips : \E i \in Pins(c) : Pull(c, i)) \/ UNCHANGED vars
  BY <1>2, UnchangedLatch DEF Pull, vars
<1>3. CASE Exit
  BY <1>3 DEF Exit, Ends, LatchInv, HasNode
<1>4. ASSUME NEW t \in Thread, Call(t) PROVE LatchInv'
  BY <1>4, CallIsBegun, BegunKeepsLatch
<1>5. ASSUME NEW t \in Thread, CallStep(t) PROVE LatchInv'
  BY <1>5, LoadKeepsLatch, StoreKeepsLatch, KeepKeepsLatch DEF CallStep
<1> QED BY <1>1, <1>2, <1>3, <1>4, <1>5 DEF Next

\* Threads that keep to their registers, on a bus that reads without errors: the
\* output latch of a bank that is not being written is what the program asked
\* for, after restarts and once a write succeeds after any that failed.
THEOREM LatchFollowsProgram == ASSUME Apart, "read" \notin Fails PROVE Spec => []LatchIsAsked
<1>1. Init => LatchInv
  BY DEF Init, LatchInv, HasNode
<1>2. TypeOK /\ LatchInv => LatchIsAsked
  <2> SUFFICES ASSUME TypeOK, LatchInv, NEW i \in DOMAIN nodes, NEW b \in Banks(nodes[i].chip),
                      b \in fresh[nodes[i].chip], ~Busy(nodes[i].chip, "latch", b)
               PROVE  Same(word[nodes[i].chip].latch, asked[nodes[i].chip], nodes[i].chip, b)
    BY DEF LatchIsAsked, Quiet, Same
  <2>1. PICK c : c = nodes[i].chip
    OBVIOUS
  <2>2. nodes[i] \in Node
    BY DEF TypeOK
  <2>3. c \in Chips /\ HasNode(c)
    BY <2>1, <2>2 DEF Node, HasNode
  <2>4. BankInv(c, b)
    BY <2>1, <2>3 DEF LatchInv
  <2>5. \A t \in Thread : ~Serves(t, c, b)
    BY <2>1 DEF Busy, Serves
  <2> QED BY <2>1, <2>4, <2>5 DEF BankInv, Settled
<1>3. TypeOK /\ CallsInv /\ LatchInv /\ [Next]_vars => LatchInv'
  BY LatchStep
<1> QED BY <1>1, <1>2, <1>3, CallsInvariant, PTL DEF Spec

-----------------------------------------------------------------------------
(* A call and the other pins of its register.                              *)

\* The bits of the bank of call o, but for its own pin.
Rest(s, o) == (s \cap InBank(o.chip, Bank(o.chip, o.pin))) \ {o.pin}

\* Threads that are in calls on one bank of one register are one thread.
SameRegister(o, p) == o.chip = p.chip /\ o.reg = p.reg /\ Bank(o.chip, o.pin) = Bank(p.chip, p.pin)
OneCaller == \A t, u \in Thread :
  op[t] # Idle /\ op[u] # Idle /\ SameRegister(op[t], op[u]) => t = u

\* What a call has read of a register is still there, and of a latch the other pins are
\* what the program asked for, but in a bank whose last write failed.
RestKept(o) ==
  /\ o.reg # "latch" /\ o.step = "store" => Rest(o.new, o) = Rest(word[o.chip][o.reg], o)
  /\ o.reg = "latch" /\ Bank(o.chip, o.pin) \in fresh[o.chip] =>
       Rest(word[o.chip].latch, o) = Rest(asked[o.chip], o)
KeptInv == OneCaller /\ \A t \in Thread : op[t] # Idle => RestKept(op[t])
LEMMA OneRegisterTouched ==
  ASSUME TypeOK, CallsInv, KeptInv, kind' = kind, NEW t \in Thread, NEW c \in Chips, NEW i \in Pins(c),
         NEW reg \in Register, NEW bank, bank = Bank(c, i),
         \A u \in Thread \ {t} :
           op'[u] = op[u] /\ (op[u] # Idle => ~(op[u].chip = c /\ op[u].reg = reg /\ Bank(c, op[u].pin) = bank)),
         op'[t] # Idle => op'[t].chip = c /\ op'[t].pin = i /\ op'[t].reg = reg /\ RestKept(op[t])',
         \A d \in Chips : \A r \in Register : \A e : ~(d = c /\ r = reg /\ e = bank) =>
           /\ Same(word'[d][r], word[d][r], d, e)
           /\ r = "latch" => Same(asked'[d], asked[d], d, e) /\ (e \in fresh'[d] <=> e \in fresh[d])
  PROVE  KeptInv'
<1>1. Idle' = Idle
  BY DEF Idle
<1>2. ASSUME NEW u \in Thread \ {t}, op[u] # Idle PROVE RestKept(op[u])'
  <2>1. PICK o : o = op[u]
    OBVIOUS
  <2>2. o \in PinCall /\ o.chip \in Chips /\ o.reg \in Register /\ "latch" \in Register
    BY <1>2, <2>1 DEF TypeOK, PinCall, Register
  <2>3. RestKept(o)
    BY <1>2, <2>1 DEF KeptInv
  <2>4. Same(word'[o.chip][o.reg], word[o.chip][o.reg], o.chip, Bank(o.chip, o.pin))
    BY <1>2, <2>1, <2>2
  <2>5. o.reg = "latch" => /\ Same(asked'[o.chip], asked[o.chip], o.chip, Bank(o.chip, o.pin))
                           /\ Bank(o.chip, o.pin) \in fresh'[o.chip] <=> Bank(o.chip, o.pin) \in fresh[o.chip]
    BY <1>2, <2>1, <2>2
  <2>6. RestKept(o)'
    <3>1. o.reg # "latch" /\ o.step = "store" => Rest(o.new, o)' = Rest(word[o.chip][o.reg], o)'
      BY <2>3, <2>4, SameChips DEF RestKept, Rest, Same
    <3>2. o.reg = "latch" /\ (Bank(o.chip, o.pin) \in fresh[o.chip])' => Rest(word[o.chip].latch, o)' = Rest(asked[o.chip], o)'
      BY <2>3, <2>4, <2>5, SameChips DEF RestKept, Rest, Same
    <3> QED BY <3>1, <3>2 DEF RestKept
  <2> QED BY <1>2, <2>1, <2>6 DEF RestKept, Rest
<1>3. ASSUME NEW u \in Thread, op'[u] # Idle PROVE RestKept(op[u])'
  BY <1>2, <1>3
<1>4. ASSUME NEW u \in Thread, NEW v \in Thread, op'[u] # Idle, op'[v] # Idle, SameRegister(op[u], op[v])'
      PROVE  u = v
  <2>1. CASE u # t /\ v # t
    BY <1>4, <2>1, SameChips DEF SameRegister, KeptInv, OneCaller
  <2>2. CASE u = t /\ v # t
    BY <1>4, <2>2, SameChips DEF SameRegister
  <2>3. CASE u # t /\ v = t
    BY <1>4, <2>3, SameChips DEF SameRegister
  <2> QED BY <2>1, <2>2, <2>3
<1> QED BY <1>1, <1>3, <1>4 DEF KeptInv, OneCaller

LEMMA SetupKeepsRest ==
  ASSUME TypeOK, CallsInv, KeptInv, NEW c \in Chips, NEW base \in Bases[c], Setup(c, base)
  PROVE  KeptInv'
<1>1. CASE Ends
  BY <1>1 DEF Ends, KeptInv, OneCaller, Idle
<1>2. CASE ~Overlaps(c, base)
  <2>1. UNCHANGED <<kind, word, op>>
    BY <1>2 DEF Setup
  <2>2. \A d \in Chips : d # c => asked'[d] = asked[d] /\ fresh'[d] = fresh[d]
    BY <1>2 DEF Setup, TypeOK
  <2>3. ASSUME NEW u \in Thread, op[u] # Idle PROVE RestKept(op[u])'
    <3>1. PICK o : o = op[u]
      OBVIOUS
    <3>2. o.chip \in Chips /\ o.chip # c
      BY <2>3, <3>1 DEF TypeOK, PinCall, CallsInv, Proper, Setup, HasNode
    <3>3. RestKept(o)
      BY <2>3, <3>1 DEF KeptInv
    <3>4. RestKept(o)'
      BY <2>1, <2>2, <3>2, <3>3, SameChips DEF RestKept, Rest
    <3> QED BY <2>1, <3>1, <3>4 DEF RestKept, Rest
  <2> QED BY <2>1, <2>3, SameChips DEF KeptInv, OneCaller, SameRegister, Idle
<1> QED BY <1>1, <1>2 DEF Setup

LEMMA BegunKeepsRest ==
  ASSUME Apart, TypeOK, CallsInv, LatchInv, KeptInv, NEW t \in Thread, NEW c \in Chips, NEW i \in Pins(c),
         NEW reg \in Register, NEW bit \in BOOLEAN, Begun(t, c, i, reg, bit)
  PROVE  KeptInv'
<1>0. PICK b : b = Bank(c, i)
  OBVIOUS
<1>1. PICK o : o = [step |-> "load", chip |-> c, pin |-> i, reg |-> reg, bit |-> bit, new |-> {}]
  OBVIOUS
<1>2. /\ o.step = "load" /\ o.chip = c /\ o.pin = i /\ o.reg = reg /\ o # Idle /\ op[t] = Idle
      /\ op'[t] = o /\ \A u \in Thread \ {t} : op'[u] = op[u]
  BY <1>1 DEF Begun, TypeOK, Idle
<1>3. UNCHANGED <<kind, word, nodes, fresh>> /\ HasNode(c)
  BY DEF Begun
<1>4. /\ reg # "latch" => asked' = asked
      /\ reg = "latch" => asked'[c] = IF bit THEN asked[c] \cup {i} ELSE asked[c] \ {i}
      /\ \A d \in Chips : d # c => asked'[d] = asked[d]
  BY DEF Begun, TypeOK
<1>5. \A u \in Thread \ {t} : op[u] # Idle =>
        ~(op[u].chip = c /\ op[u].reg = reg /\ Bank(c, op[u].pin) = b)
  BY <1>0 DEF Begun, Busy
<1>6. ASSUME NEW d \in Chips, NEW e, ~(d = c /\ reg = "latch" /\ e = b) PROVE Same(asked'[d], asked[d], d, e)
  <2>1. CASE d # c \/ reg # "latch"
    BY <1>4, <2>1 DEF Same
  <2>2. CASE d = c /\ e # b
    <3>1. i \notin InBank(c, e)
      BY <1>0, <2>2 DEF InBank
    <3> QED BY <1>4, <2>2, <3>1 DEF Same
  <2> QED BY <1>6, <2>1, <2>2
<1>7. RestKept(op[t])'
  <2>1. CASE reg # "latch"
    BY <1>2, <2>1 DEF RestKept
  <2>2. CASE reg = "latch"
    <3>1. \A u \in Thread : ~Serves(u, c, b)
      BY <1>2, <1>5, <2>2 DEF Serves
    <3>2. b \in fresh[c] => Same(word[c].latch, asked[c], c, b)
      BY <1>0, <1>3, <3>1, BankOfPin DEF LatchInv, BankInv, Settled
    <3>3. RestKept(o)'
      <4>1. b \in fresh[c] => (word[c].latch \cap InBank(c, b)) \ {i} = (asked'[c] \cap InBank(c, b)) \ {i}
        BY <1>4, <2>2, <3>2 DEF Same
      <4> QED BY <1>0, <1>2, <1>3, <2>2, <4>1, SameChips DEF RestKept, Rest
    <3> QED BY <1>2, <3>3 DEF RestKept, Rest
  <2> QED BY <2>1, <2>2
<1> QED BY <1>0, <1>2, <1>3, <1>5, <1>6, <1>7, OneRegisterTouched DEF Same

\* The threads in other calls are at other registers.
LEMMA OthersElsewhere ==
  ASSUME TypeOK, KeptInv, NEW t \in Thread, op[t] # Idle, NEW u \in Thread \ {t}, op[u] # Idle
  PROVE  ~(op[u].chip = op[t].chip /\ op[u].reg = op[t].reg /\ Bank(op[t].chip, op[u].pin) = Bank(op[t].chip, op[t].pin))
BY DEF KeptInv, OneCaller, SameRegister

LEMMA LoadKeepsRest ==
  ASSUME "read" \notin Fails, TypeOK, CallsInv, KeptInv, NEW t \in Thread, Load(t)
  PROVE  KeptInv'
<1>0. PICK c, i, b, reg : c = op[t].chip /\ i = op[t].pin /\ b = Bank(c, i) /\ reg = op[t].reg
  OBVIOUS
<1>1. /\ op[t] \in PinCall /\ op[t] # Idle /\ i \in Pins(c) /\ c \in Chips /\ reg \in Register
  BY <1>0, InCall DEF Load, PinCall
<1>2. PICK old : /\ op' = [op EXCEPT ![t] = Loaded(t, old)]
                 /\ reg # "latch" => old = word[c][reg]
  BY <1>0 DEF Load, Loaded, Reads
<1>3. PICK o : o = Loaded(t, old)
  OBVIOUS
<1>4. /\ o.chip = c /\ o.pin = i /\ o.reg = reg
      /\ o.step = IF kind[c] = "sr595" THEN "keep" ELSE "store"
      /\ o.new = IF op[t].bit THEN (old \cap InBank(c, b)) \cup {i} ELSE (old \cap InBank(c, b)) \ {i}
  BY <1>0, <1>1, <1>3 DEF Loaded, PinCall
<1>5. /\ op'[t] = o /\ o # Idle /\ \A u \in Thread \ {t} : op'[u] = op[u]
  BY <1>2, <1>3, <1>4 DEF TypeOK, Idle
<1>6. UNCHANGED <<kind, word, nodes, asked, fresh>>
  BY DEF Load
<1>7. i \in InBank(c, b)
  BY <1>0, <1>1, BankOfPin
<1>8. RestKept(op[t])'
  <2>1. RestKept(op[t])
    BY <1>1 DEF KeptInv
  <2>2. RestKept(o)'
    <3>1. reg # "latch" => Rest(o.new, o) = Rest(word[c][reg], o)
      BY <1>0, <1>2, <1>4, <1>7 DEF Rest
    <3>2. reg = "latch" /\ b \in fresh[c] => Rest(word[c].latch, o) = Rest(asked[c], o)
      BY <1>0, <1>4, <2>1 DEF RestKept, Rest
    <3> QED BY <1>0, <1>4, <1>6, <3>1, <3>2, SameChips DEF RestKept, Rest
  <2> QED BY <1>5, <2>2 DEF RestKept, Rest
<1>9. \A u \in Thread \ {t} : op[u] # Idle => ~(op[u].chip = c /\ op[u].reg = reg /\ Bank(c, op[u].pin) = b)
  BY <1>0, <1>1, OthersElsewhere
<1> QED BY <1>0, <1>1, <1>4, <1>5, <1>6, <1>8, <1>9, OneRegisterTouched DEF Same

\* What a write does to the register it writes, and to the others.
LEMMA StoreWrites ==
  ASSUME TypeOK, CallsInv, NEW t \in Thread, Store(t),
         NEW c, NEW i, NEW b, NEW reg, NEW new,
         c = op[t].chip, i = op[t].pin, b = Bank(c, i), reg = op[t].reg, new = op[t].new
  PROVE  /\ c \in Chips /\ i \in Pins(c) /\ reg \in Register /\ op[t] # Idle /\ new \subseteq InBank(c, b)
         /\ \A d \in Chips : \A r \in Register : d # c \/ r # reg => word'[d][r] = word[d][r]
         /\ \/ word'[c][reg] = Replaced(word[c][reg], c, b, new)
            \/ word' = word /\ kind[c] # "sr595" /\ (reg = "latch" => b \notin fresh'[c])
         /\ reg # "latch" => fresh' = fresh
         /\ \A d \in Chips : \A e : d # c \/ e # b => (e \in fresh'[d] <=> e \in fresh[d])
<1>1. /\ op[t] \in PinCall /\ op[t] # Idle /\ Proper(op[t]) /\ i \in Pins(c) /\ c \in Chips
      /\ op[t].step = "store" /\ reg \in Register
  BY InCall DEF Store, PinCall
<1>2. new \subseteq InBank(c, b)
  BY <1>1 DEF Proper
<1>3. \/ word' = [word EXCEPT ![c][reg] = Replaced(@, c, b, new)]
      \/ word' = word /\ kind[c] # "sr595" /\ (reg = "latch" => fresh' = [fresh EXCEPT ![c] = @ \ {b}])
  BY DEF Store
<1>4. ASSUME word' = [word EXCEPT ![c][reg] = Replaced(@, c, b, new)]
      PROVE  /\ word'[c][reg] = Replaced(word[c][reg], c, b, new)
             /\ \A d \in Chips : \A r \in Register : d # c \/ r # reg => word'[d][r] = word[d][r]
  <2>1. PICK w : w = [word[c] EXCEPT ![reg] = Replaced(@, c, b, new)]
    OBVIOUS
  <2>2. word' = [word EXCEPT ![c] = w]
    BY <1>4, <2>1
  <2>3. word[c] \in [Register -> SUBSET Nat] /\ word \in [Chips -> [Register -> SUBSET Nat]]
    BY <1>1 DEF TypeOK
  <2>4. \A r \in Register : w[r] = IF r = reg THEN Replaced(word[c][r], c, b, new) ELSE word[c][r]
    BY <2>1, <2>3
  <2> QED BY <1>1, <2>2, <2>3, <2>4
<1>5. /\ reg # "latch" => fresh' = fresh
      /\ reg = "latch" => \E f \in {fresh[c] \cup {b}, fresh[c] \ {b}} : fresh' = [fresh EXCEPT ![c] = f]
  BY DEF Store
<1>6. fresh \in [Chips -> SUBSET Nat]
  BY DEF TypeOK
<1>7. \A d \in Chips : \A e : d # c \/ e # b => (e \in fresh'[d] <=> e \in fresh[d])
  BY <1>1, <1>5, <1>6
<1>8. CASE word' = [word EXCEPT ![c][reg] = Replaced(@, c, b, new)]
  BY <1>1, <1>2, <1>4, <1>5, <1>7, <1>8
<1>9. CASE word' = word /\ kind[c] # "sr595" /\ (reg = "latch" => fresh' = [fresh EXCEPT ![c] = @ \ {b}])
  <2>1. reg = "latch" => b \notin fresh'[c]
    BY <1>1, <1>6, <1>9
  <2> QED BY <1>1, <1>2, <1>5, <1>7, <1>9, <2>1
<1> QED BY <1>3, <1>8, <1>9

LEMMA StoreKeepsRest ==
  ASSUME TypeOK, CallsInv, LatchInv, KeptInv, NEW t \in Thread, Store(t)
  PROVE  KeptInv'
<1>0. PICK c, i, b, reg, new :
        c = op[t].chip /\ i = op[t].pin /\ b = Bank(c, i) /\ reg = op[t].reg /\ new = op[t].new
  OBVIOUS
<1>1. /\ op[t] \in PinCall /\ op[t] # Idle /\ Proper(op[t]) /\ i \in Pins(c) /\ c \in Chips
      /\ op[t].step = "store" /\ reg \in Register
  BY <1>0, InCall DEF Store, PinCall
<1>2. PICK o : o = AfterStore(op[t])
  OBVIOUS
<1>3. o # Idle => o.chip = c /\ o.pin = i /\ o.reg = reg /\ reg = "latch" /\ kind[c] # "sr595"
  BY <1>0, <1>1, <1>2 DEF AfterStore, PinCall, Idle
<1>4. op'[t] = o /\ (\A u \in Thread \ {t} : op'[u] = op[u]) /\ UNCHANGED <<kind, nodes, asked>>
  BY <1>2 DEF Store, TypeOK
<1>5. /\ new \subseteq InBank(c, b)
      /\ \A d \in Chips : \A r \in Register : d # c \/ r # reg => word'[d][r] = word[d][r]
      /\ \/ word'[c][reg] = Replaced(word[c][reg], c, b, new)
         \/ word' = word /\ (reg = "latch" => b \notin fresh'[c])
      /\ reg # "latch" => fresh' = fresh
      /\ \A d \in Chips : \A e : d # c \/ e # b => (e \in fresh'[d] <=> e \in fresh[d])
  BY <1>0, StoreWrites
<1>6. ASSUME NEW d \in Chips, NEW r \in Register, NEW e, ~(d = c /\ r = reg /\ e = b)
      PROVE  /\ Same(word'[d][r], word[d][r], d, e)
             /\ r = "latch" => (e \in fresh'[d] <=> e \in fresh[d])
  <2>1. CASE d # c \/ r # reg
    BY <1>5, <2>1 DEF Same
  <2>2. CASE d = c /\ r = reg /\ e # b
    <3>1. Same(Replaced(word[c][reg], c, b, new), word[c][reg], c, e)
      BY <1>5, <2>2, ReplacedBanks DEF Same
    <3> QED BY <1>5, <2>2, <3>1 DEF Same
  <2> QED BY <1>6, <2>1, <2>2
<1>7. op'[t] # Idle => RestKept(op[t])'
  <2> SUFFICES ASSUME o # Idle PROVE RestKept(op[t])'
    BY <1>4
  <2>1. reg = "latch" /\ Serves(t, c, b)
    BY <1>0, <1>1, <1>3 DEF Serves
  <2>2. new = asked[c] \cap InBank(c, b)
    <3>1. BankInv(c, b)
      BY <1>0, <1>1, BankOfPin DEF LatchInv, Proper
    <3> QED BY <1>0, <1>1, <2>1, <3>1 DEF BankInv, Midway
  <2>3. b \in fresh'[c] => word'[c]["latch"] \cap InBank(c, b) = new
    BY <1>5, <2>1, ReplacedBanks
  <2>4. RestKept(o)'
    BY <1>0, <1>3, <1>4, <2>1, <2>2, <2>3, SameChips DEF RestKept, Rest
  <2> QED BY <1>4, <2>4 DEF RestKept, Rest
<1>8. \A u \in Thread \ {t} : op[u] # Idle => ~(op[u].chip = c /\ op[u].reg = reg /\ Bank(c, op[u].pin) = b)
  BY <1>0, <1>1, OthersElsewhere
<1> QED BY <1>0, <1>1, <1>3, <1>4, <1>6, <1>7, <1>8, OneRegisterTouched DEF Same

LEMMA KeepKeepsRest ==
  ASSUME TypeOK, CallsInv, KeptInv, NEW t \in Thread, Keep(t)
  PROVE  KeptInv'
<1>0. PICK c, i, b, reg : c = op[t].chip /\ i = op[t].pin /\ b = Bank(c, i) /\ reg = op[t].reg
  OBVIOUS
<1>1. /\ op[t] \in PinCall /\ op[t] # Idle /\ Proper(op[t]) /\ i \in Pins(c) /\ c \in Chips
      /\ op[t].step = "keep" /\ reg = "latch" /\ reg \in Register
  BY <1>0, InCall DEF Keep, Proper, PinCall
<1>2. PICK o : o = AfterKeep(op[t])
  OBVIOUS
<1>3. o # Idle => o.chip = c /\ o.pin = i /\ o.reg = reg
  BY <1>0, <1>1, <1>2 DEF AfterKeep, PinCall
<1>4. op'[t] = o /\ (\A u \in Thread \ {t} : op'[u] = op[u]) /\ UNCHANGED <<kind, word, asked, fresh>>
  BY <1>2 DEF Keep, TypeOK
<1>5. op'[t] # Idle => RestKept(op[t])'
  <2> SUFFICES ASSUME o # Idle PROVE RestKept(op[t])'
    BY <1>4
  <2>1. b \in fresh[c] => Rest(word[c].latch, o) = Rest(asked[c], o)
    BY <1>0, <1>1, <1>3 DEF KeptInv, RestKept, Rest
  <2>2. RestKept(o)'
    BY <1>0, <1>1, <1>3, <1>4, <2>1, SameChips DEF RestKept, Rest
  <2> QED BY <1>4, <2>2 DEF RestKept, Rest
<1>6. \A u \in Thread \ {t} : op[u] # Idle => ~(op[u].chip = c /\ op[u].reg = reg /\ Bank(c, op[u].pin) = b)
  BY <1>0, <1>1, OthersElsewhere
<1> QED BY <1>0, <1>1, <1>3, <1>4, <1>5, <1>6, OneRegisterTouched DEF Same

LEMMA RestStep ==
  ASSUME Apart, "read" \notin Fails
  PROVE  TypeOK /\ CallsInv /\ LatchInv /\ KeptInv /\ [Next]_vars => KeptInv'
<1> SUFFICES ASSUME TypeOK, CallsInv, LatchInv, KeptInv, [Next]_vars PROVE KeptInv'
  OBVIOUS
<1>1. CASE \E c \in Chips : \E base \in Bases[c] : Setup(c, base)
  BY <1>1, SetupKeepsRest
<1>2. CASE UNCHANGED <<kind, word, op, asked, fresh>>
  BY <1>2, SameChips DEF KeptInv, OneCaller, SameRegister, RestKept, Rest, Idle
<1>3. CASE Exit
  BY <1>3 DEF Exit, Ends, KeptInv, OneCaller, Idle
<1>4. ASSUME NEW t \in Thread, Call(t) PROVE KeptInv'
  BY <1>4, CallIsBegun, BegunKeepsRest
<1>5. ASSUME NEW t \in Thread, CallStep(t) PROVE KeptInv'
  BY <1>5, LoadKeepsRest, StoreKeepsRest, KeepKeepsRest DEF CallStep
<1> QED BY <1>1, <1>2, <1>3, <1>4, <1>5 DEF Next, Pull, vars

\* What a step does to the registers.
OthersKeptStep ==
  \A c \in Chips : \A i \in Pins(c) : \A reg \in Register :
    \/ (i \in word[c][reg]) = (i \in word'[c][reg])
    \/ Working(c, i, reg)
    \/ reg = "latch" /\ Bank(c, i) \notin fresh[c]

LEMMA StoreKeepsOthers ==
  ASSUME TypeOK, CallsInv, LatchInv, KeptInv, NEW t \in Thread, Store(t)
  PROVE  OthersKeptStep
<1>0. PICK c, i, b, reg, new :
        c = op[t].chip /\ i = op[t].pin /\ b = Bank(c, i) /\ reg = op[t].reg /\ new = op[t].new
  OBVIOUS
<1>1. /\ op[t] \in PinCall /\ op[t] # Idle /\ Proper(op[t]) /\ i \in Pins(c) /\ c \in Chips
      /\ op[t].step = "store" /\ reg \in Register
  BY <1>0, InCall DEF Store, PinCall
<1>2. /\ new \subseteq InBank(c, b)
      /\ \A d \in Chips : \A r \in Register : d # c \/ r # reg => word'[d][r] = word[d][r]
      /\ word'[c][reg] = Replaced(word[c][reg], c, b, new) \/ word' = word
  BY <1>0, StoreWrites
<1> SUFFICES ASSUME NEW d \in Chips, NEW j \in Pins(d), NEW r \in Register
             PROVE  \/ (j \in word[d][r]) = (j \in word'[d][r])
                    \/ Working(d, j, r)
                    \/ r = "latch" /\ Bank(d, j) \notin fresh[d]
  BY DEF OthersKeptStep
<1>3. CASE d # c \/ r # reg \/ word' = word
  BY <1>2, <1>3
<1>4. CASE d = c /\ r = reg /\ word'[c][reg] = Replaced(word[c][reg], c, b, new)
  <2>1. CASE Bank(c, j) # b
    <3>1. j \notin InBank(c, b)
      BY <2>1 DEF InBank
    <3>2. j \in word[c][reg] <=> j \in word'[c][reg]
      BY <1>2, <1>4, <3>1 DEF Replaced
    <3> QED BY <1>4, <3>2
  <2>2. CASE j = i
    BY <1>0, <1>1, <1>4, <2>2 DEF Working
  <2>3. CASE Bank(c, j) = b /\ j # i
    <3>1. j \in InBank(c, b)
      BY <1>4, <2>3 DEF InBank
    <3>2. j \in word'[c][reg] <=> j \in new
      BY <1>4, <3>1 DEF Replaced
    <3>3. RestKept(op[t])
      BY <1>1 DEF KeptInv
    <3>4. CASE reg # "latch"
      <4>1. j \in new <=> j \in word[c][reg]
        BY <1>0, <1>1, <2>3, <3>1, <3>3, <3>4 DEF RestKept, Rest
      <4> QED BY <1>4, <3>2, <4>1
    <3>5. CASE reg = "latch" /\ b \in fresh[c]
      <4>1. j \in word[c].latch <=> j \in asked[c]
        BY <1>0, <1>1, <2>3, <3>1, <3>3, <3>5 DEF RestKept, Rest
      <4>2. new = asked[c] \cap InBank(c, b)
        <5>1. BankInv(c, b) /\ Serves(t, c, b)
          BY <1>0, <1>1, <3>5, BankOfPin DEF LatchInv, Proper, Serves
        <5> QED BY <1>0, <1>1, <5>1 DEF BankInv, Midway
      <4>3. j \in new <=> j \in word[c][reg]
        BY <3>1, <3>5, <4>1, <4>2
      <4> QED BY <1>4, <3>2, <4>3
    <3> QED BY <1>4, <2>3, <3>4, <3>5
  <2> QED BY <2>1, <2>2, <2>3
<1> QED BY <1>2, <1>3, <1>4

LEMMA NextKeepsOthers == TypeOK /\ CallsInv /\ LatchInv /\ KeptInv /\ [Next]_vars => OthersKeptStep
<1> SUFFICES ASSUME TypeOK, CallsInv, LatchInv, KeptInv, [Next]_vars PROVE OthersKeptStep
  OBVIOUS
<1>1. CASE word' = word
  BY <1>1 DEF OthersKeptStep
<1>2. ASSUME NEW t \in Thread, Store(t) PROVE OthersKeptStep
  BY <1>2, StoreKeepsOthers
<1>3. ASSUME NEW t \in Thread, Call(t) PROVE word' = word
  BY <1>3, CallIsBegun DEF Begun
<1> QED BY <1>1, <1>2, <1>3 DEF Next, CallStep, Setup, Exit, Pull, Load, Keep, vars

\* Under the same two assumptions, a call changes the bit of its own pin in its own
\* register and no other, whatever the other threads write at the same time, but for
\* what a failed write or the setup of a shift register left in the bank.
THEOREM CallsChangeTheirPin == ASSUME Apart, "read" \notin Fails PROVE Spec => OthersKept
<1>1. Init => LatchInv /\ KeptInv
  BY DEF Init, LatchInv, HasNode, KeptInv, OneCaller
<1>2. TypeOK /\ CallsInv /\ LatchInv /\ KeptInv /\ [Next]_vars => [OthersKeptStep]_vars
  BY NextKeepsOthers
<1>3. Spec => [][OthersKeptStep]_vars
  BY <1>1, <1>2, LatchStep, RestStep, CallsInvariant, PTL DEF Spec
<1> QED BY <1>3 DEF OthersKept, OthersKeptStep
=============================================================================
