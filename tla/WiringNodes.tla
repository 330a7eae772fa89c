----------------------------- MODULE WiringNodes -----------------------------
(***************************************************************************)
(* The extension nodes of wiringPi: chips on the I2C or SPI bus, or shift  *)
(* registers, that give a program more pins (wiringPi.c, mcp23017.c,       *)
(* mcp23s17.c, mcp23008.c, mcp23s08.c, mcp23016.c, pcf8574.c, sr595.c).    *)
(*                                                                         *)
(* The bus writes whole registers, and the output latch is not read again: *)
(* its node remembers it, from what the chip said at setup.  A program,    *)
(* such as gpio -x, may end and start at any moment, the chips stay on.    *)
(* Soft PWM and other threads write pins beside the main one; a call is a  *)
(* read, a bus write and, for the latch, an assignment.                    *)
(***************************************************************************)
EXTENDS Naturals, Sequences, FiniteSets

CONSTANTS
  Chip,      \* the chips
  Boards,    \* functions from the chips of a board to their kinds
  Size,      \* the number of pins of each kind
  BankSize,  \* the width of a register of an mcp23x chip, 8
  Bases,     \* the pin bases a program may pass for a chip
  OnBoard,   \* the pin numbers below are pins of the board, 512
  Thread,    \* its threads
  Fails,     \* the bus transfers that may fail: "read", "write"
  Apart      \* TRUE: threads keep to different registers, and a pcf8574 is
             \* set up only while nobody pulls its lines down

Kind == {"mcp23x", "mcp23016", "pcf8574", "sr595"}

ASSUME Parameters ==
  /\ \A b \in Boards : DOMAIN b \subseteq Chip /\ \A c \in DOMAIN b : b[c] \in Kind
  /\ Size \in [Kind -> Nat \ {0}] /\ BankSize \in Nat \ {0} /\ OnBoard \in Nat
  /\ \A c \in Chip : \A base \in Bases[c] : base \in Nat /\ base >= 64
  /\ Fails \subseteq {"read", "write"} /\ Apart \in BOOLEAN

VARIABLES
  kind,    \* the chips there are
  word,    \* their registers: the set of the pins whose bit is 1
  held,    \* the pins of a pcf8574 that are pulled down from outside
  nodes,   \* wiringPiNodes, the first one first
  op,      \* the call each thread is in
  asked,   \* history: the output latch as the program means it
  fresh    \* history: the banks whose latch was written last without an error

vars == <<kind, word, held, nodes, op, asked, fresh>>

\* in is IODIR, where 1 is an input; latch is the output latch; pull is GPPU.
Register == {"in", "latch", "pull"}
Chips == DOMAIN kind
Pins(c) == 0 .. Size[kind[c]] - 1

\* The chips with a direction and an output latch to read; they have banks.
Latched(c) == kind[c] \in {"mcp23x", "mcp23016"}
Bank(c, i) == IF Latched(c) THEN i \div BankSize ELSE 0
Banks(c) == {Bank(c, i) : i \in Pins(c)}
InBank(c, b) == {i \in Pins(c) : Bank(c, i) = b}

Idle == [step |-> "idle"]

Init ==
  /\ kind \in Boards
  /\ word = [c \in Chips |-> [in    |-> IF Latched(c) THEN Pins(c) ELSE {},
                              latch |-> IF kind[c] = "pcf8574" THEN Pins(c) ELSE {},
                              pull  |-> {}]]
  /\ held = [c \in Chips |-> {}]
  /\ nodes = <<>>
  /\ op = [t \in Thread |-> Idle]
  /\ asked = [c \in Chips |-> {}]
  /\ fresh = [c \in Chips |-> {}]

-----------------------------------------------------------------------------
(* Nodes.                                                                  *)

Max(n) == n.base + Size[kind[n.chip]] - 1
Holds(n, pin) == n.base <= pin /\ pin <= Max(n)

\* Only these pin numbers are looked up among the nodes: PI_GPIO_MASK.
Extension(pin) == pin >= OnBoard

\* wiringPiFindNode: the index of the first node that holds a pin, or 0.
FindNode(pin) ==
  LET found == {i \in DOMAIN nodes : Holds(nodes[i], pin)}
  IN IF found = {} THEN 0 ELSE CHOOSE i \in found : \A j \in found : i <= j

\* Where a program ends, its threads end wherever they are.
Ends ==
  /\ nodes' = <<>> /\ op' = [t \in Thread |-> Idle]
  /\ asked' = [c \in Chips |-> {}] /\ fresh' = [c \in Chips |-> {}]

\* wiringPiNewNode ends the program when a pin of the node has one already.
Overlaps(c, base) == \E pin \in base .. base + Size[kind[c]] - 1 : FindNode(pin) # 0

\* A transfer that fails reads as -1, which is all ones.
Reads(c, value) == {value} \cup (IF "read" \in Fails THEN {Pins(c)} ELSE {})

\* What a node of chip c may take for the latch at setup: OLAT, or for the
\* pcf8574 its lines; the shift register cannot be read.
\* (Mutant: nothing is read.)
ForgottenLatch(c) == {{}}
SetupLatch(c) ==
  CASE Latched(c) -> Reads(c, word[c].latch)
    [] kind[c] = "pcf8574" -> Reads(c, word[c].latch \ held[c])
    [] kind[c] = "sr595" -> {{}}

\* mcp23017Setup and its like.
Setup(c, base) ==
  /\ \A i \in DOMAIN nodes : nodes[i].chip # c
  /\ Apart => held[c] = {}
  /\ \/ /\ Overlaps(c, base)
        /\ Ends
     \/ /\ ~Overlaps(c, base)
        /\ \E cache \in SetupLatch(c) :
             nodes' = <<[chip |-> c, base |-> base, cache |-> cache]>> \o nodes
        /\ IF kind[c] = "sr595"
           THEN asked' = [asked EXCEPT ![c] = {}] /\ fresh' = [fresh EXCEPT ![c] = {}]
           ELSE /\ asked' = [asked EXCEPT ![c] = word[c].latch]
                /\ fresh' = [fresh EXCEPT ![c] = Banks(c)]
        /\ UNCHANGED op
  /\ UNCHANGED <<kind, word, held>>

Exit == nodes # <<>> /\ Ends /\ UNCHANGED <<kind, word, held>>

-----------------------------------------------------------------------------
(* Calls: pin bit, register reg, and whether the bit is to be set.         *)

Busy(c, reg, b) == \E t \in Thread : /\ op[t] # Idle
                                     /\ op[t].chip = c /\ op[t].reg = reg
                                     /\ Bank(c, op[t].pin) = b

Begin(t, pin, regOf, bit) ==
  /\ op[t] = Idle /\ Extension(pin) /\ FindNode(pin) # 0
  /\ LET n == nodes[FindNode(pin)]
         c == n.chip
         i == pin - n.base
         reg == regOf[kind[c]]
     IN /\ reg \in Register
        /\ Apart => ~Busy(c, reg, Bank(c, i))
        /\ op' = [op EXCEPT ![t] =
                     [step |-> "load", chip |-> c, pin |-> i, reg |-> reg, bit |-> bit,
                      new |-> {}]]
        /\ asked' = IF reg # "latch" THEN asked
                    ELSE [asked EXCEPT ![c] = IF bit THEN @ \cup {i} ELSE @ \ {i}]
  /\ UNCHANGED <<kind, word, held, nodes, fresh>>

DigitalWrite(t, pin, high) == Begin(t, pin, [k \in Kind |-> "latch"], high)

\* The pcf8574 has no direction: an input is an output that is high.
PinMode(t, pin, input) ==
  Begin(t, pin, [mcp23x |-> "in", mcp23016 |-> "in", pcf8574 |-> "latch", sr595 |-> "none"],
        input)

PullUpDnControl(t, pin, up) ==
  Begin(t, pin, [k \in Kind |-> IF k = "mcp23x" THEN "pull" ELSE "none"], up)

NodeOf(c) == CHOOSE i \in DOMAIN nodes : nodes[i].chip = c

\* The register is read, or the latch taken from the node.
Load(t) ==
  /\ op[t].step = "load"
  /\ LET o == op[t]
         c == o.chip
         from == IF o.reg = "latch" THEN {nodes[NodeOf(c)].cache} ELSE Reads(c, word[c][o.reg])
     IN \E old \in from :
          LET mine == old \cap InBank(c, Bank(c, o.pin))
          IN op' = [op EXCEPT ![t] =
                      [o EXCEPT !.step = IF kind[c] = "sr595" THEN "keep" ELSE "store",
                                !.new = IF o.bit THEN mine \cup {o.pin} ELSE mine \ {o.pin}]]
  /\ UNCHANGED <<kind, word, held, nodes, asked, fresh>>

\* Register reg of chip c after its bank b was written, or node's memory of it.
Replaced(old, c, b, new) == (old \ InBank(c, b)) \cup new

\* The shift register remembers before it writes, the others after it.
AfterStore(o) == IF o.reg = "latch" /\ kind[o.chip] # "sr595"
                 THEN [o EXCEPT !.step = "keep"] ELSE Idle
AfterKeep(o) == IF kind[o.chip] = "sr595" THEN [o EXCEPT !.step = "store"] ELSE Idle

\* A write that fails is not noticed.
Store(t) ==
  /\ op[t].step = "store"
  /\ LET o == op[t]
         b == Bank(o.chip, o.pin)
         latch == o.reg = "latch"
     IN \/ /\ word' = [word EXCEPT ![o.chip][o.reg] = Replaced(@, o.chip, b, o.new)]
           /\ fresh' = IF latch THEN [fresh EXCEPT ![o.chip] = @ \cup {b}] ELSE fresh
        \/ /\ "write" \in Fails /\ kind[o.chip] # "sr595"
           /\ fresh' = IF latch THEN [fresh EXCEPT ![o.chip] = @ \ {b}] ELSE fresh
           /\ UNCHANGED word
  /\ op' = [op EXCEPT ![t] = AfterStore(@)]
  /\ UNCHANGED <<kind, held, nodes, asked>>

\* (Mutant: nothing is remembered.)
KeepNothing(t) ==
  /\ op[t].step = "keep"
  /\ op' = [op EXCEPT ![t] = AfterKeep(@)]
  /\ UNCHANGED <<kind, word, held, nodes, asked, fresh>>
Keep(t) ==
  /\ op[t].step = "keep"
  /\ LET o == op[t]
     IN nodes' = [nodes EXCEPT ![NodeOf(o.chip)].cache =
                    Replaced(@, o.chip, Bank(o.chip, o.pin), o.new)]
  /\ op' = [op EXCEPT ![t] = AfterKeep(@)]
  /\ UNCHANGED <<kind, word, held, asked, fresh>>

\* The lines of a pcf8574 that are high can be pulled down.
Pull(c, i) ==
  /\ kind[c] = "pcf8574"
  /\ held' = [held EXCEPT ![c] = IF i \in @ THEN @ \ {i} ELSE @ \cup {i}]
  /\ UNCHANGED <<kind, word, nodes, op, asked, fresh>>

-----------------------------------------------------------------------------
PinNumbers == UNION {base .. base + Size[kind[c]] - 1 : base \in UNION {Bases[c] : c \in Chips},
                                                        c \in Chips}
Call(t) == \E pin \in PinNumbers : \E b \in BOOLEAN :
             DigitalWrite(t, pin, b) \/ PinMode(t, pin, b) \/ PullUpDnControl(t, pin, b)
CallStep(t) == Load(t) \/ Store(t) \/ Keep(t)

Next == \/ \E c \in Chips : \/ \E base \in Bases[c] : Setup(c, base)
                            \/ \E i \in Pins(c) : Pull(c, i)
        \/ Exit
        \/ \E t \in Thread : Call(t) \/ CallStep(t)

Spec == Init /\ [][Next]_vars

-----------------------------------------------------------------------------
(* Properties.                                                             *)

\* Every variable keeps its type; a call is for a pin of its chip.
Node == [chip : Chips, base : Nat, cache : SUBSET Nat]
PinCall == [step : {"load", "store", "keep"}, chip : Chips, pin : Nat, reg : Register,
            bit : BOOLEAN, new : SUBSET Nat]
TypeOK ==
  /\ kind \in Boards
  /\ word \in [Chips -> [Register -> SUBSET Nat]] /\ held \in [Chips -> SUBSET Nat]
  /\ nodes \in Seq(Node)
  /\ op \in [Thread -> PinCall \cup {Idle}]
  /\ \A t \in Thread : op[t] # Idle => op[t].pin \in Pins(op[t].chip)
  /\ asked \in [Chips -> SUBSET Nat] /\ fresh \in [Chips -> SUBSET Nat]

\* A pin number means one pin of one chip: no two nodes share one, so that the
\* order of the setups does not matter.
NodesApart == \A i, j \in DOMAIN nodes : \A pin \in Nat :
  Holds(nodes[i], pin) /\ Holds(nodes[j], pin) => i = j

\* Between calls on a bank, its outputs are what the program asked for since it
\* set the chip up, and the others what they were then: also after failed
\* writes, once one succeeds, and after any number of restarts.
Quiet(c, b) == ~Busy(c, "latch", b)
LatchIsAsked == \A i \in DOMAIN nodes : LET c == nodes[i].chip IN
  \A b \in Banks(c) : b \in fresh[c] /\ Quiet(c, b) =>
    word[c].latch \cap InBank(c, b) = asked[c] \cap InBank(c, b)

\* A call changes its own pin and no other, but for the pins that a failed
\* write, or the setup of a shift register, left behind.
Working(c, i, reg) == \E t \in Thread :
  op[t] # Idle /\ op[t].chip = c /\ op[t].pin = i /\ op[t].reg = reg
OthersKept ==
  [][\A c \in Chips : \A i \in Pins(c) : \A reg \in Register :
       \/ (i \in word[c][reg]) = (i \in word'[c][reg])
       \/ Working(c, i, reg)
       \/ reg = "latch" /\ Bank(c, i) \notin fresh[c]]_vars
=============================================================================
