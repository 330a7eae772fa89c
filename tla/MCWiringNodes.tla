---------------------------- MODULE MCWiringNodes ----------------------------
(* Three boards: a chip with every register, a chip with two banks, and two  *)
(* chips without registers to read, whose pins may overlap.                *)
EXTENDS WiringNodes, TLC

CONSTANTS chip1, chip2, t1, t2

SmallSizes == [mcp23x |-> 2, mcp23016 |-> 3, pcf8574 |-> 2, sr595 |-> 2]
SomeBases == (chip1 :> {512}) @@ (chip2 :> {513, 514})
Symmetry == Permutations(Thread)
SomeBoards == {chip1 :> "mcp23x", chip1 :> "mcp23016",
               (chip1 :> "pcf8574") @@ (chip2 :> "sr595")}
=============================================================================
