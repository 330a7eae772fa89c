--------------------------- MODULE MCPowerConsole ---------------------------
(* The power console on small tables of different lengths: the tags of the   *)
(* A72 and of the GPU do not all fit the A53.                                *)
EXTENDS PowerConsole

SmallTables == [a53 |-> 0, a72 |-> 1, t86x |-> 1]
=============================================================================
