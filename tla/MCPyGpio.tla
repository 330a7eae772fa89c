------------------------------ MODULE MCPyGpio ------------------------------
(* Pins of a Tinker Board for PyRaces: 146 (GPIO4_C2) has a hardware PWM and *)
(* shares its bank and its function and pull words with 149 (GPIO4_C5); 120  *)
(* (GPIO3_D0), of another bank behind the same clock gate word, has a        *)
(* software PWM; 89 (GPIO2_D1) is not known to gpio_is_valid.                *)
EXTENDS PyRaces, TLC

CONSTANTS main, soft, bad

Threads == {main, soft}
SoftPins == (soft :> 120)
Request(chans, dir, res, init) ==
  [chans |-> chans, dir |-> dir, pull |-> res, initial |-> init]

SomeSetups ==
  {Request(<<146>>, "OUT", "off", 1), Request(<<120>>, "OUT", "off", -1),
   Request(<<149, 146>>, "PWM", "off", -1), Request(<<149, 146>>, "IN", "up", -1),
   Request(<<89, 149, bad>>, "OUT", "up", 0)}
SomeOutputs == {[chans |-> <<146, 149>>, values |-> <<0, 2>>]}
SomeCleanups == {<<149, bad, 146>>, <<120>>}
SomePowerOn == {[level |-> 0, out |-> 0, mux |-> "other", pull |-> "up"]}
=============================================================================
