-------------------------- MODULE MCWiringThreads --------------------------
(* The instance of WiringThreads that TLC checks.                         *)
EXTENDS WiringThreads

CONSTANTS p1, p2, h1, w1, w2

\* PWM and tones of one pin, PWM of two, tones of two, interrupts of two.
EachKind == {{"pwm", "tone"} \X {p1}, {"pwm"} \X Pin, {"tone"} \X Pin, {"isr"} \X Pin}
=============================================================================
