----------------------------- MODULE MCSoftPwm -----------------------------
(* The instance of SoftPwm that TLC checks: a quiet program that calls      *)
(* every method, and one that starts and stops whenever it likes.          *)
EXTENDS PwmRaces

CONSTANTS c1, c2, t1, t2

AllMethods == {"start", "ChangeDutyCycle", "ChangeFrequency", "stop", "dealloc"}
TwoPrograms == {[quiet |-> TRUE,  methods |-> AllMethods,        channels |-> {c1, c2}],
                [quiet |-> FALSE, methods |-> {"start", "stop"}, channels |-> {c1}]}
=============================================================================
