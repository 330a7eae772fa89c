------------------------------ MODULE MCHwPwm ------------------------------
(* The instance of HwPwm that TLC checks.                                  *)
EXTENDS HwPwm

CONSTANTS pwm0, pwm1, other

TwoChannels == <<pwm0, pwm1>>
SomeLists == {<<pwm0>>, <<pwm1, other>>, <<pwm1, pwm0>>}
=============================================================================
