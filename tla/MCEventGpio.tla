---------------------------- MODULE MCEventGpio ----------------------------
(* The instances of EventGpio that TLC checks.                             *)
EXTENDS EventGpio

CONSTANTS c1, c2, t1, t2

OneChannel  == {c1}
TwoChannels == {c1, c2}
OneThread   == {t1}
TwoThreads  == {t1, t2}

NoOps      == {}
WaitOps    == {"add", "callback", "wait"}
RemoveOps  == {"add", "callback", "remove", "cleanupAll"}
CleanupOps == {"add", "cleanup"}
DropOps    == {"remove"}
AllOps     == {"add", "addFails", "callback", "remove", "cleanup", "cleanupAll", "wait"}

Symmetry == Permutations(Channel) \cup Permutations(Thread)
=============================================================================
