-------------------------- MODULE MCClientSocketPool --------------------------
(* Instances of ClientSocketPool for TLC. *)
EXTENDS ClientSocketPool, TLC

CONSTANTS h1, h2, h3

AllConnectResults == {"OK", "PENDING", "ERR", "ERR_SOCKET"}
NoSyncErrors == {"OK", "PENDING"}
OnlyPending == {"PENDING"}
Enabled == {"ENABLED"}
AnyLimits == {"ENABLED", "DISABLED"}
TwoGroups == {1, 2}
OneGroup == {1}

HandleSymmetry == Permutations(Handles)
===============================================================================
