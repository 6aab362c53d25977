---------------------------- MODULE MCLinkWrapper ----------------------------
(* LinkWrapper for TLC: every link action, an environment that lacks at     *)
(* most one of the variables required_env asks for, one failing exit code   *)
(* besides the 127 of a failed execv, one signal.                           *)
EXTENDS LinkWrapper

MCRequests == LinkRequest
MCMissingSets == {{}} \cup {{v} : v \in RequiredVars}
MCExitCodes == {1, 127}
MCSignals == {9}
==============================================================================
