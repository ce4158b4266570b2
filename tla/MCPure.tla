------------------------------- MODULE MCPure -------------------------------
(* An instance of PureCalls for TLC: every header and length over a small   *)
(* usize, and every day of several centuries.                               *)
EXTENDS PureCalls
=============================================================================
