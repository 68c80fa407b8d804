---------------------------- MODULE MCMcpApproval -----------------------------
(* Small instances of McpApproval.                                         *)
EXTENDS McpApproval

\* Gates that overlap on one call and not on the other.
MCGateKinds ==
  {[action |-> "auto_allow", pattern |-> {"c1"}],
   [action |-> "deny", pattern |-> Calls], [action |-> "require", pattern |-> Calls]}
=============================================================================
