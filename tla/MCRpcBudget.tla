---------------------------- MODULE MCRpcBudget ----------------------------
(* Small instances of RpcBudget: the window holds two calls. *)
EXTENDS RpcBudget

CONSTANTS Crashes, Poisonings, Unlocks

MCFaultBudget ==
  [kind \in FaultKinds |->
     CASE kind = "crash"  -> Crashes
       [] kind = "poison" -> Poisonings
       [] OTHER           -> Unlocks]
=============================================================================
