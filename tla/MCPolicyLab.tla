---------------------------- MODULE MCPolicyLab ----------------------------
(***************************************************************************)
(* Instance of PolicyLab for TLC: two policies that disable a pass.        *)
(***************************************************************************)
EXTENDS PolicyLab

MCPolicies == <<"disable-evrp", "disable-ccp">>
=============================================================================
