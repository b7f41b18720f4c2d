---------------------------- MODULE MCAgentLoop ----------------------------
(* Instances of AgentLoop for TLC: three tiers, each configuration giving  *)
(* them their parts (Explicit, Relay, AutoChained, ChainTarget).           *)
EXTENDS AgentLoop

CONSTANTS lead, coder, critic
=============================================================================
