----------------------------- MODULE MCStartup -----------------------------
(* Instances of Startup for TLC.                                            *)
EXTENDS Startup, Migrations

AgentCalls == [agents |-> AllCalls.agents]
=============================================================================
