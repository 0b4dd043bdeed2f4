---------------------------- MODULE MCValidation ----------------------------
(* A small instance of ValidationTool: two clients, one store, and two     *)
(* ways to replicate.                                                      *)
EXTENDS ValidationTool, MCService

ToolDeployments == {Deployment("local", 4), Deployment("both", 2), Chained(Deployment("both", 3), FALSE)}
=============================================================================
