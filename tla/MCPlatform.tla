----------------------------- MODULE MCPlatform -----------------------------
(* Instances of Platform for TLC; the bounds are all they need.             *)
EXTENDS Platform

=============================================================================
