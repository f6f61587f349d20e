---------------------------- MODULE MCPidMapper ----------------------------
(* PidMapper with two numbers and a few processes.                         *)
EXTENDS PidMapper
=============================================================================
