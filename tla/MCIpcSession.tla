---------------------------- MODULE MCIpcSession ----------------------------
(* IpcSession for a few publications and missed deadlines.                 *)
EXTENDS IpcSession
=============================================================================
