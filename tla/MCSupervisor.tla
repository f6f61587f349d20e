---------------------------- MODULE MCSupervisor ----------------------------
(* Supervisor with a few UI and core slots; see the .cfg files.            *)
EXTENDS Supervisor
=============================================================================
