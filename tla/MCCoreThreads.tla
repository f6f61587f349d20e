--------------------------- MODULE MCCoreThreads ---------------------------
(* CoreThreads with a channel of a few packets; see the .cfg files.        *)
EXTENDS CoreThreads
============================================================================
