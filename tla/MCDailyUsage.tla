--------------------------- MODULE MCDailyUsage ---------------------------
(* DailyUsage on small instances; the bounds are given in the .cfg files.  *)
EXTENDS DailyUsage
===========================================================================
