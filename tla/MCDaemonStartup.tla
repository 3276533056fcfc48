--------------------------- MODULE MCDaemonStartup ---------------------------
(***************************************************************************)
(* The instance of DaemonStartup: three calls, so that one waits while     *)
(* another retries what a third left behind, a socket that an earlier      *)
(* server may have left, and a server that a user runs.                    *)
(***************************************************************************)
EXTENDS DaemonStartup

CONSTANTS l1, l2, l3, e, f
=============================================================================
