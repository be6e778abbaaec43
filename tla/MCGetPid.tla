------------------------------ MODULE MCGetPid ------------------------------
(* GetPid for TLC: five processes beside idleproc, pids 1 to 8. *)
EXTENDS GetPid
=============================================================================
