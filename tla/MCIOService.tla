----------------------------- MODULE MCIOService -----------------------------
(* IOService for TLC; MaxJobs is given by the configuration of each run.   *)
EXTENDS IOService
=============================================================================
