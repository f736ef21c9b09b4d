---------------------------- MODULE MCDeployment ----------------------------
(* Small instances of Deployment. *)
EXTENDS Deployment

MCStatsMaps == <<"CLOSE_STATS", "READV_STATS", "KREAD_STATS">>
=============================================================================
