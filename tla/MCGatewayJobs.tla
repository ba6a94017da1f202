---------------------------- MODULE MCGatewayJobs ----------------------------
(* A job of the gateway and a command line that resumes what it left behind,   *)
(* or runs a task of its own.                                                  *)
EXTENDS GatewayJobs

CONSTANTS job1, cli, gateway, terminal

MCHome == [r \in Runners |-> IF r \in Stoppable THEN gateway ELSE terminal]
================================================================================
