---------------------------- MODULE MCConnections ----------------------------
(* Instances of Connections small enough for TLC.                           *)
EXTENDS Connections

CONSTANTS a, b, running, done, t1, t2

\* A datastore with a job that runs.
MCFiles == {[j \in JobId |-> [status |-> running, finished |-> t1]]}

=============================================================================
