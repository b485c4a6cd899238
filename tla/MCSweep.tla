------------------------------- MODULE MCSweep -------------------------------
(* Two rates, on a cluster of a main and a worker node or on the local machine. *)
EXTENDS Sweep

CONSTANTS main, worker

MCNodeSeq == <<main, worker>>
MCProcs == Runs \X Nodes
=============================================================================
