------------------------- MODULE MCRecorderSupervisor -------------------------
(* An instance of RecorderSupervisor for TLC: a room worker and a request. *)
EXTENDS RecorderSupervisor
CONSTANTS worker, request

MCLines == [stdout |-> 2, stderr |-> 1]
=============================================================================
