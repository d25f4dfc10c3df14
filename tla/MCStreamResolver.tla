-------------------------- MODULE MCStreamResolver --------------------------
(* StreamResolver with two concurrent calls on two rooms. *)
EXTENDS StreamResolver
=============================================================================
