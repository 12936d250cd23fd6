--------------------------- MODULE MCCommandQueue ---------------------------
(* A small instance of the command queue.  Two consumers, one more than    *)
(* the program starts, so that the list can be emptied twice between two   *)
(* signals; temporal properties rule out symmetry.                         *)
EXTENDS CommandQueue
=============================================================================
