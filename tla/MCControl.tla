----------------------------- MODULE MCControl -----------------------------
(* Every program of a few statements, nested two or three deep. *)
EXTENDS ControlFlow

=============================================================================
