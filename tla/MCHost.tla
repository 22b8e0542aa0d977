------------------------------- MODULE MCHost -------------------------------
(* Instances of HostPath for TLC. *)
EXTENDS HostProps, TLC

CONSTANTS M, N
One == {M}
Two == {M, N}
=============================================================================
