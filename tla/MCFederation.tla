---------------------------- MODULE MCFederation ----------------------------
(* Instances of Federation for TLC: one or two messages, a client thread of  *)
(* the sender's hub and its retry loop.                                      *)
EXTENDS FederationProps

CONSTANTS M, N, W1

One     == {M}
Two     == {M, N}
Alone   == {W1}
=============================================================================
