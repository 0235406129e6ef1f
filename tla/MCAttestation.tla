--------------------------- MODULE MCAttestation ---------------------------
(* Instances of AttestationPump for TLC. *)
EXTENDS AttestationPump

\* The Spinner built the adapter of all fills but the first.
MCBuilderFills == 2 .. MaxFills
=============================================================================
