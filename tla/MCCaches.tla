------------------------------- MODULE MCCaches -------------------------------
(* ClientCaches for TLC. *)
EXTENDS ClientCaches, TLC

CONSTANTS s1, s2, s3, x1, x2

ConnSymmetry == Permutations(Conns)

\* Two of the three servers share a certificate.
SharedCert == [k \in Keys |-> IF k = s3 THEN x2 ELSE x1]
================================================================================
