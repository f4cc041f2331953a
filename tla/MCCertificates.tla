---------------------------- MODULE MCCertificates ----------------------------
(***************************************************************************)
(* Certificates for TLC.                                                   *)
(***************************************************************************)
EXTENDS Certificates, TLC

\* Managers and masters are interchangeable; the run checks invariants only.
Symmetry == Permutations(Managers) \cup Permutations(Masters)

\* Once a secret is stored, what is in a bundle still being made decides
\* nothing: how far it is does.
View == <<clock, IF secret = None THEN making ELSE [g \in Managers |-> making[g].made],
          secret, rev, copy, cluster, pki, hash, faults>>

=============================================================================
