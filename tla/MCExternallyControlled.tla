----------------------- MODULE MCExternallyControlled -----------------------
(* ExternallyControlled on small instances.                                *)
EXTENDS ExternallyControlled, TLC

\* Tasks are interchangeable, and so are connections; for runs without a liveness
\* property.
Symmetry == Permutations(Task) \cup Permutations(Conn)
=============================================================================
