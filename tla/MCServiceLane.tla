--------------------------- MODULE MCServiceLane ---------------------------
(* Model-checking instances of ServiceLane.                                *)
EXTENDS ServiceLane, TLC

\* Requests and clients are interchangeable in every safety property.
Symmetry == Permutations(Requests) \cup Permutations(Clients)
=============================================================================
