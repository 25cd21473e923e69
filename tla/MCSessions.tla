----------------------------- MODULE MCSessions -----------------------------
(***************************************************************************)
(* Finite instances of Sessions, and the constraint of the run about       *)
(* logins: it explores many logins and one refresh.                        *)
(***************************************************************************)
EXTENDS Sessions, TLC

MCSymmetry == Permutations(Requests)

OnePresented == Cardinality(presented) <= 1
=============================================================================
