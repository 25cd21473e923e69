--------------------------- MODULE MCServiceClients ---------------------------
(***************************************************************************)
(* Finite instances of ServiceClients.                                     *)
(***************************************************************************)
EXTENDS ServiceClients, TLC

MCSymmetry == Permutations(Admins) \union Permutations(Seeds) \union
              Permutations(Configured) \union Permutations(Generated)
=============================================================================
