------------------------------ MODULE MCOutbox ------------------------------
(***************************************************************************)
(* Finite instances of Outbox: one jobs process j with two run slots (so   *)
(* that overlapping ticks would show), and the API process a.              *)
(***************************************************************************)
EXTENDS Outbox, TLC

CONSTANTS j, a, j1, j2, a1

MCProcOf       == (j1 :> j) @@ (j2 :> j) @@ (a1 :> a)
MCProcOfTwo    == (j1 :> j) @@ (a1 :> a)
MCProcOfWorker == (j1 :> j)

\* j1 and j2 are interchangeable slots of one process
MCSymmetry == Permutations({j1, j2})
=============================================================================
