------------------------- MODULE MCExecucaoRepasse -------------------------
(***************************************************************************)
(* One payment, one credit and one payout: everything hard about its       *)
(* execution comes from its jobs and handlers.                             *)
(***************************************************************************)
EXTENDS ExecucaoRepasse, TLC

CONSTANTS p1, l1, r1, c1

MCPagamentoDe == l1 :> p1
MCCampanhaDe == p1 :> c1
MCProvedorInter == p1 :> "inter"

\* Jobs and handler callbacks are interchangeable.
Simetria == Permutations(Jobs) \cup Permutations(Execucoes)

=============================================================================
