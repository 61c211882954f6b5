-------------------------- MODULE MCLivroRepasses --------------------------
(***************************************************************************)
(* A small instance of LivroRepasses: a batch of two payments, one charged *)
(* by Stripe and one by Inter.                                             *)
(***************************************************************************)
EXTENDS LivroRepasses, TLC

CONSTANTS p1, p2, l1, l2, r1, r2, c1

\* A row of each payment.
MCPagamentoDe == l1 :> p1 @@ l2 :> p2

MCCampanhaDe == [p \in Pagamentos |-> c1]
MCProvedorDe == [p \in Pagamentos |-> IF p = p1 THEN "stripe" ELSE "inter"]
MCPagosPorPix == Pagamentos \ {p1}

\* Payout identities are interchangeable.
Simetria == Permutations(Repasses)

=============================================================================
