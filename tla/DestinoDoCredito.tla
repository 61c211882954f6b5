-------------------------- MODULE DestinoDoCredito --------------------------
(***************************************************************************)
(* What the payments side of eunenem-engine promises about the money of an *)
(* approved payment, with no payout, refund or lock in sight: it stays with*)
(* the platform, goes to the receiver (and may come back when the transfer *)
(* turns out not to have happened), or returns to the contributor, from    *)
(* where nothing moves it any more.  Nothing goes from the receiver to the *)
(* contributor.  LivroRepasses and EstornoPagamento implement this.        *)
(***************************************************************************)
CONSTANT Pagamentos

VARIABLE destino   \* where the money of each payment is

Init == destino = [p \in Pagamentos |-> "plataforma"]

\* A transaction moves the money of a set of payments from one place to another.
Mover(de, para) ==
    \E ps \in SUBSET Pagamentos :
        /\ \A p \in ps : destino[p] = de
        /\ destino' = [p \in Pagamentos |-> IF p \in ps THEN para ELSE destino[p]]

Entregar == Mover("plataforma", "recebedor")
Desfazer == Mover("recebedor", "plataforma")
Devolver == Mover("plataforma", "contribuinte")

Next == Entregar \/ Desfazer \/ Devolver

Spec == Init /\ [][Next]_destino

=============================================================================
