--------------------------- MODULE MaquinaPagamento ---------------------------
(***************************************************************************)
(* What a payment promises, whoever asked for it and however often: its    *)
(* status walks the machine of pagamento.ts, one decision per payment; its *)
(* approval is announced at most once; and its rows enter the ledger at    *)
(* most once, never before the approval.                                   *)
(***************************************************************************)
EXTENDS Naturals

CONSTANTS
    Pagamentos   \* payments

VARIABLES
    status,      \* StatusPagamento of each payment
    anuncios,    \* how often payment.approved was published
    registros    \* how often the rows of the payment were inserted

maquinaVars == <<status, anuncios, registros>>

StatusPagamento == {"pendente", "processing", "aprovado", "rejeitado", "estornado"}

Init ==
    /\ status = [p \in Pagamentos |-> "pendente"]
    /\ anuncios = [p \in Pagamentos |-> 0]
    /\ registros = [p \in Pagamentos |-> 0]

Mudar(p, de, para) ==
    /\ status[p] \in de
    /\ status' = [status EXCEPT ![p] = para]
    /\ UNCHANGED <<anuncios, registros>>

Processar(p) == Mudar(p, {"pendente"}, "processing")
Aprovar(p) == Mudar(p, {"pendente", "processing"}, "aprovado")
Rejeitar(p) == Mudar(p, {"pendente", "processing"}, "rejeitado")
Estornar(p) == Mudar(p, {"aprovado"}, "estornado")

Anunciar(p) ==
    /\ status[p] \in {"aprovado", "estornado"} /\ anuncios[p] = 0
    /\ anuncios' = [anuncios EXCEPT ![p] = 1]
    /\ UNCHANGED <<status, registros>>

Registrar(p) ==
    /\ status[p] \in {"aprovado", "estornado"} /\ registros[p] = 0
    /\ registros' = [registros EXCEPT ![p] = 1]
    /\ UNCHANGED <<status, anuncios>>

Next == \E p \in Pagamentos :
    \/ Processar(p) \/ Aprovar(p) \/ Rejeitar(p) \/ Estornar(p)
    \/ Anunciar(p) \/ Registrar(p)

Spec == Init /\ [][Next]_maquinaVars

=============================================================================
