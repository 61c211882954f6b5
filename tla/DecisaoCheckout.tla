-------------------------- MODULE DecisaoCheckout --------------------------
(***************************************************************************)
(* What the checkout promises of each operation: it is decided once.       *)
(* Either it is given up, or its payment is bound to one session (a Stripe *)
(* Checkout session, or an Inter charge) for good.                         *)
(***************************************************************************)
EXTENDS Naturals

CONSTANT Operacoes   \* the operation ids, one per payment

VARIABLE decisao     \* per operation, <<kind, session>>

Aberta == <<"aberta", 0>>
Abandonada == <<"abandonada", 0>>
Vinculadas == {"vinculada"} \X (Nat \ {0})

\* src/adapters/pagamentos/checkout-operation-repository.postgres.ts: an
\* operation starts undecided...
Init == decisao = [o \in Operacoes |-> Aberta]

\* ...and a decision is written over nothing but "undecided".
Decidir(o) ==
    /\ decisao[o] = Aberta
    /\ decisao'[o] \in {Abandonada} \cup Vinculadas
    /\ decisao' = [decisao EXCEPT ![o] = decisao'[o]]

Next == \E o \in Operacoes : Decidir(o)

Spec == Init /\ [][Next]_decisao

============================================================================
