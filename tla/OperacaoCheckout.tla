-------------------------- MODULE OperacaoCheckout --------------------------
(***************************************************************************)
(* The checkout of a cart: the guest's tab, the requests it sends, the     *)
(* durable operation row they share, and the provider that opens the       *)
(* session the guest pays.                                                 *)
(*                                                                         *)
(*   src/adapters/pagamentos/checkout-operation-repository.postgres.ts     *)
(*   src/use-cases/checkout/iniciar-pagamento-carrinho.ts                  *)
(*   src/apps/eunenem-server/server/trpc/pagina-router.ts                  *)
(*   src/apps/eunenem-server/pages/lib/checkoutOperationClient.ts          *)
(*                                                                         *)
(* One tab with one cart: the storage key is a digest of the request, so   *)
(* the operations of one key have one provider.  Amounts, the composition  *)
(* of the cart and the guest's identity are not modelled: the request      *)
(* digest binds them to the operation.                                     *)
(***************************************************************************)
EXTENDS Naturals

CONSTANTS
    Operacoes,    \* operation ids the tab may draw
    Pedidos,      \* slots for requests running in the servers
    Vias,         \* providers the cart may be paid through
    NenhumaOp,    \* no operation id stored
    Ninguem,      \* no request
    MaxQuedas     \* bound: crashes, and leases that end under a live request

ASSUME SuposicaoCheckout ==
    /\ Vias \subseteq {"inter", "stripe"}
    /\ NenhumaOp \notin Operacoes
    /\ Ninguem \notin Pedidos
    /\ MaxQuedas \in Nat

VARIABLES
    via,          \* the provider of the cart's method
    estado,       \* payment_provider_operations.state, "livre" before the row
    abandonada,   \* abandoned_at is set
    dono,         \* whose claim lease_token and attempt_count name
    prazo,        \* lease_until is in the future
    ref,          \* provider_ref, 0 when NULL
    vinculo,      \* pagamentos.intencao_external_ref, 0 when NULL
    abertas,      \* sessions the provider opened for the payment
    lembra,       \* Stripe still remembers the idempotency key
    janela,       \* less than 23 h since provider_started_at
    guardado,     \* the operation id in the tab's sessionStorage
    cookies,      \* operations whose capability cookie the browser holds
    montados,     \* what the guest was shown: <<operation, session>>
    ouvinte,      \* the request whose answer the page awaits
    passo,        \* per request: where it is
    operacao,     \* per request: its operation
    modo,         \* per request: the claim's kind, then the answer
    obtida,       \* per request: the session it read from the provider
    quedas        \* how much of MaxQuedas is used

linha == <<estado, abandonada, dono, prazo, ref, vinculo>>
provedor == <<abertas, lembra>>
aba == <<guardado, cookies, montados>>
pedido == <<operacao, modo, obtida>>
vars == <<via, linha, provedor, janela, aba, ouvinte, passo, pedido, quedas>>

Estados == {"livre", "reserved", "in_flight", "provider_succeeded",
            "outcome_unknown", "local_committed"}
Tipos == {"create", "retrieve", "reconcile"}
Respostas == {"prepared", "conflito", "pendente", "retry", "material"}
PassosDoPedido == {"livre", "preparar", "executar", "chamar", "concluir",
                   "desistir", "confirmar", "responder"}

\* The types of the variables: the row of each operation, the tab, the
\* requests.
TypeOK ==
    /\ via \in Vias
    /\ estado \in [Operacoes -> Estados]
    /\ abandonada \in [Operacoes -> BOOLEAN]
    /\ dono \in [Operacoes -> Pedidos \cup {Ninguem}]
    /\ prazo \in [Operacoes -> BOOLEAN]
    /\ ref \in [Operacoes -> Nat]
    /\ vinculo \in [Operacoes -> Nat]
    /\ abertas \in [Operacoes -> Nat]
    /\ lembra \in [Operacoes -> BOOLEAN]
    /\ janela \in [Operacoes -> BOOLEAN]
    /\ guardado \in Operacoes \cup {NenhumaOp}
    /\ cookies \subseteq Operacoes
    /\ montados \subseteq Operacoes \X (Nat \ {0})
    /\ ouvinte \in Pedidos \cup {Ninguem}
    /\ passo \in [Pedidos -> PassosDoPedido]
    /\ operacao \in [Pedidos -> Operacoes \cup {NenhumaOp}]
    /\ modo \in [Pedidos -> Tipos \cup Respostas \cup {"recuperar", "nenhum"}]
    /\ obtida \in [Pedidos -> Nat]
    /\ quedas \in 0 .. MaxQuedas
    /\ \A h \in Pedidos : passo[h] # "livre" => operacao[h] \in Operacoes

Init ==
    /\ via \in Vias
    /\ estado = [o \in Operacoes |-> "livre"]
    /\ abandonada = [o \in Operacoes |-> FALSE]
    /\ dono = [o \in Operacoes |-> Ninguem]
    /\ prazo = [o \in Operacoes |-> FALSE]
    /\ ref = [o \in Operacoes |-> 0]
    /\ vinculo = [o \in Operacoes |-> 0]
    /\ abertas = [o \in Operacoes |-> 0]
    /\ lembra = [o \in Operacoes |-> FALSE]
    /\ janela = [o \in Operacoes |-> TRUE]
    /\ guardado = NenhumaOp
    /\ cookies = {}
    /\ montados = {}
    /\ ouvinte = Ninguem
    /\ passo = [h \in Pedidos |-> "livre"]
    /\ operacao = [h \in Pedidos |-> NenhumaOp]
    /\ modo = [h \in Pedidos |-> "nenhum"]
    /\ obtida = [h \in Pedidos |-> 0]
    /\ quedas = 0

-----------------------------------------------------------------------------
(***************************************************************************)
(* The transaction claim.                                                  *)
(***************************************************************************)

\* Mutant: the give-up demands the lease that the outcome already released.
DesistenciaComPrazo(o) ==
    via = "inter" /\ estado[o] = "outcome_unknown" /\ ref[o] = 0 /\ prazo[o]

\* An Inter operation whose only outcome is unknown is given up.
Desistencia(o) ==
    /\ via = "inter"
    /\ estado[o] = "outcome_unknown"
    /\ ref[o] = 0

\* Mutant: Stripe's replay window is not looked at.
TipoSemJanela(o) ==
    CASE estado[o] = "reserved"             -> "create"
      [] estado[o] # "reserved" /\ ref[o] # 0 -> "retrieve"
      [] OTHER -> IF via = "inter" THEN "reconcile" ELSE "create"

\* The kind of a claim: what the request must ask the provider.
TipoDaReserva(o) ==
    CASE estado[o] = "reserved"             -> "create"
      [] estado[o] # "reserved" /\ ref[o] # 0 -> "retrieve"
      [] OTHER -> IF via = "inter" THEN "reconcile"
                  ELSE IF janela[o] THEN "create" ELSE "expired_window"

\* The answer of claim, in the order of its returns.
RespostaDaReserva(o) ==
    IF estado[o] = "local_committed" THEN "local_committed"
    ELSE IF abandonada[o] \/ Desistencia(o) THEN "abandoned"
    ELSE IF estado[o] = "in_flight" /\ prazo[o] THEN "busy"
    ELSE TipoDaReserva(o)

\* Its writes: a new fence and lease for whoever claims, or the abandonment.
GravarReserva(h, o) ==
    LET ganhou == RespostaDaReserva(o) \in Tipos IN
    /\ abandonada' =
          [abandonada EXCEPT ![o] = @ \/ RespostaDaReserva(o) = "abandoned"]
    /\ estado' = [estado EXCEPT ![o] = IF ganhou THEN "in_flight" ELSE @]
    /\ dono' = [dono EXCEPT ![o] = IF ganhou THEN h ELSE @]
    /\ prazo' = [prazo EXCEPT ![o] = ganhou \/ @]
    /\ UNCHANGED <<ref, vinculo>>

-----------------------------------------------------------------------------
(***************************************************************************)
(* The steps of a request.                                                 *)
(***************************************************************************)

Em(h, p) == passo[h] = p
Ir(h, p) == passo' = [passo EXCEPT ![h] = p]
ResponderCom(h, m) ==
    /\ Ir(h, "responder")
    /\ modo' = [modo EXCEPT ![h] = m]

\* The browser sends the cookies it holds, so the tab's second request is the
\* one that executes; a stored id is reused, a new one is drawn otherwise.
Submeter(h) ==
    /\ Em(h, "livre")
    /\ ouvinte = Ninguem
    /\ \E o \in Operacoes :
          /\ IF guardado = NenhumaOp THEN estado[o] = "livre" ELSE o = guardado
          /\ guardado' = o
          /\ operacao' = [operacao EXCEPT ![h] = o]
          /\ Ir(h, IF o \in cookies THEN "executar" ELSE "preparar")
    /\ ouvinte' = h
    /\ UNCHANGED <<via, linha, provedor, janela, cookies, montados, modo,
                   obtida, quedas>>

\* Without a cookie the server draws a new capability: it can only reserve,
\* an operation that exists has another one's digest.
Preparar(h) ==
    /\ Em(h, "preparar")
    /\ LET o == operacao[h] IN
       IF estado[o] = "livre"
       THEN /\ estado' = [estado EXCEPT ![o] = "reserved"]
            /\ ResponderCom(h, "prepared")
       ELSE /\ ResponderCom(h, "conflito")
            /\ UNCHANGED estado
    /\ UNCHANGED <<via, abandonada, dono, prazo, ref, vinculo, provedor,
                   janela, aba, ouvinte, operacao, obtida, quedas>>

\* Both requests validate the cart before they touch the operation: a gift
\* sold out or a total that changed ends them with no write.
Recusar(h) ==
    /\ Em(h, "preparar") \/ Em(h, "executar")
    /\ ResponderCom(h, "conflito")
    /\ UNCHANGED <<via, linha, provedor, janela, aba, ouvinte, operacao,
                   obtida, quedas>>

Reivindicar(h) ==
    /\ Em(h, "executar")
    /\ LET o == operacao[h]
           r == RespostaDaReserva(o) IN
       /\ GravarReserva(h, o)
       /\ \/ /\ r \in Tipos \cup {"local_committed"}
             /\ modo' = [modo EXCEPT ![h] = IF r \in Tipos THEN r
                                            ELSE "recuperar"]
             /\ Ir(h, "chamar")
          \/ r = "abandoned" /\ ResponderCom(h, "retry")
          \/ r \in {"busy", "expired_window"} /\ ResponderCom(h, "pendente")
    /\ UNCHANGED <<via, provedor, janela, aba, ouvinte, operacao, obtida,
                   quedas>>

\* Stripe answers a remembered key with the session it opened; the PUT of an
\* Inter charge names its txid.  The call may not arrive, and its answer may
\* be lost.
ChamarCriar(h) ==
    /\ Em(h, "chamar") /\ modo[h] = "create"
    /\ LET o == operacao[h] IN
       \/ /\ abertas' = [abertas EXCEPT ![o] =
                            IF via = "inter" THEN 1
                            ELSE IF lembra[o] THEN @ ELSE @ + 1]
          /\ lembra' = [lembra EXCEPT ![o] = via = "stripe"]
          /\ \E s \in {0, abertas'[o]} : obtida' = [obtida EXCEPT ![h] = s]
       \/ /\ obtida' = [obtida EXCEPT ![h] = 0]
          /\ UNCHANGED provedor
    /\ Ir(h, "concluir")
    /\ UNCHANGED <<via, linha, janela, aba, ouvinte, operacao, modo, quedas>>

\* Reading finds the session recorded, or the charge of the deterministic
\* txid; it fails when the provider does, or the session can no longer be
\* paid.
SessoesLidas(o) ==
    {0} \cup (IF ref[o] # 0 THEN {ref[o]}
              ELSE IF abertas[o] # 0 THEN {abertas[o]} ELSE {})

\* Mutant: a session that could not be read is shown all the same.
ChamarLerSempreMostra(h) ==
    /\ Em(h, "chamar") /\ modo[h] # "create"
    /\ \E s \in SessoesLidas(operacao[h]) :
          /\ obtida' = [obtida EXCEPT ![h] = s]
          /\ IF modo[h] = "recuperar" THEN ResponderCom(h, "material")
             ELSE Ir(h, "concluir") /\ UNCHANGED modo
    /\ UNCHANGED <<via, linha, provedor, janela, aba, ouvinte, operacao,
                   quedas>>

ChamarLer(h) ==
    /\ Em(h, "chamar") /\ modo[h] # "create"
    /\ \E s \in SessoesLidas(operacao[h]) :
          /\ obtida' = [obtida EXCEPT ![h] = s]
          /\ IF modo[h] = "recuperar"
             THEN ResponderCom(h, IF s # 0 THEN "material" ELSE "pendente")
             ELSE Ir(h, "concluir") /\ UNCHANGED modo
    /\ UNCHANGED <<via, linha, provedor, janela, aba, ouvinte, operacao,
                   quedas>>

\* Mutant: the writes name the operation and nothing else.
MinhaPelaOperacao(h, e) == operacao[h] \in Operacoes

\* completeAttempt and commitLocal write only under the fence of the claim
\* this request made.
Minha(h, e) == estado[operacao[h]] = e /\ dono[operacao[h]] = h

ConcluirComSessao(h) ==
    /\ Em(h, "concluir") /\ obtida[h] # 0
    /\ LET o == operacao[h] IN
       IF Minha(h, "in_flight")
       THEN /\ estado' = [estado EXCEPT ![o] = "provider_succeeded"]
            /\ ref' = [ref EXCEPT ![o] = IF @ = 0 THEN obtida[h] ELSE @]
            /\ Ir(h, "confirmar")
            /\ UNCHANGED modo
       ELSE ResponderCom(h, "pendente") /\ UNCHANGED <<estado, ref>>
    /\ UNCHANGED <<via, abandonada, dono, prazo, vinculo, provedor, janela,
                   aba, ouvinte, operacao, obtida, quedas>>

\* The lease of an unknown outcome is released, and an Inter request claims
\* again at once, only to find whether the operation can be given up.
ConcluirSemSessao(h) ==
    /\ Em(h, "concluir") /\ obtida[h] = 0
    /\ LET o == operacao[h] IN
       IF Minha(h, "in_flight")
       THEN /\ estado' = [estado EXCEPT ![o] = "outcome_unknown"]
            /\ dono' = [dono EXCEPT ![o] = Ninguem]
            /\ prazo' = [prazo EXCEPT ![o] = FALSE]
            /\ IF via = "inter" THEN Ir(h, "desistir") /\ UNCHANGED modo
               ELSE ResponderCom(h, "pendente")
       ELSE ResponderCom(h, "pendente") /\ UNCHANGED <<estado, dono, prazo>>
    /\ UNCHANGED <<via, abandonada, ref, vinculo, provedor, janela, aba,
                   ouvinte, operacao, obtida, quedas>>

\* A claim won here is not used: its lease runs out by itself.
Desistir(h) ==
    /\ Em(h, "desistir")
    /\ LET o == operacao[h] IN
       /\ GravarReserva(h, o)
       /\ ResponderCom(h, IF RespostaDaReserva(o) = "abandoned" THEN "retry"
                          ELSE "pendente")
    /\ UNCHANGED <<via, provedor, janela, aba, ouvinte, operacao, obtida,
                   quedas>>

\* Mutant: the material is released whether or not the commit held the fence.
ConfirmarSemCerca(h) ==
    /\ Em(h, "confirmar")
    /\ LET o == operacao[h] IN
       IF Minha(h, "provider_succeeded")
       THEN /\ vinculo' = [vinculo EXCEPT ![o] = obtida[h]]
            /\ estado' = [estado EXCEPT ![o] = "local_committed"]
            /\ dono' = [dono EXCEPT ![o] = Ninguem]
            /\ prazo' = [prazo EXCEPT ![o] = FALSE]
       ELSE UNCHANGED <<vinculo, estado, dono, prazo>>
    /\ ResponderCom(h, "material")
    /\ UNCHANGED <<via, abandonada, ref, provedor, janela, aba, ouvinte,
                   operacao, obtida, quedas>>

\* The payment is bound and the operation committed in one transaction.
Confirmar(h) ==
    /\ Em(h, "confirmar")
    /\ LET o == operacao[h] IN
       IF /\ Minha(h, "provider_succeeded")
          /\ ref[o] = obtida[h]
          /\ vinculo[o] \in {0, obtida[h]}
       THEN /\ vinculo' = [vinculo EXCEPT ![o] = obtida[h]]
            /\ estado' = [estado EXCEPT ![o] = "local_committed"]
            /\ dono' = [dono EXCEPT ![o] = Ninguem]
            /\ prazo' = [prazo EXCEPT ![o] = FALSE]
            /\ ResponderCom(h, "material")
       ELSE /\ ResponderCom(h, "pendente")
            /\ UNCHANGED <<vinculo, estado, dono, prazo>>
    /\ UNCHANGED <<via, abandonada, ref, provedor, janela, aba, ouvinte,
                   operacao, obtida, quedas>>

\* The slot is free again.
Sair(h) ==
    /\ Ir(h, "livre")
    /\ operacao' = [operacao EXCEPT ![h] = NenhumaOp]
    /\ modo' = [modo EXCEPT ![h] = "nenhum"]
    /\ obtida' = [obtida EXCEPT ![h] = 0]
    /\ ouvinte' = IF ouvinte = h THEN Ninguem ELSE ouvinte

\* The page acts on an answer it still awaits.  A QR code stays bound to the
\* stored id; a Stripe session and an abandonment release it.
Entregar(h) ==
    /\ Em(h, "responder") /\ ouvinte = h
    /\ LET o == operacao[h]
           solta == modo[h] = "retry" \/ (modo[h] = "material" /\ via = "stripe")
       IN /\ cookies' = IF modo[h] = "prepared" THEN cookies \cup {o}
                        ELSE cookies
          /\ montados' = IF modo[h] = "material"
                         THEN montados \cup {<<o, obtida[h]>>} ELSE montados
          /\ guardado' = IF solta THEN NenhumaOp ELSE guardado
    /\ Sair(h)
    /\ UNCHANGED <<via, linha, provedor, janela, quedas>>

\* The answer is lost in the network, or nobody awaits it.
PerderResposta(h) ==
    /\ Em(h, "responder")
    /\ Sair(h)
    /\ UNCHANGED <<via, linha, provedor, janela, aba, quedas>>

-----------------------------------------------------------------------------
(***************************************************************************)
(* Crashes, time and the browser.                                          *)
(***************************************************************************)

\* The server dies between two awaits of the request.
Morrer(h) ==
    /\ ~Em(h, "livre")
    /\ quedas < MaxQuedas
    /\ quedas' = quedas + 1
    /\ Sair(h)
    /\ UNCHANGED <<via, linha, provedor, janela, aba>>

\* The request that holds the claim of o is still at work.
Trabalhando(o) ==
    \E h \in Pedidos : /\ dono[o] = h
                       /\ operacao[h] = o
                       /\ passo[h] \in {"chamar", "concluir"}

\* Thirty seconds pass.
VencerPrazo(o) ==
    /\ estado[o] = "in_flight"
    /\ prazo[o]
    /\ Trabalhando(o) => quedas < MaxQuedas
    /\ prazo' = [prazo EXCEPT ![o] = FALSE]
    /\ quedas' = IF Trabalhando(o) THEN quedas + 1 ELSE quedas
    /\ UNCHANGED <<via, estado, abandonada, dono, ref, vinculo, provedor,
                   janela, aba, ouvinte, passo, pedido>>

\* Twenty-three hours pass since the first claim.
FecharJanela(o) ==
    /\ via = "stripe"
    /\ estado[o] \notin {"livre", "reserved"}
    /\ janela[o]
    /\ janela' = [janela EXCEPT ![o] = FALSE]
    /\ UNCHANGED <<via, linha, provedor, aba, ouvinte, passo, pedido, quedas>>

\* Stripe keeps a key for twenty-four hours: it outlives the window by more
\* than a request lives.
Esquecer(o) ==
    /\ lembra[o] /\ ~janela[o]
    /\ \A h \in Pedidos :
          ~(Em(h, "chamar") /\ operacao[h] = o /\ modo[h] = "create")
    /\ lembra' = [lembra EXCEPT ![o] = FALSE]
    /\ UNCHANGED <<via, linha, abertas, janela, aba, ouvinte, passo, pedido,
                   quedas>>

\* The cookie reaches its Max-Age, or is evicted for a newer operation.
PerderCookie(o) ==
    /\ o \in cookies
    /\ cookies' = cookies \ {o}
    /\ UNCHANGED <<via, linha, provedor, janela, guardado, montados, ouvinte,
                   passo, pedido, quedas>>

\* A reload keeps the tab's storage and forgets the request.
Recarregar ==
    /\ ouvinte # Ninguem
    /\ ouvinte' = Ninguem
    /\ UNCHANGED <<via, linha, provedor, janela, aba, passo, pedido, quedas>>

-----------------------------------------------------------------------------
Passo(h) ==
    \/ Preparar(h) \/ Recusar(h) \/ Reivindicar(h) \/ ChamarCriar(h)
    \/ ChamarLer(h) \/ ConcluirComSessao(h) \/ ConcluirSemSessao(h)
    \/ Desistir(h) \/ Confirmar(h) \/ Entregar(h) \/ PerderResposta(h)

Tempo(o) == VencerPrazo(o) \/ FecharJanela(o) \/ Esquecer(o) \/ PerderCookie(o)

Next ==
    \/ \E h \in Pedidos : Submeter(h) \/ Passo(h) \/ Morrer(h)
    \/ \E o \in Operacoes : Tempo(o)
    \/ Recarregar

\* A request that does not die runs to its answer, since each of its awaits
\* has a timeout, and a lease ends.  Nothing is assumed of the guest or of
\* the provider's answers.
Justica ==
    /\ \A h \in Pedidos : WF_vars(Passo(h))
    /\ \A o \in Operacoes : WF_vars(VencerPrazo(o))

Spec == Init /\ [][Next]_vars /\ Justica

-----------------------------------------------------------------------------
(***************************************************************************)
(* Properties.                                                             *)
(***************************************************************************)

\* Whoever was shown a session can pay it, so the payment must be bound to
\* that session for the provider's event to find it.  Material is released
\* only after commitLocal under the claim's fence, whatever leases expired,
\* requests repeated or servers died meanwhile.
MontadoVinculado ==
    \A m \in montados :
        /\ vinculo[m[1]] = m[2]
        /\ estado[m[1]] = "local_committed"
        /\ ~abandonada[m[1]]

\* However often an operation is retried, the provider opened one session for
\* its payment: Stripe's replay window closes before its memory does, and an
\* Inter charge is only put from the reservation.
UmaSessao == \A o \in Operacoes : abertas[o] \in {0, 1}

\* The decision an operation's row and payment stand for.
DecisaoGravada ==
    [o \in Operacoes |->
        IF vinculo[o] # 0 THEN <<"vinculada", vinculo[o]>>
        ELSE IF abandonada[o] THEN <<"abandonada", 0>>
        ELSE <<"aberta", 0>>]

Decisao == INSTANCE DecisaoCheckout WITH decisao <- DecisaoGravada

\* An operation is decided once: the late answer of a request that lost its
\* lease neither revives an abandoned operation nor rebinds a payment.
ImplementaDecisao == Decisao!Spec

\* A PIX operation that is claimed again and again is given up, or a charge is
\* recorded for it: no crash, lost answer or overlap of requests leaves it
\* undecided with nothing known for ever.
PixInsistenteTermina ==
    \A o \in Operacoes :
        (/\ via = "inter"
         /\ []<><<\E h \in Pedidos : operacao[h] = o /\ Reivindicar(h)>>_vars)
        => <>(abandonada[o] \/ ref[o] # 0)

=============================================================================
