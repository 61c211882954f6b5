--------------------------- MODULE PagamentoStripe ---------------------------
(***************************************************************************)
(* Payments through a Stripe Checkout session: signed events, delivered in *)
(* any order and again until they are answered 200, dispatched to          *)
(* finalizarPagamentoAprovado, finalizarPagamentoRejeitado or              *)
(* iniciarProcessamentoPagamento, one database or provider call per step.  *)
(*                                                                         *)
(* Stripe is external.  The session of a card is completed paid; one of    *)
(* PIX is completed unpaid and settles later.  An attempt at an open       *)
(* session may fail and be repeated.  The payment's id is stamped on the   *)
(* session's metadata (provider.stripe.ts); whether the payment intent     *)
(* carries it too, as comments of stripe-webhook.ts expect, is left open.  *)
(***************************************************************************)
EXTENDS Naturals

CONSTANTS
    Pagamentos,   \* payments with a Stripe session
    Handlers,     \* BOUND: webhook deliveries handled at the same time
    HandlersPix,  \* BOUND: those of them that may serve a PIX payment
    Ninguem,      \* no holder, no event
    MaxFalhas     \* BOUND on crashes and failed calls

\* The event types that drive a payment; the others only annotate it.
Tipos == {"session.completed", "session.expired", "intent.processing",
          "intent.payment_failed", "charge.succeeded", "charge.failed"}

Eventos == Tipos \X Pagamentos

ASSUME SuposicaoStripe ==
    /\ HandlersPix \subseteq Handlers
    /\ Ninguem \notin Handlers \cup Eventos
    /\ MaxFalhas \in Nat

VARIABLES
    cartoes,    \* payments by card (metodo); the others are PIX
    comMetadados, \* payments whose intent carries metadata.idPagamento
    sessao,     \* the Checkout session at Stripe
    emitidos,   \* events Stripe has to deliver
    vinculado,  \* payments with intencao_payment_intent_external_ref
    status,     \* StatusPagamento
    anuncios,   \* how often payment.approved was published
    registros,  \* how often the rows of the payment were inserted
    arquivo,    \* the webhook archive
    handler,    \* where each webhook handler is
    falhas      \* crashes and failed calls so far

vars == <<cartoes, comMetadados, sessao, emitidos, vinculado, status, anuncios, registros,
          arquivo, handler, falhas>>

Arq == INSTANCE ArquivoWebhook WITH Entregas <- Handlers

Livre == [passo |-> "livre", evento |-> Ninguem, saida |-> "nenhuma"]

Passos == {"livre", "despachando", "processando", "finalizando", "aprovando", "cobrando",
           "gravandoAprovado", "anunciando", "lendo", "registrando",
           "recusando", "rejeitando", "conferindo", "gravandoRejeitado", "encerrando"}

TypeOK ==
    /\ cartoes \subseteq Pagamentos /\ comMetadados \subseteq Pagamentos
    /\ sessao \in [Pagamentos -> {"aberta", "confirmando", "paga", "perdida", "expirada"}]
    /\ emitidos \subseteq Eventos
    /\ vinculado \subseteq Pagamentos
    /\ status \in [Pagamentos -> {"pendente", "processing", "aprovado", "rejeitado"}]
    /\ anuncios \in [Pagamentos -> {0, 1}]
    /\ registros \in [Pagamentos -> {0, 1}]
    /\ arquivo \in Arq!EstadosDoArquivo
    /\ handler \in [Handlers -> [passo : Passos, evento : Eventos \cup {Ninguem},
                                 saida : {"nenhuma", "ok", "erro"}]]
    /\ falhas \in 0..MaxFalhas

\* Checkout has committed the session and the payment (externalRef = session id).
Init ==
    /\ cartoes \in SUBSET Pagamentos /\ comMetadados \in SUBSET Pagamentos
    /\ sessao = [p \in Pagamentos |-> "aberta"]
    /\ emitidos = {}
    /\ vinculado = {}
    /\ status = [p \in Pagamentos |-> "pendente"]
    /\ anuncios = [p \in Pagamentos |-> 0]
    /\ registros = [p \in Pagamentos |-> 0]
    /\ arquivo = Arq!ArquivoInicial
    /\ handler = [h \in Handlers |-> Livre]
    /\ falhas = 0

-----------------------------------------------------------------------------
(* Stripe, and time *)

PagamentoMudo == UNCHANGED <<status, anuncios, registros>>

Sessao(p, de, para, tipos) ==
    /\ sessao[p] = de
    /\ sessao' = [sessao EXCEPT ![p] = para]
    /\ emitidos' = emitidos \cup (tipos \X {p})
    /\ UNCHANGED <<cartoes, comMetadados, vinculado, arquivo, handler, falhas>> /\ PagamentoMudo

\* The card is charged and the session completes.
PagarCartao(p) ==
    p \in cartoes /\ Sessao(p, "aberta", "paga", {"session.completed", "charge.succeeded"})

\* The QR code was scanned, and the bank confirms or gives up later.
EscanearPix(p) ==
    p \notin cartoes
        /\ Sessao(p, "aberta", "confirmando", {"session.completed", "intent.processing"})
ConfirmarPix(p) == Sessao(p, "confirmando", "paga", {"charge.succeeded"})
PerderPix(p) == Sessao(p, "confirmando", "perdida", {"charge.failed", "intent.payment_failed"})

\* An attempt fails; the contributor may try again.
FalharTentativa(p) ==
    Sessao(p, "aberta", "aberta", {"charge.failed", "intent.payment_failed"})

ExpirarSessao(p) == Sessao(p, "aberta", "expirada", {"session.expired"})

VencerCerca(e) ==
    /\ Arq!VencerCerca(e)
    /\ UNCHANGED <<cartoes, comMetadados, sessao, emitidos, vinculado, handler, falhas>>
    /\ PagamentoMudo

-----------------------------------------------------------------------------
(* The handlers *)

Tipo(h) == handler[h].evento[1]
Pag(h) == handler[h].evento[2]
Em(h, passo) == handler[h].passo = passo
Ir(h, passo) == handler' = [handler EXCEPT ![h].passo = passo]
Sair(h, saida) == handler' = [handler EXCEPT ![h].passo = "encerrando", ![h].saida = saida]

\* Everything but the handler and the payment.
SoHandler == UNCHANGED <<cartoes, comMetadados, sessao, emitidos, arquivo, falhas>>
SoAnda == SoHandler /\ UNCHANGED vinculado /\ PagamentoMudo

\* A process dies; its fence stays until it expires.
Cair(h) ==
    /\ ~Em(h, "livre") /\ falhas < MaxFalhas
    /\ handler' = [handler EXCEPT ![h] = Livre]
    /\ falhas' = falhas + 1
    /\ UNCHANGED <<cartoes, comMetadados, sessao, emitidos, vinculado, arquivo>> /\ PagamentoMudo

\* A call to Stripe, to the database or to the publisher throws.
Falhar(h) ==
    /\ handler[h].passo \notin {"livre", "encerrando"} /\ falhas < MaxFalhas
    /\ Sair(h, "erro")
    /\ falhas' = falhas + 1
    /\ UNCHANGED <<cartoes, comMetadados, sessao, emitidos, vinculado, arquivo>> /\ PagamentoMudo

\* A delivery of e, the first or a repeated one.  When the event is processed
\* or claimed already it changes nothing (200, 503).
Receber(h, e) ==
    /\ Em(h, "livre") /\ e \in emitidos /\ (e[2] \in cartoes \/ h \in HandlersPix)
    /\ Arq!Reclamar(e, h)
    /\ handler' = [handler EXCEPT ![h] = [passo |-> "despachando", evento |-> e,
                                          saida |-> "nenhuma"]]
    /\ UNCHANGED <<cartoes, comMetadados, sessao, emitidos, vinculado, falhas>> /\ PagamentoMudo

Terminal == {"aprovado", "rejeitado"}

\* checkout.session.completed finds its payment by the session id and binds the
\* payment intent, before it looks at payment_status.
DespacharCompletada(h) ==
    /\ Em(h, "despachando") /\ Tipo(h) = "session.completed"
    /\ vinculado' = vinculado \cup {Pag(h)}
    /\ Ir(h, IF Pag(h) \in cartoes THEN "finalizando" ELSE "processando")
    /\ SoHandler /\ PagamentoMudo

DespacharExpirada(h) ==
    /\ Em(h, "despachando") /\ Tipo(h) = "session.expired"
    /\ Ir(h, "recusando") /\ SoAnda

\* The other events find the payment by its payment intent.  As long as that is
\* not bound they are acknowledged without effect.
SeVinculado(h, passo) ==
    \/ Pag(h) \in vinculado /\ Ir(h, passo)
    \/ Pag(h) \notin vinculado /\ Sair(h, "ok")

DespacharIntencao(h) ==
    /\ Em(h, "despachando") /\ Tipo(h) = "intent.processing"
    /\ SeVinculado(h, "processando") /\ SoAnda

\* Mutant: the report of a declined attempt finds its payment without metadata, too.
RecusaSemMetadados(h) ==
    /\ Em(h, "despachando") /\ Tipo(h) = "intent.payment_failed"
    /\ Ir(h, "recusando") /\ SoAnda
\* payment_intent.payment_failed has a second way to the payment, by the metadata of
\* the intent, when it is not bound.
DespacharRecusa(h) ==
    /\ Em(h, "despachando") /\ Tipo(h) = "intent.payment_failed"
    /\ \/ Pag(h) \in comMetadados /\ Ir(h, "recusando")
       \/ Pag(h) \notin comMetadados /\ SeVinculado(h, "recusando")
    /\ SoAnda

\* charge.* also skips a payment that is decided already.
DespacharCobranca(h) ==
    /\ Em(h, "despachando")
    /\ \/ status[Pag(h)] \notin Terminal
          /\ \/ Tipo(h) = "charge.succeeded" /\ SeVinculado(h, "finalizando")
             \/ Tipo(h) = "charge.failed" /\ SeVinculado(h, "recusando")
       \/ /\ status[Pag(h)] \in Terminal
          /\ Tipo(h) \in {"charge.succeeded", "charge.failed"} /\ Sair(h, "ok")
    /\ SoAnda

\* Mutant: a completed session counts as paid.
ProcessarAprova(h) ==
    /\ Em(h, "processando")
    /\ status' = IF status[Pag(h)] = "pendente"
                 THEN [status EXCEPT ![Pag(h)] = "aprovado"] ELSE status
    /\ Sair(h, "ok")
    /\ SoHandler /\ UNCHANGED <<vinculado, anuncios, registros>>
\* iniciarProcessamentoSePendente, a compare-and-set whose loser goes on.
Processar(h) ==
    /\ Em(h, "processando")
    /\ status' = IF status[Pag(h)] = "pendente"
                 THEN [status EXCEPT ![Pag(h)] = "processing"] ELSE status
    /\ Sair(h, "ok")
    /\ SoHandler /\ UNCHANGED <<vinculado, anuncios, registros>>

(* Approval: finalizarPagamentoAprovado and aprovarPagamento *)

\* A payment approved before is replayed: only the ledger is looked after.
Finalizar(h) ==
    /\ Em(h, "finalizando")
    /\ \/ status[Pag(h)] = "aprovado" /\ Ir(h, "lendo")
       \/ status[Pag(h)] = "rejeitado" /\ Sair(h, "erro")
       \/ status[Pag(h)] \notin Terminal /\ Ir(h, "aprovando")
    /\ SoAnda

\* aprovarPagamento reads again, and refuses one approved meanwhile.
PodeAprovar(h) ==
    /\ Em(h, "aprovando")
    /\ \/ status[Pag(h)] \notin Terminal /\ Ir(h, "cobrando")
       \/ status[Pag(h)] \in Terminal /\ Sair(h, "erro")
    /\ SoAnda

\* solicitarPagamento: payment_status is the authority.
Cobrar(h) ==
    /\ Em(h, "cobrando")
    /\ \/ sessao[Pag(h)] = "paga" /\ Ir(h, "gravandoAprovado")
       \/ sessao[Pag(h)] # "paga" /\ Sair(h, "erro")
    /\ SoAnda

\* Mutant: the approval is a plain update.
AprovarSemCas(h) ==
    /\ Em(h, "gravandoAprovado")
    /\ status' = [status EXCEPT ![Pag(h)] = "aprovado"] /\ Ir(h, "anunciando")
    /\ SoHandler /\ UNCHANGED <<vinculado, anuncios, registros>>
\* The compare-and-set; its loser goes on with the ledger of an approved payment.
Aprovar(h) ==
    /\ Em(h, "gravandoAprovado")
    /\ \/ /\ status[Pag(h)] \notin Terminal
          /\ status' = [status EXCEPT ![Pag(h)] = "aprovado"]
          /\ Ir(h, "anunciando")
       \/ status[Pag(h)] = "aprovado" /\ Ir(h, "lendo") /\ UNCHANGED status
       \/ status[Pag(h)] = "rejeitado" /\ Sair(h, "erro") /\ UNCHANGED status
    /\ SoHandler /\ UNCHANGED <<vinculado, anuncios, registros>>

\* publicarAprovacao: the event and the receipt, by the winner alone.
Anunciar(h) ==
    /\ Em(h, "anunciando")
    /\ anuncios' = [anuncios EXCEPT ![Pag(h)] = @ + 1]
    /\ Ir(h, "lendo")
    /\ SoHandler /\ UNCHANGED <<vinculado, status, registros>>

\* findLancamentosByIdPagamento: rows found are the result.
LerLivro(h) ==
    /\ Em(h, "lendo")
    /\ IF registros[Pag(h)] > 0 THEN Sair(h, "ok") ELSE Ir(h, "registrando")
    /\ SoAnda

\* Mutant: the rows are inserted without their unique key.
RegistrarSemChave(h) ==
    /\ Em(h, "registrando")
    /\ registros' = [registros EXCEPT ![Pag(h)] = @ + 1] /\ Sair(h, "ok")
    /\ SoHandler /\ UNCHANGED <<vinculado, status, anuncios>>
\* registrarEfeitosFinanceirosPagamentoAprovado: rows that appeared meanwhile make
\* it throw.
Registrar(h) ==
    /\ Em(h, "registrando")
    /\ \/ /\ registros[Pag(h)] = 0
          /\ registros' = [registros EXCEPT ![Pag(h)] = 1] /\ Sair(h, "ok")
       \/ registros[Pag(h)] > 0 /\ UNCHANGED registros /\ Sair(h, "erro")
    /\ SoHandler /\ UNCHANGED <<vinculado, status, anuncios>>

(* Rejection: finalizarPagamentoRejeitado and rejeitarPagamento *)

Recusar(h) ==
    /\ Em(h, "recusando")
    /\ \/ status[Pag(h)] = "rejeitado" /\ Sair(h, "ok")
       \/ status[Pag(h)] = "aprovado" /\ Sair(h, "erro")
       \/ status[Pag(h)] \notin Terminal /\ Ir(h, "rejeitando")
    /\ SoAnda

PodeRejeitar(h) ==
    /\ Em(h, "rejeitando")
    /\ \/ status[Pag(h)] \notin Terminal /\ Ir(h, "conferindo")
       \/ status[Pag(h)] \in Terminal /\ Sair(h, "erro")
    /\ SoAnda

\* solicitarPagamento: whatever is not paid counts as rejected, a session that is
\* still open or being confirmed too.
Conferir(h) ==
    /\ Em(h, "conferindo")
    /\ \/ sessao[Pag(h)] # "paga" /\ Ir(h, "gravandoRejeitado")
       \/ sessao[Pag(h)] = "paga" /\ Sair(h, "erro")
    /\ SoAnda

\* A plain update of the whole row, whatever its status has become since.
GravarRejeitado(h) ==
    /\ Em(h, "gravandoRejeitado")
    /\ status' = [status EXCEPT ![Pag(h)] = "rejeitado"]
    /\ Sair(h, "ok")
    /\ SoHandler /\ UNCHANGED <<vinculado, anuncios, registros>>

\* Mutant: a failed event is recorded as processed.
ResponderSempreOk(h) ==
    /\ Em(h, "encerrando")
    /\ Arq!Concluir(handler[h].evento, h) /\ handler' = [handler EXCEPT ![h] = Livre]
    /\ UNCHANGED <<cartoes, comMetadados, sessao, emitidos, vinculado, falhas>> /\ PagamentoMudo
\* The outcome is recorded under the fence, and answered 200 or 500.
Responder(h) ==
    /\ Em(h, "encerrando")
    /\ \/ handler[h].saida = "ok" /\ Arq!Concluir(handler[h].evento, h)
       \/ handler[h].saida = "erro" /\ Arq!Recusar(handler[h].evento, h)
    /\ handler' = [handler EXCEPT ![h] = Livre]
    /\ UNCHANGED <<cartoes, comMetadados, sessao, emitidos, vinculado, falhas>> /\ PagamentoMudo

-----------------------------------------------------------------------------
Despachar(h) ==
    \/ DespacharCompletada(h) \/ DespacharExpirada(h)
    \/ DespacharIntencao(h) \/ DespacharRecusa(h) \/ DespacharCobranca(h)

PassoDaAprovacao(h) ==
    \/ Finalizar(h) \/ PodeAprovar(h) \/ Cobrar(h) \/ Aprovar(h)
    \/ Anunciar(h) \/ LerLivro(h) \/ Registrar(h)

PassoDaRejeicao(h) == Recusar(h) \/ PodeRejeitar(h) \/ Conferir(h) \/ GravarRejeitado(h)

PassoDoHandler(h) ==
    Despachar(h) \/ Processar(h) \/ PassoDaAprovacao(h) \/ PassoDaRejeicao(h) \/ Responder(h)

PassoDaStripe(p) ==
    \/ PagarCartao(p) \/ EscanearPix(p) \/ ConfirmarPix(p) \/ PerderPix(p)
    \/ FalharTentativa(p) \/ ExpirarSessao(p)

Next ==
    \/ \E p \in Pagamentos : PassoDaStripe(p)
    \/ \E e \in Eventos : VencerCerca(e)
    \/ \E h \in Handlers :
          PassoDoHandler(h) \/ Cair(h) \/ Falhar(h) \/ \E e \in Eventos : Receber(h, e)

Spec == Init /\ [][Next]_vars

\* Whoever started goes on until it dies, fences expire, and Stripe delivers an
\* event of these types again until it is answered 200.
Justica(tipos) ==
    /\ \A h \in Handlers : WF_vars(PassoDoHandler(h))
    /\ \A e \in tipos \X Pagamentos :
          WF_vars(VencerCerca(e)) /\ SF_vars(\E h \in Handlers : Receber(h, e))

SpecCompletada == Spec /\ Justica({"session.completed"})
SpecJusta == Spec /\ Justica(Tipos)

-----------------------------------------------------------------------------
(* Correctness *)

\* Whatever the order of the events, only money received has effects: approval,
\* announcement and ledger follow a read of the paid session (provider.stripe.ts:
\* payment_status tells whether the money moved).
SoOPagoProduzEfeitos ==
    \A p \in Pagamentos :
        status[p] = "aprovado" \/ anuncios[p] > 0 \/ registros[p] > 0 => sessao[p] = "paga"

\* A declined attempt was reported for a payment that its intent's metadata name: the
\* fallback may have rejected it while its session was still open.
RejeitavelPelosMetadados(p) ==
    p \in comMetadados /\ <<"intent.payment_failed", p>> \in emitidos

\* Declined attempts delivered late reject no card payment that went through, since a
\* card's intent is bound by the completed, hence paid, session.  The one way around
\* that is the metadata fallback of payment_intent.payment_failed.
CartaoPagoNaoERejeitado ==
    \A p \in cartoes :
        status[p] = "rejeitado" => sessao[p] = "expirada" \/ RejeitavelPelosMetadados(p)

\* The cards the fallback cannot reach.
CartoesComuns == cartoes \ comMetadados

\* Although rejeitarPagamento is a plain update, the payments by card that the
\* metadata fallback cannot reach walk the machine of pagamento.ts: one final
\* decision, announced and registered at most once.
DosCartoes(f, nada) == [p \in Pagamentos |-> IF p \in CartoesComuns THEN f[p] ELSE nada]
Maquina == INSTANCE MaquinaPagamento WITH
    status <- DosCartoes(status, "pendente"),
    anuncios <- DosCartoes(anuncios, 0), registros <- DosCartoes(registros, 0)
CartoesImplementamMaquina == Maquina!Spec

\* A card that was charged reaches the ledger, after whatever crash, failed call
\* or order of events: checkout.session.completed is retried until it does.  Only the
\* metadata fallback can leave it rejected instead, and then it is retried for ever.
CartaoPagoSeRegistra ==
    \A p \in Pagamentos : (p \in cartoes /\ sessao[p] = "paga") ~>
        \/ registros[p] > 0
        \/ status[p] = "rejeitado" /\ RejeitavelPelosMetadados(p)

\* stripe-webhook.ts: for a session completed unpaid, finalize-aprovado fires later
\* from charge.succeeded.  A PIX the bank confirmed is eventually approved.
PixPagoSeAprova ==
    \A p \in Pagamentos : (p \notin cartoes /\ sessao[p] = "paga") ~> (status[p] = "aprovado")

=============================================================================
