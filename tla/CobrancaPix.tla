----------------------------- MODULE CobrancaPix -----------------------------
(***************************************************************************)
(* PIX charges of Banco Inter: the webhook (an unsigned hint, that may be  *)
(* early or name another settlement) and the reconciliation sweep race to  *)
(* finish one payment.  Each reads the charge at the provider under a      *)
(* lease of the payment, and hands what it read to                         *)
(* finalizarPagamentoAprovadoComTransacaoVerificada or to                  *)
(* rejeitarPagamentoComTransacaoVerificada, one database call per step.    *)
(*                                                                         *)
(* Banco Inter is external.  Time is not counted: a lease may end as soon  *)
(* as it was taken, a charge may expire at any moment.                     *)
(***************************************************************************)
EXTENDS Naturals

CONSTANTS
    Pagamentos,   \* payments with a PIX charge
    Webhooks,     \* BOUND: webhook deliveries handled at the same time
    Varreduras,   \* BOUND: sweeps running at the same time
    Ninguem,      \* no holder, no payment
    PagaDepois,   \* payments Banco Inter may settle after their local expiry
    MaxFalhas     \* BOUND on crashes, failed calls and forged notifications

Atores == Webhooks \cup Varreduras

ASSUME SuposicaoCobranca ==
    /\ Ninguem \notin Atores \cup Pagamentos
    /\ Webhooks \cap Varreduras = {}
    /\ PagaDepois \subseteq Pagamentos
    /\ MaxFalhas \in Nat

VARIABLES
    cobranca,   \* the charge at Banco Inter
    vencida,    \* payments whose intencao_expira_em passed
    status,     \* StatusPagamento
    anuncios,   \* how often payment.approved was published
    registros,  \* how often the rows of the payment were inserted
    reserva,    \* holder of pix_reconciliacao_claimed_until
    arquivo,    \* the webhook archive, one event per charge and its settlement
    ator,       \* where each webhook handler and each sweep is
    falhas      \* crashes, failed calls and forged notifications so far

vars == <<cobranca, vencida, status, anuncios, registros, reserva, arquivo, ator, falhas>>

Arq == INSTANCE ArquivoWebhook WITH Eventos <- Pagamentos, Entregas <- Webhooks

\* e2e: the endToEndId notified is the one of the charge's settlement.
Livre == [passo |-> "livre", p |-> Ninguem, e2e |-> TRUE, fila |-> {}, saida |-> "nenhuma"]

Passos == {"livre", "vinculando", "consultando", "aprovando", "anunciando", "lendo",
           "registrando", "rejeitando", "encerrando"}

TypeOK ==
    /\ cobranca \in [Pagamentos -> {"ativa", "concluida", "removida"}]
    /\ vencida \subseteq Pagamentos
    /\ status \in [Pagamentos -> {"pendente", "aprovado", "rejeitado"}]
    /\ anuncios \in [Pagamentos -> {0, 1}]
    /\ registros \in [Pagamentos -> {0, 1}]
    /\ reserva \in [Pagamentos -> Atores \cup {Ninguem}]
    /\ arquivo \in Arq!EstadosDoArquivo
    /\ ator \in [Atores -> [passo : Passos, p : Pagamentos \cup {Ninguem}, e2e : BOOLEAN,
                            fila : SUBSET Pagamentos,
                            saida : {"nenhuma", "ok", "erro"}]]
    /\ falhas \in 0..MaxFalhas

\* Checkout has committed the charge and the payment (provider_ref = txid).
Init ==
    /\ cobranca = [p \in Pagamentos |-> "ativa"]
    /\ vencida = {}
    /\ status = [p \in Pagamentos |-> "pendente"]
    /\ anuncios = [p \in Pagamentos |-> 0]
    /\ registros = [p \in Pagamentos |-> 0]
    /\ reserva = [p \in Pagamentos |-> Ninguem]
    /\ arquivo = Arq!ArquivoInicial
    /\ ator = [a \in Atores |-> Livre]
    /\ falhas = 0

-----------------------------------------------------------------------------
(* Banco Inter, and time *)

PagamentoMudo == UNCHANGED <<status, anuncios, registros>>

\* The contributor pays.  By default no later than the local expiry.
Pagar(p) ==
    /\ cobranca[p] = "ativa" /\ (p \in vencida => p \in PagaDepois)
    /\ cobranca' = [cobranca EXCEPT ![p] = "concluida"]
    /\ UNCHANGED <<vencida, reserva, arquivo, ator, falhas>> /\ PagamentoMudo

Remover(p) ==
    /\ cobranca[p] = "ativa"
    /\ cobranca' = [cobranca EXCEPT ![p] = "removida"]
    /\ UNCHANGED <<vencida, reserva, arquivo, ator, falhas>> /\ PagamentoMudo

Expirar(p) ==
    /\ p \notin vencida
    /\ vencida' = vencida \cup {p}
    /\ UNCHANGED <<cobranca, reserva, arquivo, ator, falhas>> /\ PagamentoMudo

\* Mutant: a lease without a deadline.
ReservaSemPrazo(p) == FALSE /\ UNCHANGED vars
\* pix_reconciliacao_claimed_until passes, whatever its holder is doing.
VencerReserva(p) ==
    /\ reserva[p] # Ninguem
    /\ reserva' = [reserva EXCEPT ![p] = Ninguem]
    /\ UNCHANGED <<cobranca, vencida, arquivo, ator, falhas>> /\ PagamentoMudo

VencerCerca(p) ==
    /\ Arq!VencerCerca(p)
    /\ UNCHANGED <<cobranca, vencida, reserva, ator, falhas>> /\ PagamentoMudo

-----------------------------------------------------------------------------
(* The actors *)

Em(a, passo) == ator[a].passo = passo
Ir(a, passo) == ator' = [ator EXCEPT ![a].passo = passo]
Sair(a, saida) == ator' = [ator EXCEPT ![a].passo = "encerrando", ![a].saida = saida]

\* Everything but the actor and what the step is about.
SoAtor == UNCHANGED <<cobranca, vencida, reserva, arquivo, falhas>>

\* A process dies; its leases stay until they expire.
Cair(a) ==
    /\ ~Em(a, "livre") /\ falhas < MaxFalhas
    /\ ator' = [ator EXCEPT ![a] = Livre]
    /\ falhas' = falhas + 1
    /\ UNCHANGED <<cobranca, vencida, reserva, arquivo>> /\ PagamentoMudo

\* A call to Banco Inter, to the database or to the publisher throws, or the status
\* of the charge is unknown: the webhook answers 503, the sweep defers the payment.
Falhar(a) ==
    /\ ator[a].passo \notin {"livre", "encerrando"} /\ falhas < MaxFalhas
    /\ Sair(a, "erro")
    /\ falhas' = falhas + 1
    /\ UNCHANGED <<cobranca, vencida, reserva, arquivo>> /\ PagamentoMudo

\* Banco Inter notifies a settlement, or repeats it, or somebody does before there is
\* one: nothing is signed.  When the event is processed or claimed already the
\* delivery changes nothing (200, 503).
Receber(w, p) ==
    /\ Em(w, "livre")
    /\ Arq!Reclamar(p, w)
    /\ ator' = [ator EXCEPT ![w] = [Livre EXCEPT !.passo = "vinculando", !.p = p]]
    /\ UNCHANGED <<cobranca, vencida, reserva, falhas>> /\ PagamentoMudo

\* A forged notification names a settlement that is not the charge's: it is an event
\* of its own in the archive, which no other delivery meets.
ReceberForjada(w, p) ==
    /\ Em(w, "livre") /\ falhas < MaxFalhas
    /\ ator' = [ator EXCEPT ![w] = [Livre EXCEPT !.passo = "vinculando", !.p = p,
                                              !.e2e = FALSE]]
    /\ falhas' = falhas + 1
    /\ UNCHANGED <<cobranca, vencida, reserva, arquivo>> /\ PagamentoMudo

\* claimPixCobrancaProviderReadByTxid: binds the payment and takes its lease.  The
\* settlement of an approved payment is known, and has to be the one notified.
Vinculavel(w) ==
    LET p == ator[w].p IN
    /\ status[p] = "pendente" \/ (status[p] = "aprovado" /\ ator[w].e2e)
    /\ reserva[p] = Ninguem

\* A payment that cannot be bound, because it is rejected or was settled otherwise or
\* because somebody holds its lease, ends the delivery as a no-op that counts as processed.
Vincular(w) ==
    LET p == ator[w].p IN
    /\ Em(w, "vinculando")
    /\ \/ /\ Vinculavel(w)
          /\ reserva' = [reserva EXCEPT ![p] = w]
          /\ Ir(w, "consultando")
       \/ ~Vinculavel(w) /\ Sair(w, "ok") /\ UNCHANGED reserva
    /\ UNCHANGED <<cobranca, vencida, arquivo, falhas>> /\ PagamentoMudo

\* Mutant: charges are reconciled before they expire.
CandidatasSemPrazo == {p \in Pagamentos : status[p] = "pendente" /\ reserva[p] = Ninguem}
\* claimPixCobrancaReconciliationCandidates.
Candidatas ==
    {p \in Pagamentos : status[p] = "pendente" /\ p \in vencida /\ reserva[p] = Ninguem}

\* The sweep leases every due charge at once and then takes them one by one.
Varrer(v) ==
    /\ Em(v, "livre")
    /\ \E p \in Candidatas :
          ator' = [ator EXCEPT ![v] = [Livre EXCEPT !.passo = "consultando", !.p = p,
                                                    !.fila = Candidatas \ {p}]]
    /\ reserva' = [p \in Pagamentos |-> IF p \in Candidatas THEN v ELSE reserva[p]]
    /\ UNCHANGED <<cobranca, vencida, arquivo, falhas>> /\ PagamentoMudo

\* Mutant: the webhook takes the notification's word for the settlement.
ConsultarSemOlhar(a) ==
    /\ Em(a, "consultando")
    /\ \/ (a \in Webhooks \/ cobranca[ator[a].p] = "concluida") /\ Ir(a, "aprovando")
       \/ a \in Varreduras /\ cobranca[ator[a].p] # "concluida" /\ Ir(a, "rejeitando")
    /\ SoAtor /\ PagamentoMudo
\* consultarCobranca, GET /cob/{txid}.  The webhook fails unless the charge is concluded
\* by the settlement it was told of; the sweep rejects what is not concluded.
Consultar(a) ==
    LET concluida == cobranca[ator[a].p] = "concluida" IN
    /\ Em(a, "consultando")
    /\ \/ concluida /\ ator[a].e2e /\ Ir(a, "aprovando")
       \/ ~concluida /\ a \in Varreduras /\ Ir(a, "rejeitando")
       \/ ~(concluida /\ ator[a].e2e) /\ a \in Webhooks /\ Sair(a, "erro")
    /\ SoAtor /\ PagamentoMudo

\* Read and compare-and-set of the approval.  Whoever finds the payment approved,
\* before or after losing the compare-and-set, goes on with the ledger; whoever
\* finds it rejected throws.
Aprovar(a) ==
    LET p == ator[a].p IN
    /\ Em(a, "aprovando")
    /\ \/ /\ status[p] = "pendente"
          /\ status' = [status EXCEPT ![p] = "aprovado"]
          /\ Ir(a, "anunciando")
       \/ status[p] = "aprovado" /\ Ir(a, "lendo") /\ UNCHANGED status
       \/ status[p] = "rejeitado" /\ Sair(a, "erro") /\ UNCHANGED status
    /\ SoAtor /\ UNCHANGED <<anuncios, registros>>

\* publicarAprovacao: the event and the receipt, by the winner alone.
Anunciar(a) ==
    LET p == ator[a].p IN
    /\ Em(a, "anunciando")
    /\ anuncios' = [anuncios EXCEPT ![p] = @ + 1]
    /\ Ir(a, "lendo")
    /\ SoAtor /\ UNCHANGED <<status, registros>>

\* findLancamentosByIdPagamento: rows found are the result.
LerLivro(a) ==
    LET p == ator[a].p IN
    /\ Em(a, "lendo")
    /\ IF registros[p] > 0 THEN Sair(a, "ok") ELSE Ir(a, "registrando")
    /\ SoAtor /\ PagamentoMudo

\* Mutant: the rows are inserted without their unique key.
RegistrarSemChave(a) ==
    LET p == ator[a].p IN
    /\ Em(a, "registrando")
    /\ registros' = [registros EXCEPT ![p] = @ + 1] /\ Sair(a, "ok")
    /\ SoAtor /\ UNCHANGED <<status, anuncios>>
\* registrarEfeitosFinanceirosPagamentoAprovado: rows that appeared meanwhile, in
\* its own read or at the unique key of the insert, make it throw.
Registrar(a) ==
    LET p == ator[a].p IN
    /\ Em(a, "registrando")
    /\ \/ registros[p] = 0 /\ registros' = [registros EXCEPT ![p] = 1] /\ Sair(a, "ok")
       \/ registros[p] > 0 /\ UNCHANGED registros /\ Sair(a, "erro")
    /\ SoAtor /\ UNCHANGED <<status, anuncios>>

\* Mutant: the rejection is a plain update.
RejeitarSemCas(v) ==
    LET p == ator[v].p IN
    /\ Em(v, "rejeitando")
    /\ status' = [status EXCEPT ![p] = "rejeitado"] /\ Sair(v, "ok")
    /\ SoAtor /\ UNCHANGED <<anuncios, registros>>
\* rejeitarPagamentoComTransacaoVerificada: a charge still open, or removed, after
\* its expiry.
Rejeitar(v) ==
    LET p == ator[v].p IN
    /\ Em(v, "rejeitando")
    /\ \/ /\ status[p] = "pendente"
          /\ status' = [status EXCEPT ![p] = "rejeitado"]
          /\ Sair(v, "ok")
       \/ status[p] = "rejeitado" /\ Sair(v, "ok") /\ UNCHANGED status
       \/ status[p] = "aprovado" /\ Sair(v, "erro") /\ UNCHANGED status
    /\ SoAtor /\ UNCHANGED <<anuncios, registros>>

\* The webhook handler records the outcome under its fence and answers.  It
\* keeps the lease of the payment until it expires.
Responder(w) ==
    LET p == ator[w].p IN
    /\ Em(w, "encerrando")
    /\ \/ ator[w].e2e /\ ator[w].saida = "ok" /\ Arq!Concluir(p, w)
       \/ ator[w].e2e /\ ator[w].saida = "erro" /\ Arq!Recusar(p, w)
       \/ ~ator[w].e2e /\ UNCHANGED arquivo
    /\ ator' = [ator EXCEPT ![w] = Livre]
    /\ UNCHANGED <<cobranca, vencida, reserva, falhas>> /\ PagamentoMudo

\* The sweep gives the lease back, if it is still its own, and goes on.
Liberar(v) ==
    LET p == ator[v].p IN
    /\ Em(v, "encerrando")
    /\ reserva' = IF reserva[p] = v THEN [reserva EXCEPT ![p] = Ninguem] ELSE reserva
    /\ \/ ator[v].fila = {} /\ ator' = [ator EXCEPT ![v] = Livre]
       \/ \E q \in ator[v].fila :
             ator' = [ator EXCEPT ![v] = [Livre EXCEPT !.passo = "consultando", !.p = q,
                                                        !.fila = ator[v].fila \ {q}]]
    /\ UNCHANGED <<cobranca, vencida, arquivo, falhas>> /\ PagamentoMudo

-----------------------------------------------------------------------------
PassoComum(a) ==
    Consultar(a) \/ Aprovar(a) \/ Anunciar(a) \/ LerLivro(a) \/ Registrar(a)

PassoDoWebhook(w) == Vincular(w) \/ PassoComum(w) \/ Responder(w)

PassoDaVarredura(v) == PassoComum(v) \/ Rejeitar(v) \/ Liberar(v)

Next ==
    \/ \E p \in Pagamentos :
          Pagar(p) \/ Remover(p) \/ Expirar(p) \/ VencerReserva(p) \/ VencerCerca(p)
    \/ \E w \in Webhooks :
          \/ PassoDoWebhook(w)
          \/ \E p \in Pagamentos : Receber(w, p) \/ ReceberForjada(w, p)
    \/ \E v \in Varreduras : PassoDaVarredura(v) \/ Varrer(v)
    \/ \E a \in Atores : Cair(a) \/ Falhar(a)

Spec == Init /\ [][Next]_vars

\* Charges expire, leases end, the five-minute cron keeps running and whoever
\* started goes on until it dies.  No delivery of Banco Inter is counted on.
Justica ==
    /\ \A p \in Pagamentos : WF_vars(Expirar(p)) /\ WF_vars(VencerReserva(p))
    /\ \A w \in Webhooks : WF_vars(PassoDoWebhook(w))
    /\ \A v \in Varreduras : WF_vars(PassoDaVarredura(v)) /\ WF_vars(Varrer(v))

SpecJusta == Spec /\ Justica

\* Banco Inter also delivers the notification of a settlement until it is answered 200.
SpecEntrega ==
    /\ SpecJusta
    /\ \A p \in Pagamentos :
          /\ SF_vars(cobranca[p] = "concluida" /\ \E w \in Webhooks : Receber(w, p))
          /\ WF_vars(VencerCerca(p))

-----------------------------------------------------------------------------
(* Correctness *)

\* No payment is approved without the money: approval follows a read of a
\* concluded charge at Banco Inter, not the webhook's word
\* (inter-pix-webhook-pipeline.ts: the payload is only a routing hint).
AprovadoPago == \A p \in Pagamentos : status[p] = "aprovado" => cobranca[p] = "concluida"

\* No payment is rejected although it was paid, for charges Banco Inter does not
\* settle after they expired here: only expired charges are swept, and what was
\* read then cannot change any more (reconciliar-cobrancas-pix.ts).
RejeitadoNaoPago ==
    \A p \in Pagamentos \ PagaDepois : status[p] = "rejeitado" => cobranca[p] # "concluida"

\* Webhooks, sweeps, expired leases and crashes together still walk the machine of
\* pagamento.ts: one final decision, announced at most once, registered at most once.
Maquina == INSTANCE MaquinaPagamento
ImplementaMaquina == Maquina!Spec

\* A charge that was paid is decided, even if no notification ever arrives or the
\* one that arrived was answered without effect.
PagoSeDecide ==
    \A p \in Pagamentos : (cobranca[p] = "concluida") ~> (status[p] # "pendente")

\* docs/idempotency-and-concurrency.md: after provider approval and before
\* Financeiro, the retry runs Financeiro.  The rows of an approved payment are
\* eventually registered.
AprovadoSeRegistra ==
    \A p \in Pagamentos : (status[p] = "aprovado") ~> (registros[p] > 0)

=============================================================================
