---------------------------- MODULE LivroRepasses ----------------------------
(***************************************************************************)
(* The receivers' ledger of eunenem-engine: the credits each approved      *)
(* payment leaves for a receiver (lancamentos), the payouts (repasses) that*)
(* sweep them, the refunds (estornos) and the PIX disputes (MED) that      *)
(* compete with a payout for the same money.                               *)
(*                                                                         *)
(* One action is one database transaction of                               *)
(* livro-repository.postgres.ts, of the two refund repositories or of the  *)
(* MED registry: every one of them commits atomically, and the per-payment *)
(* advisory locks they take serialise those that touch the same payment.   *)
(* Any caller may run any transaction at any time; who calls what, and how *)
(* often, is the business of ExecucaoRepasse.                              *)
(***************************************************************************)
EXTENDS Integers, FiniteSets

CONSTANTS
    Pagamentos,     \* payments already approved and registered in the ledger
    Lancamentos,    \* their rows of type credito_saldo_recebedor
    Repasses,       \* identities of payout requests
    Campanhas,      \* campaigns
    PagamentoDe,    \* [Lancamentos -> Pagamentos]: id_pagamento of a row
    CampanhaDe,     \* [Pagamentos -> Campanhas]: the campaign a payment belongs to
    ProvedorDe,     \* [Pagamentos -> {"stripe", "inter"}]: who charged it
    PagosPorPix,    \* payments whose metodo is PIX: only they can be disputed
    SemRepasse,     \* NULL in id_repasse
    SemCampanha,    \* campaign of a payout request nobody has made yet
    MaxTentativas   \* BOUND on transfer_attempts, a counter the code never caps

ASSUME SuposicaoLivro ==
    /\ PagamentoDe \in [Lancamentos -> Pagamentos]
    /\ CampanhaDe \in [Pagamentos -> Campanhas]
    /\ ProvedorDe \in [Pagamentos -> {"stripe", "inter"}]
    /\ PagosPorPix \subseteq Pagamentos
    /\ SemRepasse \notin Repasses
    /\ SemCampanha \notin Campanhas
    /\ MaxTentativas \in Nat

-----------------------------------------------------------------------------
(* Statuses *)

StatusRepasse == {"solicitado", "aprovado", "transferindo", "verificando",
                  "enviado_ao_banco", "pago", "falhou", "cancelado"}

\* Mutant: a payout in doubt is taken for one whose money stayed.
BloqueantesSemDuvida == {"transferindo", "enviado_ao_banco", "pago"}
\* Money may be on its way to the receiver, or already there.
BLOCKING_REPASSE_STATUSES ==
    {"transferindo", "verificando", "enviado_ao_banco", "pago"}

\* The life of a PIX refund row ("+rtr": Inter already gave it an rtr_id).
StatusDevolucaoPix == {"em_processamento", "em_processamento+rtr",
                       "devolvida", "nao_realizada", "rejeitada"}

\* The life of a Stripe refund operation.
StatusOperacaoStripe ==
    {"reserved", "provider_started", "provider_pending", "provider_succeeded",
     "provider_failed", "outcome_unknown", "local_committed"}

\* A refund that forbids any new transfer of the payment's credits.
EstornoBloqueante ==
    {"em_processamento", "em_processamento+rtr", "devolvida"}
        \cup (StatusOperacaoStripe \ {"provider_failed"})

StatusMed == {"bloqueada", "liberada", "devolvida"}

-----------------------------------------------------------------------------
VARIABLES
    pagamento,    \* status of each payment: "aprovado" or "estornado"
    liberado,     \* payments whose available_on is in the past
    estorno,      \* refund of each payment, "nenhum" when no row exists
    med,          \* dispute of each payment, "nenhuma" when no row exists
    repasseDe,    \* id_repasse of each row
    transferido,  \* rows with transferido_em
    cancelado,    \* rows with cancelado_em
    status,       \* status of each payout, "inexistente" before its INSERT
    campanhaDoRepasse, \* campaign a payout request is for
    lote,         \* rows whose sum was frozen in the payout's amount_cents
    refBancaria,  \* payouts with a bank_transfer_ref (paid by hand)
    referencia,   \* payouts with a transfer_referencia (paid by PIX)
    tentativas,   \* transfer_attempts of each payout
    manual        \* payouts with needs_manual_resolution

estornoVars == <<pagamento, liberado, estorno, med>>
linhaVars   == <<repasseDe, transferido, cancelado>>
repasseVars == <<status, campanhaDoRepasse, lote, refBancaria, referencia,
                 tentativas, manual>>
vars == <<estornoVars, linhaVars, repasseVars>>

TypeOK ==
    /\ pagamento \in [Pagamentos -> {"aprovado", "estornado"}]
    /\ liberado \subseteq Pagamentos
    /\ estorno \in [Pagamentos -> {"nenhum"} \cup StatusDevolucaoPix
                                             \cup StatusOperacaoStripe]
    /\ med \in [Pagamentos -> {"nenhuma"} \cup StatusMed]
    /\ repasseDe \in [Lancamentos -> Repasses \cup {SemRepasse}]
    /\ transferido \subseteq Lancamentos
    /\ cancelado \subseteq Lancamentos
    /\ status \in [Repasses -> StatusRepasse \cup {"inexistente"}]
    /\ campanhaDoRepasse \in [Repasses -> Campanhas \cup {SemCampanha}]
    /\ lote \in [Repasses -> SUBSET Lancamentos]
    /\ refBancaria \subseteq Repasses
    /\ referencia \subseteq Repasses
    /\ tentativas \in [Repasses -> 0..MaxTentativas]
    /\ manual \subseteq Repasses

Init ==
    /\ pagamento = [p \in Pagamentos |-> "aprovado"]
    /\ liberado = {}
    /\ estorno = [p \in Pagamentos |-> "nenhum"]
    /\ med = [p \in Pagamentos |-> "nenhuma"]
    /\ repasseDe = [l \in Lancamentos |-> SemRepasse]
    /\ transferido = {}
    /\ cancelado = {}
    /\ status = [r \in Repasses |-> "inexistente"]
    /\ campanhaDoRepasse = [r \in Repasses |-> SemCampanha]
    /\ lote = [r \in Repasses |-> {}]
    /\ refBancaria = {}
    /\ referencia = {}
    /\ tentativas = [r \in Repasses |-> 0]
    /\ manual = {}

-----------------------------------------------------------------------------
(* What the transactions read *)

LinhasDe(r) == {l \in Lancamentos : repasseDe[l] = r}
LinhasDoPagamento(p) == {l \in Lancamentos : PagamentoDe[l] = p}

\* findPaymentIdsForRepasse: the payments a transaction on r locks.
PagamentosDoRepasse(r) == {PagamentoDe[l] : l \in LinhasDe(r)}

EstornoAtivo(p) == estorno[p] \in EstornoBloqueante
MedAtivo(p) == med[p] \in {"bloqueada", "devolvida"}

\* A credit of the payment has left, or may have left, for the receiver.
EmMovimento(l) ==
    \/ l \in transferido
    \/ repasseDe[l] \in Repasses /\ status[repasseDe[l]] \in BLOCKING_REPASSE_STATUSES
Movimentado(p) == \E l \in LinhasDoPagamento(p) : EmMovimento(l)

\* assertTransfersAllowed, assertMedTransfersAllowed, assertRefundCreationAllowed
\* Mutant: a refund that is already committed no longer blocks transfers.
TransferenciaSemEstornoAberto(ps) ==
    \A p \in ps : estorno[p] \notin EstornoBloqueante \ {"devolvida", "local_committed"}
\* Mutant: looks at the stamps only, not at the payouts in flight.
CriacaoPorCarimbo(p) == LinhasDoPagamento(p) \cap transferido = {}

TransferenciaPermitida(ps) == \A p \in ps : ~EstornoAtivo(p)
MedPermite(ps) == \A p \in ps : ~MedAtivo(p)
CriacaoDeEstornoPermitida(p) == ~Movimentado(p)

\* Mutant: the sweep forgets that a row may be claimed already.
DisponivelMesmoReservado(l) ==
    LET p == PagamentoDe[l] IN
    /\ l \notin transferido /\ l \notin cancelado
    /\ pagamento[p] = "aprovado" /\ p \in liberado
    /\ ~EstornoAtivo(p) /\ ~MedAtivo(p)
\* Mutant: the sweep trusts cancelado_em alone to exclude refunded payments.
DisponivelSemOlharEstorno(l) ==
    LET p == PagamentoDe[l] IN
    /\ l \notin transferido /\ l \notin cancelado
    /\ repasseDe[l] = SemRepasse
    /\ p \in liberado /\ ~MedAtivo(p)

\* predicadoLancamentoDisponivel
Disponivel(l) ==
    LET p == PagamentoDe[l] IN
    /\ l \notin transferido /\ l \notin cancelado
    /\ repasseDe[l] = SemRepasse
    /\ pagamento[p] = "aprovado" /\ p \in liberado
    /\ ~EstornoAtivo(p) /\ ~MedAtivo(p)
DisponiveisDa(c) == {l \in Lancamentos : CampanhaDe[PagamentoDe[l]] = c /\ Disponivel(l)}

-----------------------------------------------------------------------------
(* Payout requests and approvals *)

\* solicitarRepasseRecebedor reads the eligible rows, unlocked, and gives up
\* when there are none; the request that passed is remembered by its campaign.
PreflightSolicitar(r, c) ==
    /\ campanhaDoRepasse[r] = SemCampanha
    /\ DisponiveisDa(c) # {}
    /\ campanhaDoRepasse' = [campanhaDoRepasse EXCEPT ![r] = c]
    /\ UNCHANGED <<estornoVars, linhaVars, status, lote, refBancaria, referencia,
                   tentativas, manual>>

\* solicitarRepasseTransaction: sweeps whatever is eligible NOW, even nothing.
\* The partial unique index refuses a second pending payout of the campaign.
SolicitarRepasse(r) ==
    LET c == campanhaDoRepasse[r]
        claimed == DisponiveisDa(c)
    IN
    /\ c \in Campanhas
    /\ status[r] = "inexistente"
    /\ \A s \in Repasses : campanhaDoRepasse[s] = c => status[s] # "solicitado"
    /\ status' = [status EXCEPT ![r] = "solicitado"]
    /\ lote' = [lote EXCEPT ![r] = claimed]
    /\ repasseDe' = [l \in Lancamentos |-> IF l \in claimed THEN r ELSE repasseDe[l]]
    /\ UNCHANGED <<estornoVars, transferido, cancelado, campanhaDoRepasse,
                   refBancaria, referencia, tentativas, manual>>

\* The stamp of every settlement: linked, live rows become transferred.
Carimbar(r) == transferido' = transferido \cup (LinhasDe(r) \ cancelado)

\* aprovarRepasseTransaction: paid by hand.  Today's use case sends a request
\* without a bank reference by PIX; the payouts approved without one before it
\* did are the ones reenviarRepasseContaPeloInterTransaction is for.
AprovarRepasse(r, comRef) ==
    /\ TransferenciaPermitida(PagamentosDoRepasse(r))
    /\ MedPermite(PagamentosDoRepasse(r))
    /\ status[r] = "solicitado"
    /\ status' = [status EXCEPT ![r] = "aprovado"]
    /\ refBancaria' = IF comRef THEN refBancaria \cup {r} ELSE refBancaria
    /\ Carimbar(r)
    /\ UNCHANGED <<estornoVars, repasseDe, cancelado, campanhaDoRepasse, lote,
                   referencia, tentativas, manual>>

\* aprovarRepassePixTransaction: no stamp, the job rides the transaction.
AprovarRepassePix(r) ==
    /\ TransferenciaPermitida(PagamentosDoRepasse(r))
    /\ MedPermite(PagamentosDoRepasse(r))
    /\ status[r] = "solicitado"
    /\ status' = [status EXCEPT ![r] = "aprovado"]
    /\ referencia' = referencia \cup {r}
    /\ UNCHANGED <<estornoVars, linhaVars, campanhaDoRepasse, lote, refBancaria,
                   tentativas, manual>>

\* reenviarRepasseContaPeloInterTransaction: a payout stamped by hand with no
\* bank reference and never tried by PIX gets its rows back and goes by PIX.
ReenviarContaPeloInter(r) ==
    /\ TransferenciaPermitida(PagamentosDoRepasse(r))
    /\ MedPermite(PagamentosDoRepasse(r))
    /\ status[r] = "aprovado"
    /\ r \notin refBancaria /\ r \notin referencia /\ tentativas[r] = 0
    /\ referencia' = referencia \cup {r}
    /\ transferido' = transferido \ (LinhasDe(r) \ cancelado)
    /\ UNCHANGED <<estornoVars, repasseDe, cancelado, status, campanhaDoRepasse,
                   lote, refBancaria, tentativas, manual>>

-----------------------------------------------------------------------------
(* Transfer attempts *)

\* What iniciarTransferenciaTransaction answers to a worker's pickup.
AcaoIniciar(r) ==
    IF ~TransferenciaPermitida(PagamentosDoRepasse(r)) THEN "erro"
    ELSE IF status[r] \in {"pago", "cancelado", "verificando", "enviado_ao_banco"}
         THEN "concluido"
    ELSE IF status[r] = "transferindo" THEN "reconciliar"
    ELSE IF /\ MedPermite(PagamentosDoRepasse(r))
            /\ status[r] \in {"aprovado", "falhou"}
            /\ r \in referencia
         THEN "prosseguir"
    ELSE "erro"

\* The fresh claim; every other answer leaves the ledger as it was.
IniciarTransferencia(r) ==
    /\ AcaoIniciar(r) = "prosseguir"
    /\ tentativas[r] < MaxTentativas
    /\ status' = [status EXCEPT ![r] = "transferindo"]
    /\ tentativas' = [tentativas EXCEPT ![r] = @ + 1]
    /\ UNCHANGED <<estornoVars, linhaVars, campanhaDoRepasse, lote, refBancaria,
                   referencia, manual>>

\* finalizarTentativaTransferencia, one action per resultado.tipo.  The status
\* alone gates them: nothing compares the caller's attempt with the latest.
FinalizarEnviado(r) ==
    /\ status[r] \in {"transferindo", "verificando"}
    /\ status' = [status EXCEPT ![r] = "enviado_ao_banco"]
    /\ manual' = manual \ {r}
    /\ UNCHANGED <<estornoVars, linhaVars, campanhaDoRepasse, lote, refBancaria,
                   referencia, tentativas>>

FinalizarPago(r) ==
    /\ TransferenciaPermitida(PagamentosDoRepasse(r))
    /\ status[r] \in {"transferindo", "verificando"}
    /\ status' = [status EXCEPT ![r] = "pago"]
    /\ Carimbar(r)
    /\ UNCHANGED <<estornoVars, repasseDe, cancelado, campanhaDoRepasse, lote,
                   refBancaria, referencia, tentativas, manual>>

FinalizarVerificando(r) ==
    /\ status[r] = "transferindo"
    /\ status' = [status EXCEPT ![r] = "verificando"]
    /\ UNCHANGED <<estornoVars, linhaVars, campanhaDoRepasse, lote, refBancaria,
                   referencia, tentativas, manual>>

FinalizarFalhou(r) ==
    /\ status[r] \in {"transferindo", "verificando"}
    /\ status' = [status EXCEPT ![r] = "falhou"]
    /\ UNCHANGED <<estornoVars, linhaVars, campanhaDoRepasse, lote, refBancaria,
                   referencia, tentativas, manual>>

FinalizarTransitorio(r) ==
    /\ status[r] = "transferindo"
    /\ status' = [status EXCEPT ![r] = "aprovado"]
    /\ UNCHANGED <<estornoVars, linhaVars, campanhaDoRepasse, lote, refBancaria,
                   referencia, tentativas, manual>>

\* resolverVerificacaoTransferencia: same effects, from verificando only.
ResolverVerificacao(r) ==
    /\ status[r] = "verificando"
    /\ FinalizarPago(r) \/ FinalizarFalhou(r)

-----------------------------------------------------------------------------
(* The admin's decisions on a payout *)

\* cancelarRepasseTransaction: from falhou, or earlier when some payment of the
\* batch was ever disputed and no row of it has left.
CancelamentoMed(r) ==
    /\ \E p \in PagamentosDoRepasse(r) : med[p] # "nenhuma"
    /\ LinhasDe(r) \cap transferido = {}
    /\ status[r] \in {"solicitado", "aprovado"}
\* Mutant: an admin may also cancel a payout in doubt.
PodeCancelarEmDuvida(r) == status[r] \in {"falhou", "verificando"} \/ CancelamentoMed(r)
PodeCancelar(r) == status[r] = "falhou" \/ CancelamentoMed(r)

CancelarRepasse(r) ==
    /\ PodeCancelar(r)
    /\ status' = [status EXCEPT ![r] = "cancelado"]
    /\ repasseDe' = [l \in Lancamentos |->
                        IF repasseDe[l] = r /\ l \notin transferido
                        THEN SemRepasse ELSE repasseDe[l]]
    /\ UNCHANGED <<estornoVars, transferido, cancelado, campanhaDoRepasse, lote,
                   refBancaria, referencia, tentativas, manual>>

\* flagNeedsManualResolutionTransaction
SinalizarManual(r) ==
    /\ status[r] = "verificando"
    /\ manual' = manual \cup {r}
    /\ UNCHANGED <<estornoVars, linhaVars, status, campanhaDoRepasse, lote,
                   refBancaria, referencia, tentativas>>

\* recuperarRepasseTransaction: the admin sends again a payout in doubt, on
\* evidence about the attempt number they were shown.
RecuperarRepasse(r, esperadas) ==
    /\ TransferenciaPermitida(PagamentosDoRepasse(r))
    /\ MedPermite(PagamentosDoRepasse(r))
    /\ status[r] = "verificando" /\ tentativas[r] = esperadas
    /\ status' = [status EXCEPT ![r] = "aprovado"]
    /\ manual' = manual \ {r}
    /\ UNCHANGED <<estornoVars, linhaVars, campanhaDoRepasse, lote, refBancaria,
                   referencia, tentativas>>

ResolverManualPago(r) ==
    /\ TransferenciaPermitida(PagamentosDoRepasse(r))
    /\ status[r] = "verificando"
    /\ status' = [status EXCEPT ![r] = "pago"]
    /\ manual' = manual \ {r}
    /\ Carimbar(r)
    /\ UNCHANGED <<estornoVars, repasseDe, cancelado, campanhaDoRepasse, lote,
                   refBancaria, referencia, tentativas>>

ResolverManualFalhou(r) ==
    /\ status[r] = "verificando" /\ r \in manual
    /\ status' = [status EXCEPT ![r] = "falhou"]
    /\ manual' = manual \ {r}
    /\ UNCHANGED <<estornoVars, linhaVars, campanhaDoRepasse, lote, refBancaria,
                   referencia, tentativas>>

\* marcarLancamentoTransferido: the admin's manual journal entry.  It checks the
\* payments, never the payouts the rows may already be claimed by.  That the
\* payments are aprovado is read before the transaction, hence no guard here: a
\* payment that was (each one once was) may have been refunded since.
MarcarTransferidos(ls) ==
    LET ps == {PagamentoDe[l] : l \in ls} IN
    /\ ls # {} /\ ps \subseteq liberado
    /\ TransferenciaPermitida(ps) /\ MedPermite(ps)
    /\ transferido' = transferido \cup (ls \ cancelado)
    /\ UNCHANGED <<estornoVars, repasseDe, cancelado, repasseVars>>

-----------------------------------------------------------------------------
(* Refunds *)

MudarEstorno(p, s) ==
    /\ estorno' = [estorno EXCEPT ![p] = s]
    /\ UNCHANGED <<pagamento, liberado, med, linhaVars, repasseVars>>

\* The cascade of a refund: the rows that have not left are cancelled.
CancelarLinhas(p) == cancelado' = cancelado \cup (LinhasDoPagamento(p) \ transferido)

\* Both local effects of a Stripe refund and its commit, one transaction.
ConvergirStripe(p) ==
    /\ pagamento' = [pagamento EXCEPT ![p] = "estornado"]
    /\ estorno' = [estorno EXCEPT ![p] = "local_committed"]
    /\ CancelarLinhas(p)
    /\ UNCHANGED <<liberado, med, repasseDe, transferido, repasseVars>>

ReservarEstornoStripe(p) ==
    /\ ProvedorDe[p] = "stripe" /\ pagamento[p] = "aprovado"
    /\ estorno[p] = "nenhum"
    /\ CriacaoDeEstornoPermitida(p)
    /\ MudarEstorno(p, "reserved")

\* claimProviderStart: the only step that lets a Stripe refund call go out.
IniciarEstornoStripe(p) ==
    /\ estorno[p] \in {"reserved", "provider_failed"}
    /\ CriacaoDeEstornoPermitida(p)
    /\ MudarEstorno(p, "provider_started")

\* Mutant: the provider's own status is stored instead of the mapped outcome.
RegistrarRespostaCrua(p) ==
    /\ estorno[p] = "provider_started"
    /\ \E s \in {"succeeded", "pending", "failed", "canceled"} : MudarEstorno(p, s)

RegistrarRespostaStripe(p) ==
    /\ estorno[p] = "provider_started"
    /\ \E s \in {"provider_succeeded", "provider_pending", "provider_failed",
                 "outcome_unknown"} : MudarEstorno(p, s)

ConvergirEstornoStripe(p) ==
    /\ estorno[p] = "provider_succeeded"
    /\ ~Movimentado(p)
    /\ ConvergirStripe(p)

\* Mutant: the webhook believes the provider and ignores where the money is.
ObservarSemConflito(p, vinculoExato) ==
    /\ ProvedorDe[p] = "stripe"
    /\ estorno[p] # "local_committed"
    /\ IF vinculoExato THEN ConvergirStripe(p) ELSE MudarEstorno(p, "outcome_unknown")

\* observeVerifiedAndConverge: a verified webhook says the refund happened.  A
\* payment whose money moved, or whose binding differs, is held in conflict.
ObservarEstornoStripe(p, vinculoExato) ==
    /\ ProvedorDe[p] = "stripe"
    /\ estorno[p] # "local_committed"
    /\ IF vinculoExato /\ ~Movimentado(p)
       THEN ConvergirStripe(p)
       ELSE MudarEstorno(p, "outcome_unknown")

CriarDevolucaoPix(p) ==
    /\ ProvedorDe[p] = "inter" /\ pagamento[p] = "aprovado"
    /\ CriacaoDeEstornoPermitida(p)
    /\ estorno[p] = "nenhum"
    /\ MudarEstorno(p, "em_processamento")

\* deleteIfPending: the request certainly never left.
ApagarDevolucaoPix(p) ==
    /\ estorno[p] = "em_processamento"
    /\ MudarEstorno(p, "nenhum")

\* updateOutcome: a terminal outcome is never overwritten.
AtualizarDevolucaoPix(p, s) ==
    /\ estorno[p] \in {"em_processamento", "em_processamento+rtr"}
    /\ s \in StatusDevolucaoPix /\ s # estorno[p]
    /\ s = "em_processamento" => estorno[p] # "em_processamento+rtr"
    /\ MudarEstorno(p, s)

\* finalizarEstornoPixVerificado: the CAS on the payment, then, separately, the
\* cascade (again on every replay: it repairs a crash between the two).
EstornarPagamentoPix(p) ==
    /\ ProvedorDe[p] = "inter" /\ estorno[p] = "devolvida"
    /\ LinhasDoPagamento(p) \cap transferido = {}
    /\ pagamento[p] = "aprovado"
    /\ pagamento' = [pagamento EXCEPT ![p] = "estornado"]
    /\ UNCHANGED <<liberado, estorno, med, linhaVars, repasseVars>>

CancelarLinhasPix(p) ==
    /\ ProvedorDe[p] = "inter" /\ estorno[p] = "devolvida"
    /\ pagamento[p] = "estornado"
    /\ CancelarLinhas(p)
    /\ UNCHANGED <<estornoVars, repasseDe, transferido, repasseVars>>

-----------------------------------------------------------------------------
(* MED disputes and the passing of time *)

\* The payment was aprovado when it was looked up, before its lock was taken.
RegistrarContestacao(p) ==
    /\ p \in PagosPorPix
    /\ med[p] = "nenhuma"
    /\ med' = [med EXCEPT ![p] = "bloqueada"]
    /\ UNCHANGED <<pagamento, liberado, estorno, linhaVars, repasseVars>>

ResolverContestacao(p, desfecho) ==
    /\ med[p] = "bloqueada"
    /\ med' = [med EXCEPT ![p] = desfecho]
    /\ UNCHANGED <<pagamento, liberado, estorno, linhaVars, repasseVars>>

\* available_on passes.
LiberarSaldo(p) ==
    /\ p \notin liberado
    /\ liberado' = liberado \cup {p}
    /\ UNCHANGED <<pagamento, estorno, med, linhaVars, repasseVars>>

-----------------------------------------------------------------------------
PassoDoRepasse(r) ==
    \/ \E c \in Campanhas : PreflightSolicitar(r, c)
    \/ SolicitarRepasse(r)
    \/ \E comRef \in BOOLEAN : AprovarRepasse(r, comRef)
    \/ AprovarRepassePix(r)
    \/ ReenviarContaPeloInter(r)
    \/ IniciarTransferencia(r)
    \/ FinalizarEnviado(r)
    \/ FinalizarPago(r)
    \/ FinalizarVerificando(r)
    \/ FinalizarFalhou(r)
    \/ FinalizarTransitorio(r)
    \/ ResolverVerificacao(r)
    \/ CancelarRepasse(r)
    \/ SinalizarManual(r)
    \/ \E n \in 0..MaxTentativas : RecuperarRepasse(r, n)
    \/ ResolverManualPago(r)
    \/ ResolverManualFalhou(r)

PassoDoEstorno(p) ==
    \/ ReservarEstornoStripe(p)
    \/ IniciarEstornoStripe(p)
    \/ RegistrarRespostaStripe(p)
    \/ ConvergirEstornoStripe(p)
    \/ \E exato \in BOOLEAN : ObservarEstornoStripe(p, exato)
    \/ CriarDevolucaoPix(p)
    \/ ApagarDevolucaoPix(p)
    \/ \E s \in StatusDevolucaoPix : AtualizarDevolucaoPix(p, s)
    \/ EstornarPagamentoPix(p)
    \/ CancelarLinhasPix(p)

PassoDaContestacao(p) ==
    \/ RegistrarContestacao(p)
    \/ \E d \in {"liberada", "devolvida"} : ResolverContestacao(p, d)

Next ==
    \/ \E r \in Repasses : PassoDoRepasse(r)
    \/ \E ls \in SUBSET Lancamentos : MarcarTransferidos(ls)
    \/ \E p \in Pagamentos :
          PassoDoEstorno(p) \/ PassoDaContestacao(p) \/ LiberarSaldo(p)

Spec == Init /\ [][Next]_vars

-----------------------------------------------------------------------------
(* Correctness *)

\* Refund states in which the contributor has, or may still get, the money back
\* by an order of ours.  "outcome_unknown" is left out: it is also where a
\* refund made outside the system is parked when the money had already left.
EstornoSemConflito == EstornoBloqueante \ {"outcome_unknown"}

\* The same money never goes both ways: while a refund of the payment is open or
\* done, none of its credits is stamped as transferred or claimed by a payout
\* that is being, or was, sent (payment-money-movement-lock.postgres.ts).
EstornoExcluiSaida ==
    \A p \in Pagamentos : estorno[p] \in EstornoSemConflito => ~Movimentado(p)

\* What a payout sends is what it swept: from the moment money may be moving,
\* every row summed in its frozen amount is still linked to it and not cancelled
\* by a refund; once pago, each of them is stamped.
SaidaCobreLote ==
    \A r \in Repasses : \A l \in lote[r] :
        /\ status[r] \in BLOCKING_REPASSE_STATUSES => repasseDe[l] = r /\ l \notin cancelado
        /\ status[r] = "pago" => l \in transferido

\* No credit is summed in the amounts of two payouts, unless one was cancelled.
CreditoEmUmSoLote ==
    \A r, s \in Repasses :
        r # s /\ {status[r], status[s]} \cap {"inexistente", "cancelado"} = {}
            => lote[r] \cap lote[s] = {}

\* A row leaves its payout only when an admin cancels it, before any of its money
\* could move, and never after the row was settled: cancelado is "the ONLY
\* claim-release path" (repasse-recebedor.ts).
ReservaNaoVaza ==
    [][\A l \in Lancamentos :
          repasseDe[l] \in Repasses /\ repasseDe'[l] # repasseDe[l] =>
              /\ status[repasseDe[l]] \notin BLOCKING_REPASSE_STATUSES
              /\ status'[repasseDe[l]] = "cancelado"
              /\ l \notin transferido]_vars

\* A refund is final for the ledger: once a payment is estornado none of its
\* credits is ever transferred, claimed by a new payout or brought back.
EstornadoENaoSaiMais ==
    [][\A l \in Lancamentos :
          pagamento[PagamentoDe[l]] = "estornado" =>
              /\ pagamento'[PagamentoDe[l]] = "estornado"
              /\ l \in transferido' => l \in transferido
              /\ l \in cancelado => l \in cancelado'
              /\ repasseDe'[l] \in {repasseDe[l], SemRepasse}]_vars

\* Where the money of each payment stands, for a reader who knows no payouts.
DestinoDoPagamento ==
    [p \in Pagamentos |->
        IF pagamento[p] = "estornado" THEN "contribuinte"
        ELSE IF Movimentado(p) THEN "recebedor"
        ELSE "plataforma"]

Destino == INSTANCE DestinoDoCredito WITH destino <- DestinoDoPagamento

\* The ledger implements DestinoDoCredito: money moves between the platform and
\* the receiver or goes back to the contributor for good, never from the
\* receiver to the contributor.
ImplementaDestino == Destino!Spec

=============================================================================
