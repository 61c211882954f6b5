# Money, checkout and mail of eunenem-engine, in TLA+

eunenem-engine runs gift lists: guests pay for gifts of a campaign by card (Stripe)
or by PIX (Banco Inter), the platform keeps a ledger of what it owes the receiver of
each campaign, and an admin approves payouts (*repasses*) of what is available.
A payment can also be refunded (*estorno*) or disputed (*MED*), and what happens is
announced by e-mail. This directory models the parts of the engine where a mistake moves
money twice, loses it, strands it or tells people something false; it checks them with
TLC on small instances and proves their safety properties with TLAPS for instances of any
size.

Paths below are relative to the repository's root; `livro` abbreviates
`src/adapters/pagamentos/financeiro/livro-repository.postgres.ts`, `lock`
`src/adapters/pagamentos/payment-money-movement-lock.postgres.ts`, and other files are
named alone where there is only one of that name.

## 1. Inventory

| Component | State it keeps | Operations | Hard because | Correct means |
|---|---|---|---|---|
| Checkout of a cart (`iniciar-pagamento-carrinho.ts`, `checkout-operation-repository.postgres.ts`, `checkoutOperationClient.ts`) | `payment_provider_operations`, the payment's external reference, a capability cookie, the tab's sessionStorage, the session at the provider | prepare, claim, create or read the session, record it, commit, answer, give up | two requests per submission, lost answers, reloads, leases ending under a live request, Stripe's key memory | one session per payment; what the guest sees is what the payment is bound to; one decision per operation |
| Payment state machine (`pagamento.ts`, `aprovar-pagamento.ts`, `rejeitar-pagamento.ts`, `finalizar-*.ts`) | `pagamentos.status`, the published events, the rows in the ledger | process, approve, reject, announce, register, refund | webhooks, sweep and refunds race; some writes compare and set, others do not | one terminal outcome that agrees with the provider, announced and registered once |
| Webhook archives (`webhook-event-archive.postgres.ts`, the two pipelines) | processed_at, fence and lease per event | claim, complete, refuse | repeated, overlapping, reordered deliveries; a handler outliving its fence | an acknowledged event had its effect |
| PIX charge reconciliation (`reconciliar-cobrancas-pix.ts`) | a lease per payment | sweep, read the charge, decide, release | runs against the webhook of the same charge | every paid charge is decided |
| Receivers' ledger and payout state machine (`livro`, `repasse-recebedor.ts`) | `lancamentos_financeiros` (id_repasse, transferido_em, cancelado_em), `repasses_recebedor` (status, amount, attempts, flags) | request, approve, claim an attempt, record its outcome, cancel, recover, resolve by hand, manual entry | every operation is a transaction, but what it relies on was often read before it; amounts are frozen at the request | a credit leaves once, in one payout, and not if its payment is refunded |
| Payout worker (`executar-transferencia-repasse.ts`, `repasse-enqueuer.pgboss.ts`, `transferencia-provider.inter.ts`) | pg-boss jobs of `repasse.executar`, the attempt in a handler's memory, the payment at the bank | deliver, claim, pay, record, retry, recover | crash between two steps, job expiring under a live handler, duplicate jobs, ambiguous answers | at most one PIX per decision; no failure declared over money that moved; no payout left undecided |
| Refunds (`estornar-pagamento.ts`, `finalizar-estorno-pix-verificado.ts`, the two refund repositories) | `stripe_refund_operations`, `pix_cobranca_devolucoes`, requests under way, what the provider did | create or reserve, claim, ask the provider, record, converge, observe a webhook, cascade to the rows | the provider succeeds and the local write fails; answers lost; refunds made on the dashboard; payment and rows written apart | the contributor is refunded once, and not with money that went to the receiver |
| PIX disputes (`admin-pix-contestacoes.ts`) | `pix_contestacoes` | register, resolve | status read before the lock | blocks new money movement only |
| Lifecycle e-mail outbox (`lifecycle-email.ts`, `lifecycle-email.postgres.ts`) | `lifecycle_email_events`, `lifecycle_email_deliveries`, `lifecycle_email_scan_cursors` | admit (hook and scan), claim, reserve the address, send, record, recover | a sender that dies after sending; addresses, dates and preferences changing between two reads; overlapping jobs | never sent twice, never denied, never left |
| Server lifecycle (`lifecycle.ts`) | process state | start, drain, stop | drain against work in flight | nothing is accepted after the drain |
| Fee composition, balance of a receiver, manual recovery policy | none (pure) | compute | rounding, incomplete evidence | the parts sum to the total |
| Gift list, receiver data, events, users, auth, catalogue, storage, pages | rows of their own aggregates | create, edit, remove | little: single-row edits | see section 6 |

How they interact. The checkout writes a payment and opens a session at a provider; the
provider's webhooks (through the archive) or the sweep approve or reject the payment; the
winner of an approval announces it, registers its rows in the ledger and calls the hook
that admits its e-mails. The ledger's rows are swept into payouts, which the worker sends
through Banco Inter between two transactions. Refunds cancel rows
(`marcarLancamentosComoCanceladosPorPagamento`) that payouts claim (`id_repasse`) and
stamp (`transferido_em`). All of them share PostgreSQL. Whoever moves, refunds or blocks
money of a payment first takes an advisory lock per payment (`lock`), in a fixed order, and
re-reads under it; two such transactions on one payment are thereby serialised, and one
is one atomic commit. Approvals and rejections take no such lock: they compare and set the
status, or (Stripe rejections) do not.

## 2. Modules

```
DecisaoCheckout          abstract: each operation is decided once
      ^ implemented by
OperacaoCheckout         the tab, its requests, the operation row, the provider

MaquinaPagamento         abstract: what a payment promises
      ^ implemented by                      ^ implemented by
CobrancaPix              PagamentoStripe    Inter: webhooks and sweep / Stripe: events
      \_______ ArquivoWebhook _______/      the archive's fence, used by both

CorreioCicloDeVida       the outbox, from the hooks and scans to SMTP

DestinoDoCredito         abstract: where the money of each payment is
      ^ implemented by                      ^ implemented by
LivroRepasses            EstornoPagamento   ledger transactions / refunds, step by step
      ^ extended by                         with the provider
ExecucaoRepasse          jobs, deliveries, handlers, the bank, the admin
```

"Implemented by" is a property of a run (`ImplementaDecisao`, `ImplementaMaquina`,
`CartoesImplementamMaquina`, `ImplementaDestino`) and a theorem. `MC*` modules give the
instances that need definitions; the other `.cfg` files give sets of model values.
`*Provas` modules hold the theorems, one per component; `ExecucaoSerialProvas` continues
`ExecucaoRepasseProvas` with what holds of the worker when its handlers do not overlap, and
the extra predicates and action properties of section 5 are defined where they are proved. A
definition named like another with a suffix and
commented `Mutant:` is that definition with a plausible bug, and takes no part in the
specification: with it in place of the original, a property must fail.

### LivroRepasses

State: `pagamento` (status), `liberado` (available_on passed), `estorno` (the one refund
row of a payment, of whichever provider), `med`, and per row `repasseDe` (id_repasse),
`transferido`, `cancelado`; per payout `status`, `campanhaDoRepasse`, `lote` (the rows
summed in the frozen amount_cents), `refBancaria`, `referencia`, `tentativas`, `manual`.
Amounts are not modelled: every question about an amount is a question about the set of
rows it sums.

| Action | Code |
|---|---|
| `PreflightSolicitar`, `SolicitarRepasse` | `solicitarRepasseRecebedor` reads unlocked, then `solicitarRepasseTransaction` sweeps whatever is eligible at that time |
| `AprovarRepasse`, `AprovarRepassePix`, `ReenviarContaPeloInter` | the three approvals of `livro` |
| `IniciarTransferencia` / `AcaoIniciar` | `iniciarTransferenciaTransaction`; the operator is its answer, the action its only write |
| `FinalizarEnviado/Pago/Verificando/Falhou/Transitorio` | `finalizarTentativaTransferencia`, one per `resultado.tipo` |
| `ResolverVerificacao`, `SinalizarManual`, `ResolverManualPago`, `ResolverManualFalhou`, `RecuperarRepasse`, `CancelarRepasse` | the transactions of the same names |
| `MarcarTransferidos` | `marcarLancamentoTransferido`: payments checked before the transaction, payouts never looked at |
| `ReservarEstornoStripe` .. `ObservarEstornoStripe` | the methods of the Stripe refund repository |
| `CriarDevolucaoPix` .. `AtualizarDevolucaoPix` | the methods of the devolucao repository |
| `EstornarPagamentoPix`, `CancelarLinhasPix` | the two separate writes of `finalizarEstornoPixVerificado` |
| `RegistrarContestacao`, `ResolverContestacao` | `admin-pix-contestacoes.ts` |
| `LiberarSaldo` | time reaching `intencao_balance_transaction_available_on` |

A transaction is one step because it holds the payments' locks and commits atomically.
Whatever the code reads before the transaction is either a step of its own
(`PreflightSolicitar`) or, when the value may change in between, not a guard of the
action (`RegistrarContestacao`, `MarcarTransferidos`). The calls that this module lets
happen in any order are a superset of what the use cases do, so its invariants hold
whatever the callers are; the orders in which they really run are the subject of
ExecucaoRepasse and EstornoPagamento.

### ExecucaoRepasse

Adds `fila` (pg-boss jobs: state, payout, who asked, deliveries), `exec` (the program
counter and locals of each running handler; `dona` says whether pg-boss still counts its
delivery as active), `aceitos` (the attempts Banco Inter accepted), `recuperacoes`,
`retentando` (an admin retry between its check and its enqueue), `semDestino`.
`executarTransferenciaRepasse` is split exactly where it awaits: `Buscar` (delivery and
reads), `Iniciar` (first transaction and branch), `EnviarPix` (the call), `Finalizar`
(second transaction), `Encerrar` (return or throw, settled by pg-boss); a redelivered
attempt goes through `Reconciliar`. `Morrer` may happen before any of them and
`ExpirarJob` under any of them. pg-boss and Banco Inter are external: modelled from the
options the code passes (retryLimit, expireInSeconds, no singletonKey) and the outcomes
`classifyPagarResponse` distinguishes. The idempotency key (reference, attempt) is why
`aceitos` is a set of <<payout, attempt>>.

`FinalizarPago`, `SinalizarManual`, `ResolverManualFalhou`, `ResolverVerificacao` and
`MarcarTransferidos` belong to LivroRepasses only: in this version the worker records
acceptance as `enviado_ao_banco`, and the server mounts no caller of the others for a
payout in flight.

### DestinoDoCredito

The promise in one variable: money of a payment is with the platform, the receiver or
the contributor; it may go platform to receiver, come back when a transfer turned out
not to happen, or go platform to contributor for good. That there is no
receiver-to-contributor step is the content. LivroRepasses maps its ledger rows to it,
EstornoPagamento what the provider really did.

### MaquinaPagamento, ArquivoWebhook

MaquinaPagamento is `pagamento.ts` as a promise: status, number of announcements, number
of registrations. Both payment paths share it and none of its details, so what it lacks is
as telling as what it has: no step leaves a terminal status but the refund, and nothing is
announced or registered of a payment that was not approved. ArquivoWebhook is the fence of
the webhook archive: who claimed an event, whether it was processed, and what a holder
whose lease ran out may still write (nothing).

### CobrancaPix

Charges of Banco Inter that the checkout opened. State: `cobranca` (at the bank),
`vencida` (intencao_expira_em passed), `status`, `anuncios`, `registros`, `reserva` (who
holds pix_reconciliacao_claimed_until), `arquivo`, `ator` (program counter of each webhook
delivery and each sweep).

| Action | Code |
|---|---|
| `Receber` | a delivery claims its archive row (`processEvent`), whether the charge was paid or not: the notification is unsigned |
| `ReceberForjada` | a notification with the endToEndId of another settlement (`e2e`), an event of its own in the archive |
| `Vincular` / `Vinculavel` | `resolveChargeBinding` takes the reconciliation lease, or is refused and acknowledges |
| `Varrer` | `reconciliarCobrancasPix` leases every due candidate at once |
| `Consultar` | GET of the charge, the only word that is believed; the webhook fails unless it is `concluida` by the settlement it was told of, the sweep rejects what is not `concluida` |
| `Aprovar`, `Anunciar`, `LerLivro`, `Registrar` | compare-and-set of the approval, publication by its winner, read of the ledger, insert |
| `Rejeitar` | compare-and-set of the rejection, by the sweep |
| `Responder`, `Liberar` | the archive's outcome; release of the lease |
| `VencerReserva`, `VencerCerca`, `Cair`, `Falhar` | leases and fences end whatever their holders do, processes die, calls throw |

`PagaDepois` are payments that the bank settles after they expired here: `RejeitadoNaoPago`
does not cover them, because the code rejects what had not been paid when it looked.

### PagamentoStripe

Everything the server handles of a Checkout session: a card is charged, a PIX is scanned and
confirmed or lost later, attempts fail, the session expires. `emitidos` is the set of
events Stripe has to deliver, and `Receber` takes any of them, any number of times, in any
order, by any handler. A handler is then split at each await: dispatch (which finds the
payment by session id, or by the payment intent that `session.completed` bound:
`vinculado`), the transition, the read of the session at Stripe (`Cobrar`, `Conferir`), the
write, the publication, the ledger, the answer. `GravarRejeitado` is the plain update of
`rejeitarPagamento`, `Aprovar` the compare-and-set of `aprovarPagamento`.

`payment_intent.payment_failed` (`DespacharRecusa`) alone has a second way to its payment:
`metadata.idPagamento` of the intent. `comMetadados` are the payments whose intents carry it,
and the initial state leaves open which: `provider.stripe.ts` stamps the metadata of the
session only, the comments of `stripe-webhook.ts` expect them on the intent (section 4). What
the fallback can do to a card is excepted in the card properties by name
(`RejeitavelPelosMetadados`, `CartoesComuns`), and nothing else is.

### OperacaoCheckout, DecisaoCheckout

One tab with one cart. State of the operation row: `estado`, `abandonada`, `dono` and `prazo`
(whose claim lease_token names, and whether lease_until is ahead), `ref` (provider_ref);
of the payment: `vinculo` (intencao_external_ref); of the provider: `abertas` (how many
sessions it opened), `lembra` (whether Stripe still knows the idempotency key); of the
browser: `guardado`, `cookies`, `montados` (what the guest was shown), `ouvinte`.

| Action | Code |
|---|---|
| `Submeter`, `Entregar` | `executeRecoverableCheckout`: prepare, then execute once the cookie is there; what is kept or released on each answer |
| `Preparar`, `Recusar` | `prepararPagamentoCarrinho` and `prepare`; the validation both requests run first |
| `Reivindicar` / `RespostaDaReserva` | `claim`, in the order of its returns |
| `ChamarCriar`, `ChamarLer` | `obtainProviderMaterial`, by kind of claim; `recoverProviderMaterial` |
| `ConcluirComSessao`, `ConcluirSemSessao`, `Desistir` | `completeAttempt` under its fence; Inter's second claim that gives up |
| `Confirmar` | `commitLocal`: payment and operation in one transaction |
| `PerderResposta`, `Morrer`, `VencerPrazo`, `FecharJanela`, `Esquecer`, `PerderCookie`, `Recarregar` | network, processes, the 30 s lease, the 23 h window, Stripe's 24 h, cookie eviction, reload |

DecisaoCheckout says what is promised of an operation: it is bound to one session or given
up, once.

### CorreioCicloDeVida

`admitidos`, `snapshot` (lifecycle_email_events), `estado`, `tentativas`, `chave` (of each
delivery), `gancho` (what the hook of a payment has still to admit), `trab` (each running
job), `envios` and `para` (what SMTP accepted). `Avisar` is the hook, `PerderAviso` its
loss. `Varrer` is the transaction of `candidates`: it reads the next page of each type
(`PaginaDe`, the first `Pagina` candidates in the order of their ids after `cursor`) and moves
the type's cursor with it, to the last id of a full page and back to the start after a partial
one (`CursorSeguinte`, `lifecycle_email_scan_cursors`). `AdmitirItem` and `PularItem` then go
through the page, which the job may lose by dying. `RecuperarVelha` is the recovery of stale
claims, `Reclamar`, `Encerrar`, `Dispensar`, `Reservar`, `Conferir`, `Transmitir`, `Registrar`
the path of a delivery, split where it awaits. Members of a campaign are recipients only while
its owner is eligible (`Elegiveis`, `eligibleCampaignOwner`). Around them users
change addresses and preferences, dates move, payments are refunded and workers die
(`MudarEndereco`, `Preferir`, `MudarData`, `Estornar`, `Cair`). Three of the six types are
modelled: the two that exclude each other and the one that is rearmed.

### EstornoPagamento

One refund per payment, by one or several admins and its webhooks, with the requests under
way (`voando`) and what the provider did (`banco`, `devolucoes`) apart from what the
record says (`registro`). The Inter way is `CriarDevolucao`, `Pedir`, `Receber`,
`ApagarDevolucao`, `Consultar`, `GravarDevolucao`, `ConfirmarDevolucao`, `Finalizar`,
`EstornarPagamento`, `CancelarLancamentos`; the Stripe way `Reservar`, `Reclamar`, `Pedir`,
`Receber`, `Desconhecer` or `GravarResultado`, `Convergir`, and `Observar` for the webhook
(`Verificar` for Inter's). `Prender`, `Pagar`, `Soltar` are the payout of the same money
as the refund sees it. `DevolverNoPainel` is a refund made on Stripe's dashboard; such money
is not counted as given back by the platform, and `ImplementaDestino` is silent about it.

## 3. What the runs check

| Run | Instance | Shows | States, time |
|---|---|---|---|
| `lote` | 2 payments (Stripe, Inter), a row each, 2 payouts, 1 campaign, 1 attempt | `EstornoExcluiSaida`, `SaidaCobreLote`, `CreditoEmUmSoLote`, `ReservaNaoVaza`, `EstornadoENaoSaiMais`, `ImplementaDestino`, under every interleaving of the transactions | 756k, 45 s |
| `pix` | 1 payout, 2 jobs, 2 handlers, 2 attempts, 1 crash or live expiration, destination changing, refunds and disputes | `PixCobertoPorDecisao`, `FalhaSemPix`, `EnviadoTemPix`; `EstornoExcluiPix`: the ledger's exclusion holds for the money at the bank | 4.2M, 105 s |
| `decide` | the code's constants (retryLimit 6, 4 transient attempts), 2 jobs, 2 handlers, 2 crashes, fairness | `AprovadoSeDecide`, with retries and recoveries competing | 830k, 50 s |
| `cobranca` | 2 charges (one may be settled late), 1 webhook (genuine, early or forged), 1 sweep, 1 failure or forgery, fairness | `AprovadoPago`, `RejeitadoNaoPago`, `ImplementaMaquina`, `PagoSeDecide` | 980k, 2 min |
| `stripe` | 1 payment, card or PIX, with or without metadata on its intent, 2 handlers, 1 failure, fairness | `SoOPagoProduzEfeitos`, `CartaoPagoNaoERejeitado`, `CartoesImplementamMaquina`, `CartaoPagoSeRegistra` | 502k, 60 s |
| `checkout` | 2 operations, 2 requests, either provider, 1 crash or lease ending under a live request, fairness | `MontadoVinculado`, `UmaSessao`, `ImplementaDecisao`, `PixInsistenteTermina` | 627k, 80 s |
| `correio` | 4 starts (below), 2 jobs, pages of 2, 2 attempts, 3 days, fairness | `NuncaRepete`, `CaixaNaoMente`, `UmPorEndereco`, `UmEmailPorPagamento`, `CaixaSeEsvazia`, `PagamentosSeAvisam` | 318k, 3 min |
| `devolucao` | 1 payment of either provider, 2 admins, 2 webhook deliveries, a payout, 2 failures, fairness | `DevolveUmaVez`, `EstornadoFoiDevolvido`, `ImplementaDestino`, `DevolvidoSeRegistra` | 94k, 15 s |
| `falhou`, `aprovado`, `registra`, `orfao` | smallest instance that shows it | a statement of the repository the code does not keep (section 4) | small |

Each passing run also checks the type invariant of its module. Deadlock is not checked
except in `devolucao`: with every payout finished, every refund terminal and the bounds
used up a model may stop, as the system does when nobody asks for anything.

Why these bounds are enough. In the ledger, conflicts are between two claimants of one row
(two payouts, or a payout and a refund) and two rows of one batch (one refunded, the other
not): two of each covers them. One campaign is enough because nothing relates rows of two
campaigns. Two handlers and two jobs give every overlap of an old and a new delivery: the
server runs `batchSize: 1`, so two handlers run together only when a job expires under a
live one or two server processes overlap. In `cobranca` two charges are the least that one
sweep leases together, and a webhook with a sweep the least that race; two webhooks of one
charge exclude each other by the archive's fence until it ends, which the proofs cover.
Forged notifications count against `MaxFalhas`: each may take the lease of its charge, so an
endless stream of them could keep the sweep from it, and no liveness would be left to check.
Early ones need no bound, as the archive's row of the settlement lets one in at a time. In
`stripe` the races are within one payment: handlers of two payments share nothing. In
`checkout` the second operation is the one a tab draws when the first is released, and two
requests are a late one and its successor; two crashes were checked as well (1.3M states).
The outbox starts in one of four ways, as it is hard for independent reasons: a payment with
a message, a payment with two recipients who may come to share an address, a reminder whose
date may change, and three payments whose hooks were lost, with pages of two: the cursor then
passes a payment that the job could not admit or lost by dying, a partial page follows while
candidates are left behind the cursor, and two jobs share it. A refund and a payout meet
in one payment; two payments were checked as well (763k states). `MaxQuedas`, `MaxFalhas`,
`falhas` and `mudancas` bound crashes, failing calls and changes of the world, which must
be finite for liveness anyway. Payouts, jobs and handlers are symmetric in the safety runs
of the payouts; the runs with liveness use no symmetry. The theorems drop all of these
bounds for every safety property of every run.

Fairness, and why the code justifies it:

- A process that does not die takes its next step: each of its awaits has a timeout or
  fails. This is `WF` of the steps of a handler, a request, a webhook, a sweep or a job.
- Leases and fences end, and charges expire: they are timestamps compared with the clock.
- pg-boss keeps polling, expires the job of a dead handler, and starts the sweep and the
  outbox every few minutes.
- Stripe delivers an event again until it is answered 2xx (`SF` of a delivery: it is
  repeated, not continuously possible). `SpecCompletada` assumes it of `session.completed`
  alone, which is all `CartaoPagoSeRegistra` needs; `SpecJusta` of all types, which does not
  save `PixPagoSeAprova`. Of Banco Inter no delivery is assumed in `cobranca` (the sweep alone
  must decide) and all of them in `registra`, whose counterexample is a delivery that was
  answered 200. In `devolucao` a refund's webhook is delivered until a delivery of it
  succeeds, and Stripe is taken to emit `charge.refunded` when the money went back.
- The outbox claims what has waited longest, hence `SF` of the claim of one delivery.
- Nothing is assumed of guests, admins, users, dates, SMTP, or what a provider answers.

`AprovadoSeDecide` holds because retryLimit 6 leaves three deliveries beyond the four
attempts that decide: two crashes are checked, three hold as well (`MaxQuedas = 3`, a
longer run), and with a fourth, or when a job expires that often under live handlers, the
job dies first. That is the margin the comment in `repasse-enqueuer.pgboss.ts` asks to be
kept. `PixInsistenteTermina` supposes that somebody keeps claiming the operation, for the
server never does so by itself; `MaxQuedas` bounds the leases that end under live requests,
so eventually a request finishes within its lease. `UmaSessao` rests on one fact about
Stripe: a key is remembered an hour longer than the code replays it, and a request does
not live that hour (`Esquecer`).

## 4. Where the repository and its code disagree

Four have a run whose counterexample shows them. Section 5 proves, for each, the condition
under which the statement does hold, or how far it can fail:

1. `falhou` (`FalhouSemDinheiro`) - a refused answer of an expired attempt turns `falhou` a
   payout whose other attempt was accepted: recording compares the status, never the
   attempt. It takes two handlers on one payout (`FalhouSeguroSemSobreposicao`).
2. `aprovado` (`AprovadoTemQuemExecute`) - a refund opened after approval makes every
   delivery throw; the job dies and the payout stays `aprovado`. Without refunds and overlap
   it takes more crashes than the retries leave (`AprovadoNaoFicaSo`).
3. `registra` (`AprovadoSeRegistra`) - a webhook that finds its charge leased by the sweep
   answers 200 as if the charge were somebody else's. When the sweep dies between the
   approval and the ledger, nothing takes the payment up again: sweeps look for `pendente`
   ones, and the notification was consumed. Each payment left so costs a crash or a failed
   call (`SoFalhasDeixamDeRegistrar`).
4. `orfao` (`PixPagoSeAprova`) - a PIX through Stripe whose `charge.succeeded` is handled
   before `session.completed` bound the payment intent is acknowledged and lost. The
   comment counts on `async_payment_succeeded` too, which no code handles;
   `relinkOrphansByPaymentIntent` stamps the archive row and dispatches nothing. Only that
   order, or a declined attempt before, loses a PIX (`PixSoSePerdeForaDeOrdem`).

Others follow from guards the model has too. A run would only show that such a state is
reached; for those in which the code leaves something stuck, an action property proved in
section 5 says that no step ever leads out of it:

- *Ledger.* Rows claimed by a payout do get cancelled (`livro-repository.ts:199`: "should
  never happen"). A pending payout with a refunded payment can be neither approved nor
  cancelled (`AprovarRepasse` and `CancelarRepasse` both exclude it) and blocks the
  campaign's next request, whose receiver is told to wait
  (`repasse-ja-pendente.error.ts:18`); unless one of its payments is disputed, it stays so
  for good (`LotePreso`). Two requests that passed the unlocked preflight: the
  second creates a payout of nothing (`livro-repository.ts:174` promises an error). The
  manual entry stamps rows of a PIX payout before `pago` (`livro:882`: only at `pago`), and
  `needs_manual_resolution` survives leaving `verificando`; the server reaches neither
  today.
- *Worker.* A job redelivered after its handler recorded `falhou` starts a new attempt
  without the admin that `repasse-recebedor.ts:32` draws. A redelivered attempt that finds no
  payable destination leaves the payout in `transferindo` with no job, although
  `executar-transferencia-repasse.ts:26` diverts such crashes to `verificando`; no admin
  action takes such a payout up (`EncalhadoFica`).
- *Payments.* A `charge.succeeded` redelivered after its ledger insert failed is skipped as
  terminal (`stripe-webhook.ts:803`); a card is saved by `session.completed`
  (`CartaoNuncaSePerde`), a PIX is not and no later event saves it (`LivroDoPixPerdido`). A
  stale `rejeitarPagamento` (`rejeitar-pagamento.ts:107`) may overwrite an approved PIX
  payment, which is why `CartoesImplementamMaquina` says cards. A `payment_failed` that
  arrives for an approved payment throws, so its delivery is answered 500 for ever.
- *Metadata of the intent.* `stripe-webhook.ts:109-115` and 1126-1130 say that
  `metadata.idPagamento`, stamped on the session, propagates to the payment intent, and a
  test (`phase3-dispatcher.test.ts:921`) exercises the fallback that reads it there.
  `provider.stripe.ts:203-231` sets the metadata of the session and no
  `payment_intent_data`. Which of the two is true is up to Stripe, so both are modelled. If
  the comments are right the fallback does harm: a declined attempt does not close a session,
  so it may reject a payment whose card is charged at the next attempt, or overwrite an
  approval; `checkout.session.completed` then throws on every delivery and the payment stays
  rejected without rows (`RejeicaoNaoSeDesfaz`). If they are wrong it never runs, and cards
  are safe (`CartoesComuns`).
- *Refunds.* A requester that dies between recording the refund and calling the provider
  leaves a record nothing sends again, which blocks the payout for good; so does a delete
  that fails after a call that was never sent (`estornar-pagamento.ts:351`) and, at Stripe,
  an error before sending, kept as `outcome_unknown` (`RegistroOrfao`). A Stripe refund recorded as
  `provider_pending` that fails later is never told so. A dashboard refund while a payout
  of the money is moving is refused as a conflict on every delivery.
- *Mail.* "One email per payment" does not hold of a message whose alert was admitted before
  the payment's own e-mail: `UmEmailPorPagamento` is stated for the others (`recadoAntes`).
- *Checkout.* The tab stores the operation's id so that it "must be recoverable before the
  first prepare request" (`checkoutOperationClient.ts:95`), but when the answer to that
  request is lost the cookie is lost with it: every later request draws another capability,
  finds the operation under a different digest and is refused until the tab closes
  (`pagina-router.ts:920`). `Preparar` and `PerderResposta` show it and `CapacidadePerdida`
  proves it final; nothing was opened at a provider by then. An Inter operation whose QR code
  expired before it was read back, and a Stripe operation past the replay window, answer 503
  as long as the tab lives, being neither resumable nor given up. The claim after a failure
  (`iniciar-pagamento-carrinho.ts:655`) may win, use nothing and keep the operation busy for
  30 s. A gift sold out meanwhile refuses the recovery of an operation that already has its
  session, as validation precedes the claim. The payment of an abandoned operation stays
  `pendente` until the sweep rejects it, though its charge may be active at Inter (nobody
  holds its QR code).

## 5. What is proved

Every safety property of every passing run is a theorem of the specification, for instances
of any size, from the named assumptions on the constants alone (`SuposicaoLivro`,
`SuposicaoExecucao`, `SuposicaoCheckout`, ...: null values are not identities, bounds are
naturals, rows belong to payments).

| Module | Theorems (property) |
|---|---|
| `LivroRepassesProvas` | `TipoCorreto` (`TypeOK`), `ExclusaoCorreta` (`EstornoExcluiSaida`), `InvarianteCorreto`, `LoteCoberto` (`SaidaCobreLote`), `CreditoNaoDobra` (`CreditoEmUmSoLote`), `ReservaSegura` (`ReservaNaoVaza`), `EstornoFinal` (`EstornadoENaoSaiMais`), `LivroImplementaDestino` (`ImplementaDestino`), `LotePreso` |
| `ExecucaoRepasseProvas` | `TipoExecucaoCorreto` (`TypeOKExecucao`), `InvarianteExecucaoCorreto`, `ExecucaoImplementaLivro` (`SpecExecucao => Spec`), `PixCoberto` (`PixCobertoPorDecisao`), `FalhaSegura` (`FalhaSemPix`), `EnvioVerdadeiro` (`EnviadoTemPix`), `EstornoPoupaPix` (`EstornoExcluiPix`), `LivroSobConcorrencia` (the ledger's properties, of the worker), `EncalhadoFica` |
| `ExecucaoSerialProvas` | under `[]UmPorVez`: `TentativaNuncaVencida`, `FalhouSeguroSemSobreposicao` (`FalhouSemDinheiro`), `UmPixSemSobreposicao`, `EstornoPoupaPixSemSobreposicao`, `AprovadoNaoFicaSo` (`AprovadoTemQuemExecute`), `NenhumJobMorre` |
| `CobrancaPixProvas` | `InvarianteCorreto`, `TipoCorreto`, `AprovacaoPaga` (`AprovadoPago`), `RejeicaoNaoPaga` (`RejeitadoNaoPago`), `CobrancaImplementaMaquina` (`ImplementaMaquina`), `SoFalhasDeixamDeRegistrar` |
| `PagamentoStripeProvas` | `InvarianteCorreto`, `TipoCorreto`, `SoOPago` (`SoOPagoProduzEfeitos`), `RejeicaoDeCartao` (`CartaoPagoNaoERejeitado`), `StripeImplementaMaquina` (`CartoesImplementamMaquina`), `CartaoNuncaSePerde`, `RejeitadoFoiRecusado`, `PixSoSePerdeForaDeOrdem`, `LivroDoPixPerdido`, `RejeicaoNaoSeDesfaz` |
| `OperacaoCheckoutProvas` | `InvarianteCorreto`, `TipoCorreto`, `MontadoSeguro` (`MontadoVinculado`), `UmaSessaoSo` (`UmaSessao`), `CheckoutImplementaDecisao` (`ImplementaDecisao`), `UmQr`, `CapacidadePerdida` |
| `CorreioCicloDeVidaProvas` | `InvarianteCorreto`, `TipoCorreto`, `EnvioUnico` (`NuncaRepete`), `EstadoVerdadeiro` (`CaixaNaoMente`), `EnderecoUnico` (`UmPorEndereco`), `RecadoOuPresente` (`UmEmailPorPagamento`) |
| `EstornoPagamentoProvas` | `InvarianteCorreto`, `TipoCorreto`, `DevolucaoUnica` (`DevolveUmaVez`), `EstornoVerdadeiro` (`EstornadoFoiDevolvido`), `EstornoImplementaDestino` (`ImplementaDestino`), `AvisoSoDepoisDoRegistro`, `RegistroOrfao` |

In each module the argument is an inductive invariant, one lemma or step per action.

**Ledger.** `TypeOK /\ EstornoExcluiSaida /\ EfeitosTemEstorno /\ LoteLigado /\ PagoCarimbado`:

- `EstornoExcluiSaida` is inductive with types: every opening of a refund checks that
  nothing moved, every move checks that no refund is open, and a recording that leaves
  one blocking status for another moves nothing new.
- `EfeitosTemEstorno`: the refund behind an `estornado` payment or a cancelled row is
  `devolvida` or `local_committed`, states no transaction leaves, and a Stripe payment
  never has a PIX refund. It is what lets a transfer's check of the refund stand for a
  check of the payment: without it a step from an `estornado` payment with no refund row
  would be free to move money.
- `LoteLigado`: the rows summed in a payout that is not cancelled are linked to it. As a
  row has one link, two live payouts share no row, and the frozen amount is determined by
  the links.
- `PagoCarimbado`: a `pago` payout stamped its whole batch, which no later step undoes.

The refinement and both action properties follow from that invariant, one step per action.

**Worker.** The invariant counts attempts. Call an attempt *committed* when the bank
accepted it, or when a handler has it open: about to send it, or holding a refusal it has
not recorded yet.

- `FilaCoerente`: a job that is not free belongs to a payout and a busy handler holds such
  a job, so a handler always knows whose money it moves.
- `TentativaUnica`: attempt numbers come from the counter the claim increments, so no two
  handlers hold the same attempt of a payout, and an open attempt was not accepted.
- `Orcamento`, the heart of it: a payout has at most one committed attempt per recovery,
  and one more only while its status is blocking. The claim commits an attempt and makes
  the status blocking; a status leaves the blocking ones only by recording a refusal,
  which gives up exactly one committed attempt, or by a recovery, which pays for one.
  An ambiguous or late answer frees nothing, and that is why duplicates, crashes and
  expired deliveries cannot make the machine pay twice by itself. Without the open
  attempts in the count the invariant is not inductive: a handler about to send would be
  a payment nobody counted.
- `RecuperacoesContadas`: recoveries never exceed attempts, which keeps `recuperacoes` in
  its range.

`FalhaSegura` is the case of no recovery: a status that is not blocking leaves a budget of
zero. `EstornoPoupaPix` joins it to the ledger's invariant, which `ExecucaoImplementaLivro`
carries over: an accepted PIX keeps the status blocking, the batch linked, the credits in
movement, and so no refund is open.

`EncalhadoFica` says of a payout that is claimed, or approved for PIX, with no job in the
queue, no handler and no admin retry under way, that nothing brings one: every enqueue asks
for another status or for an approval without reference, and handlers write their own payout
only. TLC reaches such payouts in both statuses.

**Worker without overlap.** Two of the violated statements of section 4 are about the worker,
and their counterexamples need two handlers on one payout, or refunds. `UmPorVez` forbids the
first. It is an assumption about behaviours, not a fact: the server runs `batchSize: 1`, so it
fails only when a job expires under a live handler or two processes serve the queue.

- `TentativaCorrente` (`TentativaNuncaVencida`): a handler with an attempt in hand finds its
  payout `transferindo` and its attempt the latest, so the answer it records is about the
  attempt the ledger means. This is what recording never compares.
- `Dinheiro`: with that, and admins who recover only payouts of which the bank took nothing
  (`"confere"`), nothing was accepted while an attempt is open or the status is not blocking,
  and never two attempts. `falhou` then means no money moved, there is one PIX per payout, and
  a refund excludes it even after a recovery.
- `FilaViva`: each delivery of a job is paid for by a transient attempt that ended, by a crash,
  or is the delivery under way. Transient attempts end at MAX_TENTATIVAS_TRANSITORIAS and
  crashes are bounded, so with `Margem` (`MaxTransitorias - 1 + MaxQuedas <= RetryLimit`) the
  job cannot die before its payout is decided. With the code's 4 and 6 that is three crashes:
  the margin the comment in `repasse-enqueuer.pgboss.ts` reasons about, here for any values.

**Payments.** Both paths have the same three parts. `SabeDoAtor`/`SabeDoHandler`: what a
process is about to do follows from what it read at the provider, which cannot change back
(a charge concluded, a session paid, a card session expired); so it stays true however
late the process acts, and leases and fences are not needed for safety, only for
`PagoSeDecide`. `AnunciaSozinho`: the winner of the compare-and-set is the only one about to
announce, which carries "announced at most once" across crashes. `SabeDoPagamento`: status
and effects agree with the provider. What a webhook of Inter was told is no part of the
invariant: early and forged notifications take the same steps, and only the GET lets them go
on. For cards the invariant includes that a payment intent is bound only by a completed, hence
paid, session, so that the events of failed attempts cannot find the payment: that order
stands in for the compare-and-set which the rejection lacks, and it does so for
`CartoesComuns` only, since the metadata fallback goes around it. The theorems on cards say
how far: a rejected card has an expired session or `RejeitavelPelosMetadados`
(`RejeicaoDeCartao`), the refinement speaks of `CartoesComuns`, a charged card's event is never
lost (`CartaoNuncaSePerde`) though the fallback may have left it nothing to do, which
`RejeicaoNaoSeDesfaz` proves final.

What the liveness properties need of every state is proved as safety. `CartaoNuncaSePerde`: a
charged card is registered, or its `session.completed` is out and unacknowledged; the invariant
follows that event through whoever claimed it, since 200 is answered only by a handler that
read or wrote the rows. `PixSoSePerdeForaDeOrdem` does the same for a PIX and
`charge.succeeded`, from the order `[]CobrancaEncontra` that the code counts on and Stripe does
not promise; its other loss is a declined attempt, for `RejeitadoFoiRecusado` shows that a
rejection always has a cause of its own. On the Inter side `SoFalhasDeixamDeRegistrar` counts:
every payment approved, unregistered and without a process that will register it is charged
to a failure of its own, so races of webhooks, sweeps and leases alone lose none (`falhas`
counts forged notifications too, which lose none either).
`LivroDoPixPerdido` is the contrary of recovery: a decided PIX without rows and without a
handler that is about to write them stays so.

**Checkout.** `SabeDaOperacao`: a decided operation is in a state no claim reaches again, and
a payment is bound exactly when its operation is `local_committed`; the one session that
was opened is the one recorded, and Stripe forgets a key only after the window closed and
no request is creating. `SabeDoPedido`: a request carries no session but that one, and
releases material only of a bound payment. The invariant needs no argument about who holds
the fence, since what a late answer could overwrite is protected by the state the fence
is compared with.

`UmQr` adds the browser (`AbaFiel`): an operation that showed a QR code stays the one the tab
keeps, and an id is released only on an answer which proves that the operation can never be
bound; so no second QR code is shown for a cart. `CapacidadePerdida`: a tab that keeps the id
of a reserved operation and has no cookie for it is answered CONFLICT by every request it can
send, and drops an id on no such answer.

**Mail.** `SabeDoJob`, `PosseUnica`, `SabeDaEntrega`: a delivery is held by at most one job, has
left at most once, and its state says so; a job about to transmit holds one that never
left. `ChavesUnicas`: the reservation of the address is compared with those of the whole
event. `SabeDoRecado`: an alert about to leave found the payment's e-mail settled in a way
that no longer sends it.

**Refunds.** `SabeDoRegistro` relates the record, the request under way and what the provider
did: at most one request flies, only while the record says so; money went back at most once.
`PedeSozinho`: one actor at a time may send a request for a payment, because it got the
record from a state nobody else can claim. `SabeDoAtor`: what an actor is about to write is what the
provider did. The refinement of DestinoDoCredito needs the clause that a blocking record
keeps the payout out. `AvisoSoDepoisDoRegistro`, the safety core of `DevolvidoSeRegistra`,
follows the callback from its first write to its answer. `RegistroOrfao`: an orphan record
has no request under way and no actor holding it, and each state an actor may start from
excludes it; for Stripe a refund on the dashboard may still give the money back.

Action properties such as `LotePreso` or `RegistroOrfao`, that a stuck state is never left,
were each checked with TLC on the instance of their module before they were proved, together
with the reachability of the state they speak of, so none of them is vacuous.

Only model-checked: `AprovadoSeDecide`, `PagoSeDecide`, `CartaoPagoSeRegistra`,
`PixInsistenteTermina`, `CaixaSeEsvazia`, `PagamentosSeAvisam`, `DevolvidoSeRegistra`, since
liveness under fairness is beyond the proof system (of `CartaoPagoSeRegistra`,
`DevolvidoSeRegistra` and `AprovadoSeDecide` the safety core is proved: `CartaoNuncaSePerde`,
`AvisoSoDepoisDoRegistro`, `AprovadoNaoFicaSo`); and the runs of section 4, which are
counterexamples.

## 6. Not modelled, and why

- *Amounts, fee composition, balances, the recovery policy*: pure arithmetic and tables, which
  the repository's unit tests reach well. Every model here abstracts amounts to the rows
  they sum, and the checkout's validation to one refusal.
- *E-mails welcome, list ready and presence*, the allow-list, the type switches, the launch
  cohort and the provisioning plan: they share the path of a delivery, without its races.
- *Duplicated tabs*: browsers copy sessionStorage, so two tabs may share an operation. To the
  server it is another request, of which there are several.
- *The archive in EstornoPagamento*: a refund's webhook is delivered until one delivery
  succeeds; what the archive does to that is ArquivoWebhook's subject.
- *The extrato evidence of the recovery screen*: the admin decides freely, or, with
  `"confere"`, only when no PIX was accepted. The `repasse.confirmar` handler drains its
  queue and writes nothing.
- *Audit rows* (`repasse_transfer_attempts`): numbered by MAX + 1, read by the count of
  `reenviar` only, which `tentativas = 0` stands for.
- *Remaining quantity of a gift*: may become negative when two guests pay for the last one; the
  repository accepts that, so there is no promise to check.
- *Server drain, signup provisioning, provider fee sync*: candidates for later modules.
  Processes dying at any step are in every model already.
- *Gift list, events, guest lists, users, pages, routers, admin screens, migrations, in-memory
  adapters, storage, tracing*: single-row edits, presentation or test doubles. They are most of
  the repository's lines and none of its concurrency.

## 7. Plan

1. *Composition*: PagamentoStripe and CobrancaPix feeding LivroRepasses (registration as its
   initial state), so that one theorem speaks of a payment from the checkout to the payout.
2. *Server lifecycle*: startup, drain and signals of `lifecycle.ts` against work in flight.
3. *Signup with compensation*, and the provisioning plan of the outbox.
4. *Pure operators*: fee composition, balance buckets, manual recovery policy, against
   reference definitions.

Proofs, in order: the safety cores of the remaining liveness properties (a due charge always
has a sweep that may take it, an outbox row is never left unclaimable); that
OperacaoCheckout's bound payments are CobrancaPix's and PagamentoStripe's initial states; the
composition's exclusion of refunds and payouts; the drain's promise.
