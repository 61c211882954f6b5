--------------------------- MODULE ExecucaoRepasse ---------------------------
(***************************************************************************)
(* Who runs the transactions of LivroRepasses when a payout goes by PIX:   *)
(* the admin's approvals, retries and recoveries enqueue jobs; pg-boss     *)
(* delivers each job, possibly again after a crash or after the job expired*)
(* under a handler that is still running; executarTransferenciaRepasse     *)
(* claims an attempt, calls Banco Inter and records the answer, each in a  *)
(* step of its own.                                                        *)
(*                                                                         *)
(* pg-boss and Banco Inter are external: they are modelled from how the    *)
(* code uses them (job options, comments on expiration, the outcomes of    *)
(* pagarPix).                                                              *)
(***************************************************************************)
EXTENDS LivroRepasses

CONSTANTS
    Jobs,            \* BOUND: jobs of the queue repasse.executar
    Execucoes,       \* BOUND: handler callbacks that may run at the same time
    SemJob,          \* no job
    RetryLimit,      \* retryLimit of EXECUTAR_JOB_OPTIONS
    MaxTransitorias, \* MAX_TENTATIVAS_TRANSITORIAS
    MaxQuedas,       \* BOUND on crashes and on jobs expiring under a live handler
    Ambiente         \* what the instance lets happen around the worker

ASSUME SuposicaoExecucao ==
    /\ SemJob \notin Jobs
    /\ RetryLimit \in Nat /\ MaxTransitorias \in Nat \ {0} /\ MaxQuedas \in Nat
    /\ RetryLimit > MaxTransitorias
    /\ Ambiente \subseteq {
          "expiracao",  \* a job may expire while its handler still runs
          "destino",    \* receivers may edit their bank data
          "estornos",   \* refunds and disputes happen
          "confere"}    \* the admin recovers only when no PIX was accepted yet

VARIABLES
    fila,         \* state of each job, its payout, who asked, its deliveries
    exec,         \* where each handler callback is
    aceitos,      \* <<payout, attempt>> of the PIX Banco Inter accepted
    recuperacoes, \* how many times an admin sent a payout in doubt again
    retentando,   \* payouts an admin retry found in falhou, not yet enqueued
    semDestino,   \* payouts whose receiver has no payable destination now
    quedas        \* crashes and live expirations so far

execVars == <<fila, exec, aceitos, recuperacoes, retentando, semDestino, quedas>>
todas == <<vars, execVars>>

JobLivre == [estado |-> "livre", repasse |-> SemRepasse, origem |-> "nenhuma",
             entregas |-> 0]
Ociosa == [passo |-> "ociosa", job |-> SemJob, dona |-> FALSE, destino |-> FALSE,
           tentativa |-> 0, resposta |-> "nenhuma"]

TypeOKExecucao ==
    /\ TypeOK
    /\ fila \in [Jobs -> [estado   : {"livre", "pronto", "ativo", "concluido", "morto"},
                          repasse  : Repasses \cup {SemRepasse},
                          origem   : {"nenhuma", "aprovacao", "recuperacao", "retentativa"},
                          entregas : 0..(RetryLimit + 1)]]
    /\ exec \in [Execucoes ->
                   [passo     : {"ociosa", "iniciando", "reconciliando", "enviando",
                                 "respondida", "encerrando"},
                    job       : Jobs \cup {SemJob},
                    dona      : BOOLEAN,
                    destino   : BOOLEAN,
                    tentativa : 0..MaxTentativas,
                    resposta  : {"nenhuma", "aceito", "rejeitado", "transitoria",
                                 "ambigua", "sem_destino", "ok", "erro"}]]
    /\ aceitos \subseteq Repasses \X (1..MaxTentativas)
    /\ recuperacoes \in [Repasses -> 0..MaxTentativas]
    /\ retentando \subseteq Repasses
    /\ semDestino \subseteq Repasses
    /\ quedas \in 0..MaxQuedas

InitExecucao ==
    /\ Init
    /\ fila = [j \in Jobs |-> JobLivre]
    /\ exec = [e \in Execucoes |-> Ociosa]
    /\ aceitos = {}
    /\ recuperacoes = [r \in Repasses |-> 0]
    /\ retentando = {}
    /\ semDestino = {}
    /\ quedas = 0

-----------------------------------------------------------------------------
(* The queue *)

\* boss.send with EXECUTAR_JOB_OPTIONS; no singletonKey, so duplicates pile up.
Enfileirar(j, r, origem) ==
    /\ fila[j].estado = "livre"
    /\ fila' = [fila EXCEPT ![j] = [estado |-> "pronto", repasse |-> r,
                                    origem |-> origem, entregas |-> 0]]

\* Mutant: one retry too many.
DepoisDeFalharUmaAMais(j) == IF fila[j].entregas <= RetryLimit + 1 THEN "pronto" ELSE "morto"
\* Mutant: pg-boss's default of two retries, fewer than the transient attempts.
DepoisDeFalharDuasVezes(j) == IF fila[j].entregas <= 2 THEN "pronto" ELSE "morto"
\* Where a delivery that did not complete leaves the job.
DepoisDeFalhar(j) == IF fila[j].entregas <= RetryLimit THEN "pronto" ELSE "morto"

\* A worker fetches the job; the handler reads the payout and its receiver.
Buscar(e, j) ==
    /\ exec[e].passo = "ociosa" /\ fila[j].estado = "pronto"
    /\ fila' = [fila EXCEPT ![j].estado = "ativo", ![j].entregas = @ + 1]
    /\ exec' = [exec EXCEPT ![e] = [Ociosa EXCEPT
                    !.passo = "iniciando", !.job = j, !.dona = TRUE,
                    !.destino = fila[j].repasse \notin semDestino]]
    /\ UNCHANGED <<vars, aceitos, recuperacoes, retentando, semDestino, quedas>>

\* The job outlives expireInSeconds: pg-boss settles it and may deliver it again,
\* while a handler that is still running knows nothing of it.
ExpirarJob(j) ==
    LET vivas == {e \in Execucoes : exec[e].job = j /\ exec[e].dona} IN
    /\ fila[j].estado = "ativo"
    /\ vivas # {} => "expiracao" \in Ambiente /\ quedas < MaxQuedas
    /\ fila' = [fila EXCEPT ![j].estado = DepoisDeFalhar(j)]
    /\ exec' = [e \in Execucoes |-> IF e \in vivas THEN [exec[e] EXCEPT !.dona = FALSE]
                                                   ELSE exec[e]]
    /\ quedas' = IF vivas # {} THEN quedas + 1 ELSE quedas
    /\ UNCHANGED <<vars, aceitos, recuperacoes, retentando, semDestino>>

\* The process of a handler dies, or its database call fails, at any step.
Morrer(e) ==
    /\ exec[e].passo # "ociosa" /\ quedas < MaxQuedas
    /\ exec' = [exec EXCEPT ![e] = Ociosa]
    /\ quedas' = quedas + 1
    /\ UNCHANGED <<vars, fila, aceitos, recuperacoes, retentando, semDestino>>

-----------------------------------------------------------------------------
(* executarTransferenciaRepasse *)

RepasseDaExec(e) == fila[exec[e].job].repasse

\* The handler goes on to another step, or is about to return or throw.
Seguir(e, passo, tentativa, resposta) ==
    /\ exec' = [exec EXCEPT ![e].passo = passo, ![e].tentativa = tentativa,
                            ![e].resposta = resposta]
    /\ UNCHANGED <<fila, aceitos, recuperacoes, retentando, semDestino, quedas>>
Retornar(e) == Seguir(e, "encerrando", exec[e].tentativa, "ok")
Lancar(e) == Seguir(e, "encerrando", exec[e].tentativa, "erro")

\* iniciarTransferenciaTransaction and the branch on its acao.  Without a
\* payable destination every acao but prosseguir just ends the job.
Iniciar(e) ==
    LET r == RepasseDaExec(e) IN
    /\ exec[e].passo = "iniciando"
    /\ \/ AcaoIniciar(r) = "erro" /\ Lancar(e) /\ UNCHANGED vars
       \/ AcaoIniciar(r) = "concluido" /\ Retornar(e) /\ UNCHANGED vars
       \/ AcaoIniciar(r) = "reconciliar" /\ UNCHANGED vars
          /\ IF exec[e].destino THEN Seguir(e, "reconciliando", 0, "nenhuma")
                                ELSE Retornar(e)
       \/ /\ IniciarTransferencia(r)
          /\ IF exec[e].destino THEN Seguir(e, "enviando", tentativas'[r], "nenhuma")
                                ELSE Seguir(e, "respondida", tentativas'[r], "sem_destino")

\* Mutant: a redelivered attempt is taken for a failed one.
ReconciliarComoFalha(e) ==
    LET r == RepasseDaExec(e) IN
    /\ exec[e].passo = "reconciliando"
    /\ \/ FinalizarFalhou(r) /\ Retornar(e)
       \/ status[r] \notin {"transferindo", "verificando"} /\ Lancar(e) /\ UNCHANGED vars

\* A redelivered attempt: a payment may exist, so the payout is put in doubt.
Reconciliar(e) ==
    LET r == RepasseDaExec(e) IN
    /\ exec[e].passo = "reconciliando"
    /\ \/ FinalizarVerificando(r) /\ Retornar(e)
       \/ status[r] # "transferindo" /\ Lancar(e) /\ UNCHANGED vars

\* pagarPix: accepted, refused before creating a payment, never sent, or any
\* other failure, after which the payment may or may not exist.  The key
\* (referencia, tentativa) makes Banco Inter take an attempt once.
EnviarPix(e) ==
    LET pix == <<RepasseDaExec(e), exec[e].tentativa>> IN
    /\ exec[e].passo = "enviando"
    /\ \E resposta \in {"aceito", "rejeitado", "transitoria", "ambigua"} :
          /\ exec' = [exec EXCEPT ![e].passo = "respondida", ![e].resposta = resposta]
          /\ \/ resposta \in {"aceito", "ambigua"} /\ aceitos' = aceitos \cup {pix}
             \/ resposta # "aceito" /\ UNCHANGED aceitos
    /\ UNCHANGED <<vars, fila, recuperacoes, retentando, semDestino, quedas>>

\* Mutant: an ambiguous answer is handled like a transient one.
DesfechoAmbiguaRepete(resposta, tentativa) ==
    CASE resposta = "aceito" -> "enviado"
      [] resposta \in {"rejeitado", "sem_destino"} -> "falhou"
      [] resposta \in {"transitoria", "ambigua"} ->
            IF tentativa >= MaxTransitorias THEN "falhou" ELSE "transitorio"
\* Mutant: an ambiguous answer is taken for an accepted one.
DesfechoAmbiguaAceita(resposta, tentativa) ==
    CASE resposta \in {"aceito", "ambigua"} -> "enviado"
      [] resposta \in {"rejeitado", "sem_destino"} -> "falhou"
      [] resposta = "transitoria" ->
            IF tentativa >= MaxTransitorias THEN "falhou" ELSE "transitorio"
\* What the handler makes of the answer.
Desfecho(resposta, tentativa) ==
    CASE resposta = "aceito" -> "enviado"
      [] resposta \in {"rejeitado", "sem_destino"} -> "falhou"
      [] resposta = "ambigua" -> "verificando"
      [] resposta = "transitoria" ->
            IF tentativa >= MaxTransitorias THEN "falhou" ELSE "transitorio"

\* The statuses from which the ledger lets it be recorded.
StatusQueAceita(desfecho) ==
    IF desfecho \in {"verificando", "transitorio"} THEN {"transferindo"}
    ELSE {"transferindo", "verificando"}

\* The answer is recorded; where the status no longer allows it the handler
\* throws and the answer is lost.  A transient answer throws in any case, so
\* that pg-boss delivers the job again.
Finalizar(e) ==
    LET r == RepasseDaExec(e)
        desfecho == Desfecho(exec[e].resposta, exec[e].tentativa)
    IN
    /\ exec[e].passo = "respondida"
    /\ \/ desfecho = "enviado" /\ FinalizarEnviado(r) /\ Retornar(e)
       \/ desfecho = "falhou" /\ FinalizarFalhou(r) /\ Retornar(e)
       \/ desfecho = "verificando" /\ FinalizarVerificando(r) /\ Retornar(e)
       \/ desfecho = "transitorio" /\ FinalizarTransitorio(r) /\ Lancar(e)
       \/ status[r] \notin StatusQueAceita(desfecho) /\ Lancar(e) /\ UNCHANGED vars

\* The handler returned or threw: pg-boss settles the job, unless it already did.
Encerrar(e) ==
    LET j == exec[e].job IN
    /\ exec[e].passo = "encerrando"
    /\ fila' = IF ~exec[e].dona THEN fila
               ELSE [fila EXCEPT ![j].estado =
                        IF exec[e].resposta = "ok" THEN "concluido" ELSE DepoisDeFalhar(j)]
    /\ exec' = [exec EXCEPT ![e] = Ociosa]
    /\ UNCHANGED <<vars, aceitos, recuperacoes, retentando, semDestino, quedas>>

-----------------------------------------------------------------------------
(* The admin and the receiver *)

\* aprovarRepasseRecebedor: the job is inserted by the transaction that approves.
AprovarEEnfileirar(r, j) ==
    /\ AprovarRepassePix(r)
    /\ Enfileirar(j, r, "aprovacao")
    /\ UNCHANGED <<exec, aceitos, recuperacoes, retentando, semDestino, quedas>>

\* reenviarRepasseContaPeloInter, of a payout approved for a bank account: so is its job.
ReenviarEEnfileirar(r, j) ==
    /\ ReenviarContaPeloInter(r)
    /\ Enfileirar(j, r, "aprovacao")
    /\ UNCHANGED <<exec, aceitos, recuperacoes, retentando, semDestino, quedas>>

\* recuperarRepasse, from a screen that showed the current attempt count.
RecuperarEEnfileirar(r, j) ==
    /\ RecuperarRepasse(r, tentativas[r])
    /\ "confere" \in Ambiente => \A n \in 1..MaxTentativas : <<r, n>> \notin aceitos
    /\ Enfileirar(j, r, "recuperacao")
    /\ recuperacoes' = [recuperacoes EXCEPT ![r] = @ + 1]
    /\ UNCHANGED <<exec, aceitos, retentando, semDestino, quedas>>

\* retentarTransferenciaRepasse reads the status, without a lock, ...
LerParaRetentar(r) ==
    /\ status[r] = "falhou"
    /\ retentando' = retentando \cup {r}
    /\ UNCHANGED <<vars, fila, exec, aceitos, recuperacoes, semDestino, quedas>>

\* ... and then enqueues, whatever happened in between.
Retentar(r, j) ==
    /\ r \in retentando
    /\ Enfileirar(j, r, "retentativa")
    /\ retentando' = retentando \ {r}
    /\ UNCHANGED <<vars, exec, aceitos, recuperacoes, semDestino, quedas>>

\* The receiver's bank data become payable, or stop being so.
MudarDestino(r) ==
    /\ "destino" \in Ambiente
    /\ semDestino' = IF r \in semDestino THEN semDestino \ {r} ELSE semDestino \cup {r}
    /\ UNCHANGED <<vars, fila, exec, aceitos, recuperacoes, retentando, quedas>>

\* Transactions of the ledger that involve no job.
PassoSemJob ==
    /\ \/ \E r \in Repasses :
             \/ \E c \in Campanhas : PreflightSolicitar(r, c)
             \/ SolicitarRepasse(r)
             \/ \E comRef \in BOOLEAN : AprovarRepasse(r, comRef)
             \/ CancelarRepasse(r)
             \/ ResolverManualPago(r)
       \/ \E p \in Pagamentos :
             \/ LiberarSaldo(p)
             \/ "estornos" \in Ambiente /\ (PassoDoEstorno(p) \/ PassoDaContestacao(p))
    /\ UNCHANGED execVars

-----------------------------------------------------------------------------
PassoDoHandler(e) ==
    Iniciar(e) \/ Reconciliar(e) \/ EnviarPix(e) \/ Finalizar(e) \/ Encerrar(e)

PassoDoAdmin(r, j) ==
    \/ AprovarEEnfileirar(r, j) \/ ReenviarEEnfileirar(r, j)
    \/ RecuperarEEnfileirar(r, j) \/ Retentar(r, j)

NextExecucao ==
    \/ PassoSemJob
    \/ \E r \in Repasses : LerParaRetentar(r) \/ MudarDestino(r)
    \/ \E r \in Repasses, j \in Jobs : PassoDoAdmin(r, j)
    \/ \E j \in Jobs : ExpirarJob(j)
    \/ \E e \in Execucoes, j \in Jobs : Buscar(e, j)
    \/ \E e \in Execucoes : PassoDoHandler(e) \/ Morrer(e)

SpecExecucao == InitExecucao /\ [][NextExecucao]_todas

\* The server keeps polling, its handlers keep running until they die, and
\* pg-boss's supervision expires the jobs of dead handlers.  Nothing is assumed
\* of the admin, of the receiver or of the passing of time.
JobOrfao(j) == \A e \in Execucoes : ~(exec[e].job = j /\ exec[e].dona)
Justica ==
    /\ \A j \in Jobs : WF_todas(\E e \in Execucoes : Buscar(e, j))
    /\ \A e \in Execucoes : WF_todas(PassoDoHandler(e))
    /\ \A j \in Jobs : WF_todas(JobOrfao(j) /\ ExpirarJob(j))

SpecJusta == SpecExecucao /\ Justica

-----------------------------------------------------------------------------
(* Correctness *)

PixAceitos(r) == {n \in 1..MaxTentativas : <<r, n>> \in aceitos}

\* "At most one successful PIX per repasse" as far as the machine decides alone:
\* every further accepted PIX was authorised by an admin who chose to send a
\* payout in doubt again, whatever crashes, redeliveries, duplicate jobs and late
\* answers there are (executar-transferencia-repasse.ts).
PixCobertoPorDecisao ==
    \A r \in Repasses : Cardinality(PixAceitos(r)) <= 1 + recuperacoes[r]

\* A payout nobody recovered by hand reaches the states from which its money may
\* be sent again, or its credits given to another payout, only when Banco Inter
\* accepted none of its PIX.
FalhaSemPix ==
    \A r \in Repasses :
        recuperacoes[r] = 0 /\ status[r] \in {"falhou", "cancelado"} => PixAceitos(r) = {}

\* What the receiver is shown as sent was accepted by the bank.
EnviadoTemPix ==
    \A r \in Repasses : status[r] = "enviado_ao_banco" => PixAceitos(r) # {}

\* A contributor is not refunded with money Banco Inter took for the receiver,
\* unless an admin sent the payout in doubt again: the ledger's exclusion between
\* refunds and payouts holds for the money itself, whatever the ledger believes
\* of the attempts (payment-money-movement-lock.postgres.ts).
EstornoExcluiPix ==
    \A r \in Repasses : recuperacoes[r] = 0 /\ PixAceitos(r) # {} =>
        \A l \in lote[r] : estorno[PagamentoDe[l]] \notin EstornoSemConflito

\* Within the retries the job has, a payout approved for PIX does not stay
\* undecided: it is sent, fails, is put in doubt or is cancelled
\* (repasse-enqueuer.pgboss.ts: the handler terminates before the job dies).
AprovadoSeDecide ==
    \A r \in Repasses :
        (status[r] = "aprovado" /\ r \in referencia)
            ~> status[r] \notin {"aprovado", "transferindo"}

-----------------------------------------------------------------------------
(* Statements of the repository that its code does not keep *)

\* A job or a handler will still look at the payout.
TemQuemExecute(r) ==
    \/ \E j \in Jobs : fila[j].repasse = r /\ fila[j].estado \in {"pronto", "ativo"}
    \/ \E e \in Execucoes : exec[e].job # SemJob /\ RepasseDaExec(e) = r

\* repasse-recebedor.ts: falhou is "confirmed no-money-moved", even when the
\* admin only ever recovers a payout of which no PIX was accepted.
FalhouSemDinheiro ==
    \A r \in Repasses : status[r] = "falhou" => PixAceitos(r) = {}

\* repasse-enqueuer.pgboss.ts: no payout is stranded in aprovado with a dead job.
AprovadoTemQuemExecute ==
    \A r \in Repasses :
        status[r] = "aprovado" /\ r \in referencia => TemQuemExecute(r) \/ PodeCancelar(r)

=============================================================================
