------------------------- MODULE ExecucaoSerialProvas -------------------------
(***************************************************************************)
(* What ExecucaoRepasse keeps when no two handlers are ever at work on the *)
(* same payout: the worker of a server takes one job at a time, so this    *)
(* fails only when a job expires under a live handler or two servers serve *)
(* the queue.  Two statements of the repository that its code does not keep*)
(* in general hold under that condition and another one each: falhou means *)
(* that no money moved, and no approved payout is left with a dead job.    *)
(***************************************************************************)
EXTENDS ExecucaoRepasseProvas

USE SuposicaoLivro, SuposicaoExecucao

\* No two handlers are at work on the same payout.
UmPorVez ==
  \A e, f \in Execucoes :
     /\ exec[e].passo # "ociosa" /\ exec[f].passo # "ociosa"
     /\ RepasseDaExec(e) = RepasseDaExec(f)
     => e = f

\* A handler with an attempt in hand, or about to put one in doubt, is the last
\* word on its payout.
TentativaCorrente ==
  /\ \A e \in Execucoes : EmCurso(e) =>
        /\ status[RepasseDaExec(e)] = "transferindo"
        /\ exec[e].tentativa = tentativas[RepasseDaExec(e)]
  /\ \A e \in Execucoes : exec[e].passo = "reconciliando" =>
        status[RepasseDaExec(e)] = "transferindo"

-----------------------------------------------------------------------------
(* What each step does to payouts and handlers *)

\* The step leaves this handler, and the payout it serves, as they are.
MesmoHandler(f) ==
  /\ exec'[f].passo = exec[f].passo /\ exec'[f].job = exec[f].job
  /\ exec'[f].tentativa = exec[f].tentativa /\ exec'[f].resposta = exec[f].resposta
  /\ exec[f].passo # "ociosa" => RepasseDaExec(f)' = RepasseDaExec(f)

\* A handler at work holds a queued job, and through it a payout.
LEMMA OcupadoServe ==
  ASSUME FilaCoerente, NEW e \in Execucoes, exec[e].passo # "ociosa"
  PROVE  /\ exec[e].job \in Jobs /\ fila[exec[e].job].estado # "livre"
         /\ RepasseDaExec(e) \in Repasses
  BY DEF FilaCoerente, RepasseDaExec

\* The statuses between which a transaction that involves no job moves a payout.
PassoSemHandler(antes, depois) ==
  \/ depois = antes
  \/ antes = "inexistente" /\ depois = "solicitado"
  \/ antes = "solicitado" /\ depois = "aprovado"
  \/ antes \in {"solicitado", "aprovado", "falhou"} /\ depois = "cancelado"
  \/ antes = "verificando" /\ depois = "pago"

\* A step of a refund moves no payout.
LEMMA EstornoNoRepasse ==
  ASSUME NEW p \in Pagamentos, PassoDoEstorno(p)
  PROVE  UNCHANGED repasseVars
  BY DEF PassoDoEstorno, ReservarEstornoStripe, IniciarEstornoStripe,
     RegistrarRespostaStripe, ConvergirEstornoStripe, ObservarEstornoStripe,
     CriarDevolucaoPix, ApagarDevolucaoPix, AtualizarDevolucaoPix,
     EstornarPagamentoPix, CancelarLinhasPix, MudarEstorno, ConvergirStripe

\* What a transaction that involves no job may do to a payout.
LEMMA PassoSemJobMuda ==
  ASSUME TypeOK, PassoSemJob
  PROVE  /\ tentativas' = tentativas /\ referencia' = referencia
         /\ \A q \in Repasses : PassoSemHandler(status[q], status'[q])
<1> DEFINE Muda == /\ tentativas' = tentativas /\ referencia' = referencia
                   /\ \A q \in Repasses : PassoSemHandler(status[q], status'[q])
<1> USE DEF TypeOK, PassoSemHandler
<1>1. ASSUME NEW r \in Repasses, NEW c \in Campanhas, PreflightSolicitar(r, c)
      PROVE  Muda
  BY <1>1 DEF PreflightSolicitar
<1>2. ASSUME NEW r \in Repasses, SolicitarRepasse(r)
      PROVE  Muda
  BY <1>2 DEF SolicitarRepasse
<1>3. ASSUME NEW r \in Repasses, NEW comRef \in BOOLEAN, AprovarRepasse(r, comRef)
      PROVE  Muda
  BY <1>3 DEF AprovarRepasse
<1>4. ASSUME NEW r \in Repasses, CancelarRepasse(r)
      PROVE  Muda
  BY <1>4 DEF CancelarRepasse, PodeCancelar, CancelamentoMed
<1>5. ASSUME NEW r \in Repasses, ResolverManualPago(r)
      PROVE  Muda
  BY <1>5 DEF ResolverManualPago
<1>6. ASSUME NEW p \in Pagamentos, LiberarSaldo(p) \/ PassoDaContestacao(p)
      PROVE  Muda
  BY <1>6, EfeitoDosDemais DEF repasseVars
<1>7. ASSUME NEW p \in Pagamentos, PassoDoEstorno(p)
      PROVE  Muda
  BY <1>7, EstornoNoRepasse DEF repasseVars
<1> QED
  BY <1>1, <1>2, <1>3, <1>4, <1>5, <1>6, <1>7 DEF PassoSemJob

\* A step that is not a handler's: the handlers at work go on where they were,
\* and payouts move by the admin's and the receiver's hands alone.
Alheio ==
  /\ tentativas' = tentativas /\ aceitos' = aceitos
  /\ \A f \in Execucoes :
        \/ MesmoHandler(f)
        \/ exec[f].passo = "ociosa" /\ exec'[f].passo = "iniciando"
        \/ exec'[f].passo = "ociosa"
  /\ \A q \in Repasses :
        \/ PassoSemHandler(status[q], status'[q])
        \/ /\ status[q] = "verificando" /\ status'[q] = "aprovado"
           /\ "confere" \in Ambiente => PixAceitos(q) = {}

\* A step of the handler e in its own program: it alone moves, and of the payouts
\* only the one it serves.
Move(e) ==
  /\ exec[e].passo # "ociosa" /\ RepasseDaExec(e) \in Repasses
  /\ UNCHANGED <<fila, recuperacoes, retentando, semDestino, quedas, referencia, estorno, med>>
  /\ exec'[e].passo \in {"reconciliando", "enviando", "respondida", "encerrando"}
  /\ exec'[e].job = exec[e].job /\ exec'[e].dona = exec[e].dona
  /\ \A f \in Execucoes : RepasseDaExec(f)' = RepasseDaExec(f)
  /\ \A f \in Execucoes : f # e => exec'[f] = exec[f]
  /\ \A q \in Repasses : q # RepasseDaExec(e) =>
        /\ status'[q] = status[q] /\ tentativas'[q] = tentativas[q]
        /\ PixAceitos(q)' = PixAceitos(q)

PassoProprio(e) == Iniciar(e) \/ Reconciliar(e) \/ EnviarPix(e) \/ Finalizar(e)

\* Advancing a handler is a move of its own.
LEMMA MoveDoAvanco ==
  ASSUME TypeOKExecucao, FilaCoerente, NEW e \in Execucoes, exec[e].passo # "ociosa",
         UNCHANGED <<fila, recuperacoes, retentando, semDestino, quedas, referencia, estorno, med>>,
         NEW p \in {"reconciliando", "enviando", "respondida", "encerrando"},
         NEW t \in 0..MaxTentativas,
         NEW x \in {"nenhuma", "aceito", "rejeitado", "transitoria", "ambigua",
                    "sem_destino", "ok", "erro"},
         Avanca(e, p, t, x),
         \A q \in Repasses : q # RepasseDaExec(e) =>
            /\ status'[q] = status[q] /\ tentativas'[q] = tentativas[q]
            /\ PixAceitos(q)' = PixAceitos(q)
  PROVE  /\ Move(e)
         /\ exec'[e].passo = p /\ exec'[e].tentativa = t /\ exec'[e].resposta = x
<1>1. /\ exec'[e].passo = p /\ exec'[e].tentativa = t /\ exec'[e].resposta = x
      /\ \A f \in Execucoes : f # e => exec'[f] = exec[f]
  BY FilaDoAvanco
<1>2. \A f \in Execucoes : exec'[f].job = exec[f].job /\ exec'[f].dona = exec[f].dona
  BY DEF Avanca, TypeOKExecucao
<1>3. \A f \in Execucoes : RepasseDaExec(f)' = RepasseDaExec(f)
  BY <1>2 DEF RepasseDaExec
<1> QED
  BY <1>1, <1>2, <1>3, OcupadoServe DEF Move

\* The fresh claim, a redelivered claim, and the claims that end the job.
LEMMA MoveDoIniciar ==
  ASSUME TypeOKExecucao, FilaCoerente, NEW e \in Execucoes, Iniciar(e)
  PROVE  /\ Move(e) /\ aceitos' = aceitos
         /\ \/ /\ UNCHANGED vars
               /\ \/ exec'[e].passo = "reconciliando" /\ status[RepasseDaExec(e)] = "transferindo"
                  \/ /\ exec'[e].passo = "encerrando" /\ exec'[e].resposta = "ok"
                     /\ status[RepasseDaExec(e)] \notin {"aprovado", "falhou"}
                  \/ /\ exec'[e].passo = "encerrando" /\ exec'[e].resposta = "erro"
                     /\ AcaoIniciar(RepasseDaExec(e)) = "erro"
            \/ /\ status[RepasseDaExec(e)] \in {"aprovado", "falhou"}
               /\ status'[RepasseDaExec(e)] = "transferindo"
               /\ tentativas'[RepasseDaExec(e)] = tentativas[RepasseDaExec(e)] + 1
               /\ exec'[e].passo \in {"enviando", "respondida"}
               /\ exec'[e].tentativa = tentativas'[RepasseDaExec(e)]
<1> DEFINE r == RepasseDaExec(e)
<1>a. exec[e].tentativa \in 0..MaxTentativas /\ 0 \in 0..MaxTentativas
  BY DEF TypeOKExecucao
<1>0. exec[e].passo # "ociosa" /\ r \in Repasses
  BY OcupadoServe DEF Iniciar
<1>1. UNCHANGED <<fila, aceitos, recuperacoes, retentando, semDestino, quedas>>
  BY AvancoDoIniciar
<1>2. CASE UNCHANGED vars
  <2>1. UNCHANGED <<status, tentativas, referencia, estorno, med>>
    BY <1>2 DEF vars, repasseVars, estornoVars
  <2>2. \A q \in Repasses : PixAceitos(q)' = PixAceitos(q)
    BY <1>1 DEF PixAceitos
  <2>3. \/ /\ AcaoIniciar(r) = "erro" /\ Avanca(e, "encerrando", exec[e].tentativa, "erro")
        \/ /\ AcaoIniciar(r) \in {"concluido", "reconciliar"}
           /\ Avanca(e, "encerrando", exec[e].tentativa, "ok")
        \/ AcaoIniciar(r) = "reconciliar" /\ Avanca(e, "reconciliando", 0, "nenhuma")
        \/ IniciarTransferencia(r)
    BY DEF Iniciar, Lancar, Retornar, Seguir, Avanca
  <2>4. ~IniciarTransferencia(r)
    BY <1>0, <2>1 DEF IniciarTransferencia, TypeOKExecucao, TypeOK
  <2>5. /\ AcaoIniciar(r) \in {"concluido", "reconciliar"} =>
               status[r] \notin {"aprovado", "falhou"}
        /\ AcaoIniciar(r) = "reconciliar" => status[r] = "transferindo"
    BY DEF AcaoIniciar
  <2> HIDE DEF r
  <2>6. r = RepasseDaExec(e)
    BY DEF r
  <2>7. CASE AcaoIniciar(r) = "erro" /\ Avanca(e, "encerrando", exec[e].tentativa, "erro")
    BY <1>a, <1>0, <1>1, <1>2, <2>1, <2>2, <2>6, <2>7, MoveDoAvanco
  <2>8. CASE /\ AcaoIniciar(r) \in {"concluido", "reconciliar"}
             /\ Avanca(e, "encerrando", exec[e].tentativa, "ok")
    BY <1>a, <1>0, <1>1, <1>2, <2>1, <2>2, <2>5, <2>6, <2>8, MoveDoAvanco
  <2>9. CASE AcaoIniciar(r) = "reconciliar" /\ Avanca(e, "reconciliando", 0, "nenhuma")
    BY <1>a, <1>0, <1>1, <1>2, <2>1, <2>2, <2>5, <2>6, <2>9, MoveDoAvanco
  <2> QED
    BY <2>3, <2>4, <2>7, <2>8, <2>9
<1>3. CASE /\ IniciarTransferencia(r)
           /\ \/ Avanca(e, "enviando", tentativas'[r], "nenhuma")
              \/ Avanca(e, "respondida", tentativas'[r], "sem_destino")
  <2>1. /\ status[r] \in {"aprovado", "falhou"} /\ tentativas[r] < MaxTentativas
        /\ status' = [status EXCEPT ![r] = "transferindo"]
        /\ tentativas' = [tentativas EXCEPT ![r] = @ + 1]
        /\ UNCHANGED <<referencia, estorno, med>>
    BY <1>3 DEF IniciarTransferencia, AcaoIniciar, estornoVars
  <2>2. /\ status'[r] = "transferindo" /\ tentativas'[r] = tentativas[r] + 1
        /\ tentativas'[r] \in 0..MaxTentativas
        /\ \A q \in Repasses : q # r => status'[q] = status[q] /\ tentativas'[q] = tentativas[q]
    BY <1>0, <2>1 DEF TypeOKExecucao, TypeOK
  <2>3. \A q \in Repasses : PixAceitos(q)' = PixAceitos(q)
    BY <1>1 DEF PixAceitos
  <2>4. PICK t \in 0..MaxTentativas : t = tentativas'[r]
    BY <2>2
  <2>5. \/ Avanca(e, "enviando", t, "nenhuma")
        \/ Avanca(e, "respondida", t, "sem_destino")
    BY <1>3, <2>4
  <2>6. /\ Move(e) /\ exec'[e].tentativa = t
        /\ exec'[e].passo \in {"enviando", "respondida"}
    BY <1>0, <1>1, <2>1, <2>2, <2>3, <2>5, MoveDoAvanco
  <2> QED
    BY <1>1, <2>1, <2>2, <2>4, <2>6
<1> QED
  BY <1>2, <1>3, AvancoDoIniciar

\* What the handler of a redelivered attempt writes.
LEMMA MoveDoReconciliar ==
  ASSUME TypeOKExecucao, FilaCoerente, NEW e \in Execucoes, Reconciliar(e)
  PROVE  /\ Move(e) /\ aceitos' = aceitos /\ tentativas' = tentativas
         /\ exec[e].passo = "reconciliando"
         /\ exec'[e].passo = "encerrando" /\ exec'[e].resposta \in {"ok", "erro"}
         /\ \/ /\ status[RepasseDaExec(e)] = "transferindo"
               /\ status'[RepasseDaExec(e)] = "verificando" /\ exec'[e].resposta = "ok"
            \/ /\ status[RepasseDaExec(e)] # "transferindo"
               /\ status'[RepasseDaExec(e)] = status[RepasseDaExec(e)]
<1> DEFINE r == RepasseDaExec(e)
<1>0. exec[e].passo = "reconciliando" /\ r \in Repasses
      /\ exec[e].tentativa \in 0..MaxTentativas
  BY OcupadoServe DEF Reconciliar, TypeOKExecucao
<1>1. UNCHANGED <<fila, aceitos, recuperacoes, retentando, semDestino, quedas>>
  BY AvancoDoReconciliar
<1>2. PICK x \in {"ok", "erro"} :
        /\ Avanca(e, "encerrando", exec[e].tentativa, x)
        /\ \/ FinalizarVerificando(r) /\ x = "ok"
           \/ status[r] # "transferindo" /\ UNCHANGED vars
  BY DEF Reconciliar, Lancar, Retornar, Seguir, Avanca
<1>3. /\ UNCHANGED <<tentativas, referencia, estorno, med>>
      /\ \/ status[r] = "transferindo" /\ status' = [status EXCEPT ![r] = "verificando"] /\ x = "ok"
         \/ status[r] # "transferindo" /\ status' = status
  BY <1>2 DEF FinalizarVerificando, vars, repasseVars, estornoVars
<1>4. /\ \A q \in Repasses : q # r => status'[q] = status[q]
      /\ \/ status[r] = "transferindo" /\ status'[r] = "verificando" /\ x = "ok"
         \/ status[r] # "transferindo" /\ status'[r] = status[r]
  BY <1>0, <1>3 DEF TypeOKExecucao, TypeOK
<1>5. \A q \in Repasses : PixAceitos(q)' = PixAceitos(q)
  BY <1>1 DEF PixAceitos
<1>6. Move(e) /\ exec'[e].passo = "encerrando" /\ exec'[e].resposta = x
  BY <1>0, <1>1, <1>2, <1>3, <1>4, <1>5, MoveDoAvanco
<1> QED
  BY <1>0, <1>1, <1>3, <1>4, <1>6

\* The call to the bank changes the bank and the handler alone.
LEMMA MoveDoEnviar ==
  ASSUME TypeOKExecucao, FilaCoerente, NEW e \in Execucoes, EnviarPix(e)
  PROVE  /\ Move(e) /\ UNCHANGED vars
         /\ exec[e].passo = "enviando" /\ exec'[e].passo = "respondida"
         /\ exec'[e].tentativa = exec[e].tentativa
         /\ \A q \in Repasses : PixAceitos(q)' \subseteq PixAceitos(q) \cup {exec[e].tentativa}
         /\ exec'[e].resposta \in RespostaNegativa => aceitos' = aceitos
<1> DEFINE r == RepasseDaExec(e)
<1>0. exec[e].passo = "enviando" /\ r \in Repasses
      /\ exec[e].tentativa \in 0..MaxTentativas
  BY OcupadoServe DEF EnviarPix, TypeOKExecucao
<1>1. UNCHANGED <<fila, recuperacoes, retentando, semDestino, quedas>> /\ UNCHANGED vars
  BY AvancoDoEnviar
<1>2. PICK x \in {"aceito", "rejeitado", "transitoria", "ambigua"} :
        /\ Avanca(e, "respondida", exec[e].tentativa, x)
        /\ \/ /\ x \in {"aceito", "ambigua"}
              /\ aceitos' = aceitos \cup {<<r, exec[e].tentativa>>}
           \/ x # "aceito" /\ aceitos' = aceitos
  BY AvancoDoEnviar
<1> HIDE DEF r
<1>3. /\ UNCHANGED <<status, tentativas, referencia, estorno, med>>
      /\ \A q \in Repasses : q # r => PixAceitos(q)' = PixAceitos(q)
      /\ \A q \in Repasses : PixAceitos(q)' \subseteq PixAceitos(q) \cup {exec[e].tentativa}
  <2>1. aceitos \subseteq aceitos'
    BY <1>2
  <2>2. \A q \in Repasses, m \in 1..MaxTentativas :
          <<q, m>> \in aceitos' => <<q, m>> \in aceitos \/ (q = r /\ m = exec[e].tentativa)
    BY <1>2
  <2> QED
    BY <1>0, <1>1, <2>1, <2>2 DEF vars, repasseVars, estornoVars, PixAceitos
<1> USE DEF r
<1>4. /\ Move(e) /\ exec'[e].passo = "respondida" /\ exec'[e].resposta = x
      /\ exec'[e].tentativa = exec[e].tentativa
  BY <1>0, <1>1, <1>2, <1>3, MoveDoAvanco
<1> QED
  BY <1>0, <1>1, <1>2, <1>3, <1>4 DEF RespostaNegativa

\* The answer is recorded; it is lost only where the payout is not in flight.
LEMMA MoveDoFinalizar ==
  ASSUME TypeOKExecucao, FilaCoerente, TentativaUnica, NEW e \in Execucoes, Finalizar(e)
  PROVE  /\ Move(e) /\ aceitos' = aceitos /\ tentativas' = tentativas
         /\ exec[e].passo = "respondida"
         /\ exec'[e].passo = "encerrando" /\ exec'[e].resposta \in {"ok", "erro"}
         /\ \/ /\ exec[e].resposta = "aceito" /\ exec'[e].resposta = "ok"
               /\ status'[RepasseDaExec(e)] = "enviado_ao_banco"
            \/ /\ exec[e].resposta = "ambigua" /\ exec'[e].resposta = "ok"
               /\ status'[RepasseDaExec(e)] = "verificando"
            \/ /\ exec[e].resposta \in RespostaNegativa /\ exec'[e].resposta = "ok"
               /\ status'[RepasseDaExec(e)] = "falhou"
            \/ /\ exec[e].resposta \in RespostaNegativa
               /\ exec[e].tentativa < MaxTransitorias /\ exec'[e].resposta = "erro"
               /\ status[RepasseDaExec(e)] = "transferindo"
               /\ status'[RepasseDaExec(e)] = "aprovado"
            \/ /\ status[RepasseDaExec(e)] # "transferindo"
               /\ status'[RepasseDaExec(e)] = status[RepasseDaExec(e)]
<1> DEFINE x == exec[e].resposta
           d == Desfecho(x, exec[e].tentativa)
<1>1. exec[e].passo = "respondida" /\ exec[e].tentativa \in 0..MaxTentativas
  BY DEF Finalizar, TypeOKExecucao
<1>2. PICK r \in Repasses : r = RepasseDaExec(e)
  BY <1>1, OcupadoServe
<1>3. UNCHANGED <<fila, aceitos, recuperacoes, retentando, semDestino, quedas>>
  BY AvancoDoFinalizar
<1>4. PICK y \in {"ok", "erro"} :
        /\ Avanca(e, "encerrando", exec[e].tentativa, y)
        /\ \/ d = "enviado" /\ FinalizarEnviado(r) /\ y = "ok"
           \/ d = "falhou" /\ FinalizarFalhou(r) /\ y = "ok"
           \/ d = "verificando" /\ FinalizarVerificando(r) /\ y = "ok"
           \/ d = "transitorio" /\ FinalizarTransitorio(r) /\ y = "erro"
           \/ status[r] \notin StatusQueAceita(d) /\ UNCHANGED vars
  BY <1>2 DEF Finalizar, Lancar, Retornar, Seguir, Avanca
<1>5. x \in RespostaNegativa \cup {"ambigua", "aceito"}
  BY <1>1 DEF TentativaUnica
<1>6. /\ d = "enviado" => x = "aceito"
      /\ d = "falhou" => x \in RespostaNegativa
      /\ d = "verificando" => x = "ambigua"
      /\ d = "transitorio" => x \in RespostaNegativa /\ exec[e].tentativa < MaxTransitorias
  BY <1>1, <1>5 DEF Desfecho, RespostaNegativa
<1>7. status[r] \notin StatusQueAceita(d) => status[r] # "transferindo"
  BY DEF StatusQueAceita
<1> HIDE DEF d, x
<1>8. /\ UNCHANGED <<tentativas, referencia, estorno, med>>
      /\ \A q \in Repasses : q # r => status'[q] = status[q]
      /\ \/ d = "enviado" /\ status'[r] = "enviado_ao_banco" /\ y = "ok"
         \/ d = "falhou" /\ status'[r] = "falhou" /\ y = "ok"
         \/ d = "verificando" /\ status'[r] = "verificando" /\ y = "ok"
         \/ d = "transitorio" /\ status[r] = "transferindo" /\ status'[r] = "aprovado"
            /\ y = "erro"
         \/ status[r] # "transferindo" /\ status'[r] = status[r]
  BY <1>4, <1>7 DEF FinalizarEnviado, FinalizarFalhou, FinalizarVerificando,
     FinalizarTransitorio, vars, repasseVars, estornoVars, TypeOKExecucao, TypeOK
<1>9. \A q \in Repasses : PixAceitos(q)' = PixAceitos(q)
  BY <1>3 DEF PixAceitos
<1>10. Move(e) /\ exec'[e].passo = "encerrando" /\ exec'[e].resposta = y
  BY <1>1, <1>2, <1>3, <1>4, <1>8, <1>9, MoveDoAvanco
<1> QED
  BY <1>1, <1>2, <1>3, <1>6, <1>8, <1>10 DEF x

-----------------------------------------------------------------------------
(* Everything else that happens *)

\* Ledger transactions without a job touch no handler.
LEMMA AlheioSemJob ==
  ASSUME TypeOKExecucao, PassoSemJob
  PROVE  Alheio
<1>1. UNCHANGED execVars
  BY DEF PassoSemJob
<1> QED
  BY <1>1, PassoSemJobMuda DEF TypeOKExecucao, Alheio, MesmoHandler, execVars, RepasseDaExec

\* An admin's step touches no handler: its job was not in use.
LEMMA AlheioDoAdmin ==
  ASSUME TypeOKExecucao, FilaCoerente, NEW r \in Repasses, NEW j \in Jobs, PassoDoAdmin(r, j)
  PROVE  Alheio
<1>1. /\ UNCHANGED <<exec, aceitos>> /\ tentativas' = tentativas
      /\ \E o \in {"aprovacao", "recuperacao", "retentativa"} : Enfileirar(j, r, o)
  BY DEF PassoDoAdmin, AprovarEEnfileirar, ReenviarEEnfileirar, RecuperarEEnfileirar, Retentar,
     AprovarRepassePix, ReenviarContaPeloInter, RecuperarRepasse, vars, repasseVars
<1>2. \A i \in Jobs : fila[i].estado # "livre" => fila'[i].repasse = fila[i].repasse
  BY <1>1 DEF Enfileirar, TypeOKExecucao
<1>3. \A f \in Execucoes : MesmoHandler(f)
  BY <1>1, <1>2, JobsGuardamRepasse DEF MesmoHandler
<1>4. \A q \in Repasses :
        \/ PassoSemHandler(status[q], status'[q])
        \/ /\ status[q] = "verificando" /\ status'[q] = "aprovado"
           /\ "confere" \in Ambiente => PixAceitos(q) = {}
  <2>1. CASE AprovarEEnfileirar(r, j) \/ ReenviarEEnfileirar(r, j)
    BY <2>1 DEF AprovarEEnfileirar, ReenviarEEnfileirar, AprovarRepassePix, ReenviarContaPeloInter,
       PassoSemHandler, TypeOKExecucao, TypeOK
  <2>2. CASE RecuperarEEnfileirar(r, j)
    BY <2>2 DEF RecuperarEEnfileirar, RecuperarRepasse, PassoSemHandler, PixAceitos,
       TypeOKExecucao, TypeOK
  <2>3. CASE Retentar(r, j)
    BY <2>3 DEF Retentar, vars, repasseVars, PassoSemHandler
  <2> QED
    BY <2>1, <2>2, <2>3 DEF PassoDoAdmin
<1> QED
  BY <1>1, <1>3, <1>4 DEF Alheio

\* Nor do the queue's steps, but for the handler they start or end.
LEMMA AlheioDaFila ==
  ASSUME TypeOKExecucao, FilaCoerente,
         \/ UNCHANGED todas
         \/ \E r \in Repasses : LerParaRetentar(r) \/ MudarDestino(r)
         \/ \E j \in Jobs : ExpirarJob(j)
         \/ \E e \in Execucoes, j \in Jobs : Buscar(e, j)
         \/ \E e \in Execucoes : Encerrar(e) \/ Morrer(e)
  PROVE  Alheio
<1>1. UNCHANGED <<vars, aceitos>>
  BY DEF LerParaRetentar, MudarDestino, ExpirarJob, Buscar, Encerrar, Morrer, todas, execVars
<1>2. UNCHANGED <<status, tentativas>>
  BY <1>1 DEF vars, repasseVars
<1>3. \A i \in Jobs : fila'[i].repasse = fila[i].repasse
  <2>1. CASE \/ UNCHANGED todas
             \/ \E r \in Repasses : LerParaRetentar(r) \/ MudarDestino(r)
    BY <2>1 DEF todas, execVars, LerParaRetentar, MudarDestino
  <2>2. ASSUME NEW j \in Jobs, ExpirarJob(j)
        PROVE  \A i \in Jobs : fila'[i].repasse = fila[i].repasse
    BY <2>2 DEF ExpirarJob, TypeOKExecucao
  <2>3. ASSUME NEW e \in Execucoes, NEW j \in Jobs, Buscar(e, j)
        PROVE  \A i \in Jobs : fila'[i].repasse = fila[i].repasse
    BY <2>3 DEF Buscar, TypeOKExecucao
  <2>4. ASSUME NEW e \in Execucoes, Encerrar(e) \/ Morrer(e)
        PROVE  \A i \in Jobs : fila'[i].repasse = fila[i].repasse
    BY <2>4 DEF Encerrar, Morrer, TypeOKExecucao
  <2> QED
    BY <2>1, <2>2, <2>3, <2>4
<1>4. \A f \in Execucoes :
        \/ /\ exec'[f].passo = exec[f].passo /\ exec'[f].job = exec[f].job
           /\ exec'[f].tentativa = exec[f].tentativa /\ exec'[f].resposta = exec[f].resposta
        \/ exec[f].passo = "ociosa" /\ exec'[f].passo = "iniciando"
        \/ exec'[f].passo = "ociosa"
  <2>1. CASE \/ UNCHANGED todas
             \/ \E r \in Repasses : LerParaRetentar(r) \/ MudarDestino(r)
    BY <2>1 DEF todas, execVars, LerParaRetentar, MudarDestino
  <2>2. CASE \E j \in Jobs : ExpirarJob(j)
    <3>1. PICK j \in Jobs : ExpirarJob(j)
      BY <2>2
    <3>2. \A f \in Execucoes : /\ exec'[f].passo = exec[f].passo
                               /\ exec'[f].tentativa = exec[f].tentativa
                               /\ exec'[f].resposta = exec[f].resposta
                               /\ exec'[f].job = exec[f].job
      BY <3>1 DEF ExpirarJob, TypeOKExecucao
    <3> QED
      BY <3>2
  <2>3. ASSUME NEW e \in Execucoes, NEW j \in Jobs, Buscar(e, j)
        PROVE  /\ exec[e].passo = "ociosa" /\ exec'[e].passo = "iniciando"
               /\ \A f \in Execucoes : f # e => exec'[f] = exec[f]
    BY <2>3 DEF Buscar, TypeOKExecucao, Ociosa
  <2>4. ASSUME NEW e \in Execucoes, Encerrar(e) \/ Morrer(e)
        PROVE  exec'[e].passo = "ociosa" /\ \A f \in Execucoes : f # e => exec'[f] = exec[f]
    BY <2>4 DEF Encerrar, Morrer, TypeOKExecucao, Ociosa
  <2> QED
    BY <2>1, <2>2, <2>3, <2>4
<1>5. \A f \in Execucoes :
        \/ MesmoHandler(f)
        \/ exec[f].passo = "ociosa" /\ exec'[f].passo = "iniciando"
        \/ exec'[f].passo = "ociosa"
  BY <1>3, <1>4, JobsGuardamRepasse DEF MesmoHandler
<1> QED
  BY <1>1, <1>2, <1>5 DEF Alheio, PassoSemHandler

\* A step is a handler's own, or it is alien to every handler at work.
LEMMA PassoDeQuem ==
  ASSUME TypeOKExecucao, FilaCoerente, [NextExecucao]_todas
  PROVE  Alheio \/ \E e \in Execucoes : PassoProprio(e)
  BY AlheioSemJob, AlheioDoAdmin, AlheioDaFila DEF NextExecucao, PassoDoHandler, PassoProprio

-----------------------------------------------------------------------------
(* The attempt in hand is the last word *)

\* Under UmPorVez no other handler has anything to do with e's payout.
LEMMA SoUm ==
  ASSUME UmPorVez, NEW e \in Execucoes, exec[e].passo # "ociosa",
         NEW f \in Execucoes, f # e, exec[f].passo # "ociosa"
  PROVE  RepasseDaExec(f) # RepasseDaExec(e)
  BY DEF UmPorVez

\* What holds of the other handlers, and of their payouts, still holds.
LEMMA OutrosHandlers ==
  ASSUME FilaCoerente, UmPorVez, NEW e \in Execucoes, Move(e),
         NEW f \in Execucoes, f # e, exec'[f].passo # "ociosa"
  PROVE  /\ exec'[f] = exec[f] /\ RepasseDaExec(f)' = RepasseDaExec(f)
         /\ status'[RepasseDaExec(f)] = status[RepasseDaExec(f)]
         /\ tentativas'[RepasseDaExec(f)] = tentativas[RepasseDaExec(f)]
         /\ \A q \in Repasses : q = RepasseDaExec(f) => PixAceitos(q)' = PixAceitos(q)
<1>1. exec'[f] = exec[f] /\ exec[e].passo # "ociosa"
  BY DEF Move
<1>2. RepasseDaExec(f) # RepasseDaExec(e) /\ RepasseDaExec(f) \in Repasses
  BY <1>1, SoUm, OcupadoServe
<1> QED
  BY <1>1, <1>2 DEF Move

\* Every step keeps the attempt in hand current.
LEMMA TentativaCorrenteMantida ==
  ASSUME InvarianteExecucao, TentativaCorrente, UmPorVez, [NextExecucao]_todas
  PROVE  TentativaCorrente'
<1> USE DEF InvarianteExecucao
<1>1. CASE Alheio
  <2> SUFFICES ASSUME NEW f \in Execucoes
               PROVE  /\ EmCurso(f)' =>
                           /\ status'[RepasseDaExec(f)'] = "transferindo"
                           /\ exec'[f].tentativa = tentativas'[RepasseDaExec(f)']
                      /\ exec'[f].passo = "reconciliando" =>
                           status'[RepasseDaExec(f)'] = "transferindo"
    BY DEF TentativaCorrente
  <2>1. CASE exec'[f].passo \in {"ociosa", "iniciando"}
    BY <2>1 DEF EmCurso
  <2>2. CASE MesmoHandler(f) /\ exec'[f].passo # "ociosa"
    <3>1. PICK q \in Repasses : q = RepasseDaExec(f)
      BY <2>2, OcupadoServe DEF MesmoHandler
    <3>2. status[q] = "transferindo" => status'[q] = "transferindo"
      BY <1>1 DEF Alheio, PassoSemHandler
    <3> QED
      BY <1>1, <2>2, <3>1, <3>2 DEF Alheio, MesmoHandler, EmCurso, TentativaCorrente
  <2> QED
    BY <1>1, <2>1, <2>2 DEF Alheio
<1>2. ASSUME NEW e \in Execucoes, PassoProprio(e)
      PROVE  TentativaCorrente'
  <2>1. Move(e)
    BY <1>2, MoveDoIniciar, MoveDoReconciliar, MoveDoEnviar, MoveDoFinalizar DEF PassoProprio
  <2>2. \A f \in Execucoes : f # e =>
          /\ EmCurso(f)' =>
               /\ status'[RepasseDaExec(f)'] = "transferindo"
               /\ exec'[f].tentativa = tentativas'[RepasseDaExec(f)']
          /\ exec'[f].passo = "reconciliando" => status'[RepasseDaExec(f)'] = "transferindo"
    BY <2>1, OutrosHandlers DEF EmCurso, TentativaCorrente
  <2>3. PICK r \in Repasses : r = RepasseDaExec(e) /\ r = RepasseDaExec(e)'
    BY <2>1 DEF Move
  <2>4. /\ EmCurso(e)' => status'[r] = "transferindo" /\ exec'[e].tentativa = tentativas'[r]
        /\ exec'[e].passo = "reconciliando" => status'[r] = "transferindo"
    <3>1. CASE Iniciar(e)
      BY <2>3, <3>1, MoveDoIniciar DEF EmCurso, vars, repasseVars
    <3>2. CASE Reconciliar(e) \/ Finalizar(e)
      BY <3>2, MoveDoReconciliar, MoveDoFinalizar DEF EmCurso
    <3>3. CASE EnviarPix(e)
      BY <2>3, <3>3, MoveDoEnviar DEF EmCurso, TentativaCorrente, vars, repasseVars
    <3> QED
      BY <1>2, <3>1, <3>2, <3>3 DEF PassoProprio
  <2> QED
    BY <2>2, <2>3, <2>4 DEF TentativaCorrente
<1> QED
  BY <1>1, <1>2, PassoDeQuem

-----------------------------------------------------------------------------
(* No payment without its answer *)

\* While an attempt is in hand nothing of the payout was accepted; nor was it
\* once the ledger says that no money is moving; and it is accepted once.
Dinheiro ==
  /\ \A e \in Execucoes : EmAberto(e) => PixAceitos(RepasseDaExec(e)) = {}
  /\ \A r \in Repasses : status[r] \notin BLOCKING_REPASSE_STATUSES => PixAceitos(r) = {}
  /\ \A r \in Repasses : \A m, n \in PixAceitos(r) : m = n

\* Steps that are no handler's keep what is known of the money.
LEMMA DinheiroAlheio ==
  ASSUME InvarianteExecucao, Dinheiro, Alheio, "confere" \in Ambiente
  PROVE  Dinheiro'
<1> USE DEF InvarianteExecucao
<1>1. \A q \in Repasses : PixAceitos(q)' = PixAceitos(q)
  BY DEF Alheio, PixAceitos
<1>2. ASSUME NEW f \in Execucoes, EmAberto(f)'
      PROVE  PixAceitos(RepasseDaExec(f))' = {}
  <2>1. MesmoHandler(f) /\ exec[f].passo # "ociosa"
    BY <1>2 DEF EmAberto, Alheio, MesmoHandler
  <2>2. PICK q \in Repasses : q = RepasseDaExec(f) /\ q = RepasseDaExec(f)'
    BY <2>1, OcupadoServe DEF MesmoHandler
  <2>3. EmAberto(f)
    BY <1>2, <2>1 DEF EmAberto, MesmoHandler
  <2>4. PixAceitos(q) = {}
    BY <2>2, <2>3 DEF Dinheiro
  <2> QED
    BY <1>1, <2>2, <2>4
<1>3. ASSUME NEW q \in Repasses, status'[q] \notin BLOCKING_REPASSE_STATUSES
      PROVE  PixAceitos(q) = {}
  <2>1. \/ status[q] \notin BLOCKING_REPASSE_STATUSES
        \/ PixAceitos(q) = {}
    BY <1>3 DEF Alheio, PassoSemHandler, BLOCKING_REPASSE_STATUSES
  <2> QED
    BY <2>1 DEF Dinheiro
<1> QED
  BY <1>1, <1>2, <1>3 DEF Dinheiro

\* So do the handlers' own.
LEMMA DinheiroMantido ==
  ASSUME InvarianteExecucao, TentativaCorrente, Dinheiro, UmPorVez,
         "confere" \in Ambiente, [NextExecucao]_todas
  PROVE  Dinheiro'
<1> USE DEF InvarianteExecucao
<1>1. ASSUME NEW e \in Execucoes, PassoProprio(e)
      PROVE  Dinheiro'
  <2>1. Move(e)
    BY <1>1, MoveDoIniciar, MoveDoReconciliar, MoveDoEnviar, MoveDoFinalizar DEF PassoProprio
  <2>2. PICK r \in Repasses : r = RepasseDaExec(e) /\ r = RepasseDaExec(e)'
    BY <2>1 DEF Move
  <2>3. ASSUME NEW f \in Execucoes, f # e, EmAberto(f)'
        PROVE  PixAceitos(RepasseDaExec(f))' = {}
    <3>1. exec'[f] = exec[f] /\ EmAberto(f) /\ exec[f].passo # "ociosa"
      BY <2>1, <2>3 DEF Move, EmAberto
    <3>2. PICK q \in Repasses : q = RepasseDaExec(f) /\ q = RepasseDaExec(f)'
      BY <2>1, <3>1, OcupadoServe DEF Move
    <3>3. PixAceitos(q) = {} /\ PixAceitos(q)' = PixAceitos(q)
      BY <2>1, <2>3, <3>1, <3>2, OutrosHandlers DEF Dinheiro, EmAberto
    <3> QED
      BY <3>2, <3>3
  <2>4. \A q \in Repasses : q # r => status'[q] = status[q] /\ PixAceitos(q)' = PixAceitos(q)
    BY <2>1, <2>2 DEF Move
  <2>5. /\ EmAberto(e)' => PixAceitos(r)' = {}
        /\ status'[r] \notin BLOCKING_REPASSE_STATUSES => PixAceitos(r)' = {}
        /\ \A m, n \in PixAceitos(r)' : m = n
    <3>1. CASE Iniciar(e)
      <4>1. PixAceitos(r)' = PixAceitos(r)
        BY <3>1, MoveDoIniciar DEF PixAceitos
      <4>2. \/ status'[r] = status[r] /\ ~EmAberto(e)'
            \/ status[r] \notin BLOCKING_REPASSE_STATUSES
        BY <2>2, <3>1, MoveDoIniciar
        DEF EmAberto, BLOCKING_REPASSE_STATUSES, vars, repasseVars
      <4> QED
        BY <4>1, <4>2 DEF Dinheiro
    <3>2. CASE Reconciliar(e)
      <4>1. PixAceitos(r)' = PixAceitos(r)
        BY <3>2, MoveDoReconciliar DEF PixAceitos
      <4>2. /\ ~EmAberto(e)'
            /\ status'[r] = status[r] \/ status'[r] \in BLOCKING_REPASSE_STATUSES
        BY <2>2, <3>2, MoveDoReconciliar DEF EmAberto, BLOCKING_REPASSE_STATUSES
      <4> QED
        BY <4>1, <4>2 DEF Dinheiro
    <3>3. CASE EnviarPix(e)
      <4>1. PixAceitos(r) = {} /\ PixAceitos(r)' \subseteq {exec[e].tentativa}
        BY <2>2, <3>3, MoveDoEnviar DEF Dinheiro, EmAberto
      <4>2. EmAberto(e)' => PixAceitos(r)' = PixAceitos(r)
        BY <3>3, MoveDoEnviar DEF EmAberto, PixAceitos
      <4>3. status'[r] \in BLOCKING_REPASSE_STATUSES
        BY <2>2, <3>3, MoveDoEnviar
        DEF TentativaCorrente, EmCurso, BLOCKING_REPASSE_STATUSES, vars, repasseVars
      <4> QED
        BY <4>1, <4>2, <4>3
    <3>4. CASE Finalizar(e)
      <4>1. PixAceitos(r)' = PixAceitos(r)
        BY <3>4, MoveDoFinalizar DEF PixAceitos
      <4>2. /\ ~EmAberto(e)'
            /\ \/ status'[r] = status[r] \/ status'[r] \in BLOCKING_REPASSE_STATUSES
               \/ EmAberto(e)
        BY <2>2, <3>4, MoveDoFinalizar DEF EmAberto, BLOCKING_REPASSE_STATUSES
      <4>3. EmAberto(e) => PixAceitos(r) = {}
        BY <2>2 DEF Dinheiro
      <4> QED
        BY <4>1, <4>2, <4>3 DEF Dinheiro
    <3> QED
      BY <1>1, <3>1, <3>2, <3>3, <3>4 DEF PassoProprio
  <2> QED
    <3>1. \A f \in Execucoes : EmAberto(f)' => PixAceitos(RepasseDaExec(f))' = {}
      BY <2>2, <2>3, <2>5
    <3>2. \A q \in Repasses :
            /\ status'[q] \notin BLOCKING_REPASSE_STATUSES => PixAceitos(q)' = {}
            /\ \A m, n \in PixAceitos(q)' : m = n
      BY <2>4, <2>5 DEF Dinheiro
    <3> QED
      BY <3>1, <3>2 DEF Dinheiro
<1> QED
  BY <1>1, DinheiroAlheio, PassoDeQuem

-----------------------------------------------------------------------------
(* What holds of the money when handlers do not overlap *)

\* The initial states: nobody works and the bank holds nothing.
LEMMA TentativaEDinheiroIniciais ==
  ASSUME InitExecucao
  PROVE  TentativaCorrente /\ Dinheiro
<1>1. /\ \A e \in Execucoes : exec[e].passo = "ociosa"
      /\ \A r \in Repasses : PixAceitos(r) = {}
  BY DEF InitExecucao, Ociosa, PixAceitos
<1> QED
  BY <1>1 DEF TentativaCorrente, Dinheiro, EmCurso, EmAberto

\* Without overlap, a handler with an attempt in hand is the last word on its
\* payout: nothing it read before calling the bank is stale when it records the
\* answer (executar-transferencia-repasse.ts).
THEOREM TentativaNuncaVencida ==
  SpecExecucao /\ []UmPorVez => []TentativaCorrente
<1>1. InitExecucao => TentativaCorrente
  BY TentativaEDinheiroIniciais
<1> QED
  BY <1>1, TentativaCorrenteMantida, InvarianteExecucaoCorreto, PTL DEF SpecExecucao

\* What is known of the money, in every behaviour without overlap.
LEMMA DinheiroCorreto ==
  ASSUME "confere" \in Ambiente
  PROVE  SpecExecucao /\ []UmPorVez => []Dinheiro
<1>1. InitExecucao => Dinheiro
  BY TentativaEDinheiroIniciais
<1>2. ASSUME InvarianteExecucao, TentativaCorrente, Dinheiro, UmPorVez, [NextExecucao]_todas
      PROVE  Dinheiro'
  BY <1>2, DinheiroMantido
<1> QED
  BY <1>1, <1>2, TentativaNuncaVencida, InvarianteExecucaoCorreto, PTL DEF SpecExecucao

\* falhou does mean "confirmed no-money-moved" (repasse-recebedor.ts) as long as
\* handlers do not overlap and an admin recovers only a payout of which the bank
\* took nothing.
THEOREM FalhouSeguroSemSobreposicao ==
  ASSUME "confere" \in Ambiente
  PROVE  SpecExecucao /\ []UmPorVez => []FalhouSemDinheiro
<1>1. Dinheiro => FalhouSemDinheiro
  BY DEF Dinheiro, FalhouSemDinheiro, BLOCKING_REPASSE_STATUSES
<1> QED
  BY <1>1, DinheiroCorreto, PTL

\* "At most one successful PIX per repasse" (executar-transferencia-repasse.ts),
\* with no allowance for recoveries, under the same two conditions.
UmPixPorRepasse == \A r \in Repasses : Cardinality(PixAceitos(r)) <= 1

\* A handler sends only while the bank holds nothing, and holds what it sent.
THEOREM UmPixSemSobreposicao ==
  ASSUME "confere" \in Ambiente
  PROVE  SpecExecucao /\ []UmPorVez => []UmPixPorRepasse
<1>1. ASSUME Dinheiro PROVE UmPixPorRepasse
  <2> SUFFICES ASSUME NEW r \in Repasses PROVE Cardinality(PixAceitos(r)) <= 1
    BY DEF UmPixPorRepasse
  <2>1. CASE PixAceitos(r) = {}
    BY <2>1, FS_EmptySet
  <2>2. CASE PixAceitos(r) # {}
    <3>1. PICK n \in PixAceitos(r) : TRUE
      BY <2>2
    <3>2. \A m \in PixAceitos(r) : m = n
      BY <1>1, <3>1 DEF Dinheiro
    <3>3. PixAceitos(r) = {n}
      BY <3>1, <3>2
    <3>4. Cardinality({n}) = 1
      BY FS_Singleton
    <3> QED
      BY <3>3, <3>4
  <2> QED
    BY <2>1, <2>2
<1> QED
  BY <1>1, DinheiroCorreto, PTL

\* The money Banco Inter took for the receiver is never refunded to the
\* contributor, recovered payouts included, under the same two conditions
\* (payment-money-movement-lock.postgres.ts).
EstornoNuncaComPix ==
  \A r \in Repasses : PixAceitos(r) # {} =>
     \A l \in lote[r] : estorno[PagamentoDe[l]] \notin EstornoSemConflito

\* The lock that admits a refund and the one that starts an attempt exclude each
\* other, and an attempt in hand is current.
THEOREM EstornoPoupaPixSemSobreposicao ==
  ASSUME "confere" \in Ambiente
  PROVE  SpecExecucao /\ []UmPorVez => []EstornoNuncaComPix
<1>1. ASSUME Dinheiro, Invariante PROVE EstornoNuncaComPix
  <2> SUFFICES ASSUME NEW r \in Repasses, PixAceitos(r) # {}, NEW l \in lote[r]
               PROVE  estorno[PagamentoDe[l]] \notin EstornoSemConflito
    BY DEF EstornoNuncaComPix
  <2>1. status[r] \in BLOCKING_REPASSE_STATUSES
    BY <1>1 DEF Dinheiro
  <2>2. repasseDe[l] = r
    BY <1>1, <2>1 DEF Invariante, LoteLigado, BLOCKING_REPASSE_STATUSES
  <2>3. l \in Lancamentos /\ PagamentoDe[l] \in Pagamentos
    BY <1>1 DEF Invariante, TypeOK
  <2>4. Movimentado(PagamentoDe[l])
    BY <2>1, <2>2, <2>3 DEF Movimentado, EmMovimento, LinhasDoPagamento
  <2> QED
    BY <1>1, <2>3, <2>4 DEF Invariante, EstornoExcluiSaida
<1> QED
  BY <1>1, DinheiroCorreto, ExecucaoImplementaLivro, InvarianteCorreto, PTL

-----------------------------------------------------------------------------
(* No approved payout is left with a dead job *)

\* Where no payment is refunded or disputed, every payout somebody may still ask
\* the worker for has a reference, so that no claim of it is refused.
PorPix ==
  /\ \A p \in Pagamentos : estorno[p] = "nenhum" /\ med[p] = "nenhuma"
  /\ \A r \in referencia : status[r] \notin {"inexistente", "solicitado"}
  /\ retentando \subseteq referencia
  /\ \A j \in Jobs : fila[j].estado # "livre" => fila[j].repasse \in referencia
  /\ \A r \in Repasses :
        status[r] \in {"transferindo", "verificando", "enviado_ao_banco", "falhou"}
            => r \in referencia

\* Outside the estornos environment no refund or dispute moves.
LEMMA SemJobSemEstorno ==
  ASSUME PassoSemJob, "estornos" \notin Ambiente
  PROVE  UNCHANGED <<estorno, med>>
  BY DEF PassoSemJob, PreflightSolicitar, SolicitarRepasse, AprovarRepasse, CancelarRepasse,
     ResolverManualPago, LiberarSaldo, estornoVars

\* A claim that finds an approved or failed payout is never refused.
LEMMA PorPixNaoRecusa ==
  ASSUME TypeOKExecucao, PorPix, NEW r \in referencia
  PROVE  AcaoIniciar(r) # "erro"
<1>1. PagamentosDoRepasse(r) \subseteq Pagamentos
  BY DEF PagamentosDoRepasse, LinhasDe
<1>2. TransferenciaPermitida(PagamentosDoRepasse(r)) /\ MedPermite(PagamentosDoRepasse(r))
  BY <1>1 DEF TransferenciaPermitida, MedPermite, EstornoAtivo, MedAtivo, EstornoBloqueante,
     StatusOperacaoStripe, PorPix
<1>3. status[r] \in StatusRepasse \ {"solicitado"}
  BY DEF PorPix, TypeOKExecucao, TypeOK
<1> QED
  BY <1>2, <1>3 DEF AcaoIniciar, StatusRepasse

\* Queueing a job for a payout that is to be paid by PIX.
LEMMA PorPixDoEnfileirar ==
  ASSUME TypeOKExecucao, FilaCoerente, PorPix, NEW r \in Repasses, NEW j \in Jobs,
         NEW o \in {"aprovacao", "recuperacao", "retentativa"}, Enfileirar(j, r, o),
         r \in referencia', referencia' \subseteq referencia \cup {r},
         referencia \subseteq referencia',
         retentando' \subseteq retentando, UNCHANGED <<estorno, med>>,
         status'[r] \notin {"inexistente", "solicitado"},
         \A q \in Repasses : q # r => status'[q] = status[q]
  PROVE  PorPix'
<1>1. \A i \in Jobs : i # j => fila'[i] = fila[i]
  BY DEF Enfileirar, TypeOKExecucao
<1>2. fila'[j].repasse = r
  BY DEF Enfileirar, TypeOKExecucao
<1>3. referencia \subseteq Repasses
  BY DEF TypeOKExecucao, TypeOK
<1> QED
  BY <1>1, <1>2, <1>3 DEF PorPix

\* Every step keeps what is known of the payouts paid by PIX.
LEMMA PorPixMantido ==
  ASSUME InvarianteExecucao, PorPix, "estornos" \notin Ambiente, [NextExecucao]_todas
  PROVE  PorPix'
<1> USE DEF InvarianteExecucao
<1>0. referencia \subseteq Repasses
  BY DEF TypeOKExecucao, TypeOK
<1>1. CASE PassoSemJob
  <2>1. /\ UNCHANGED <<estorno, med, referencia, retentando, fila>>
        /\ \A q \in Repasses : PassoSemHandler(status[q], status'[q])
    BY <1>1, SemJobSemEstorno, PassoSemJobMuda DEF PassoSemJob, execVars, TypeOKExecucao
  <2> QED
    BY <1>0, <2>1 DEF PorPix, PassoSemHandler
<1>2. ASSUME NEW r \in Repasses, NEW j \in Jobs, PassoDoAdmin(r, j)
      PROVE  PorPix'
  <2>1. CASE AprovarEEnfileirar(r, j) \/ ReenviarEEnfileirar(r, j)
    <3>1. /\ Enfileirar(j, r, "aprovacao") /\ retentando' = retentando
          /\ referencia' = referencia \cup {r} /\ UNCHANGED <<estorno, med>>
          /\ status'[r] = "aprovado"
          /\ \A q \in Repasses : q # r => status'[q] = status[q]
      BY <2>1 DEF AprovarEEnfileirar, ReenviarEEnfileirar, AprovarRepassePix, ReenviarContaPeloInter, estornoVars,
         TypeOKExecucao, TypeOK
    <3> QED
      BY <3>1, PorPixDoEnfileirar
  <2>2. CASE RecuperarEEnfileirar(r, j)
    <3>1. /\ Enfileirar(j, r, "recuperacao") /\ retentando' = retentando
          /\ referencia' = referencia /\ UNCHANGED <<estorno, med>>
          /\ status[r] = "verificando" /\ status'[r] = "aprovado"
          /\ \A q \in Repasses : q # r => status'[q] = status[q]
      BY <2>2 DEF RecuperarEEnfileirar, RecuperarRepasse, estornoVars, TypeOKExecucao, TypeOK
    <3>2. r \in referencia
      BY <3>1 DEF PorPix
    <3> QED
      BY <3>1, <3>2, PorPixDoEnfileirar
  <2>3. CASE Retentar(r, j)
    <3>1. /\ Enfileirar(j, r, "retentativa") /\ retentando' = retentando \ {r}
          /\ r \in retentando /\ UNCHANGED <<status, referencia, estorno, med>>
      BY <2>3 DEF Retentar, vars, repasseVars, estornoVars
    <3>2. r \in referencia /\ status[r] \notin {"inexistente", "solicitado"}
      BY <3>1 DEF PorPix
    <3> QED
      BY <3>1, <3>2, PorPixDoEnfileirar
  <2> QED
    BY <1>2, <2>1, <2>2, <2>3 DEF PassoDoAdmin
<1>3. CASE \/ UNCHANGED todas
           \/ \E r \in Repasses : LerParaRetentar(r) \/ MudarDestino(r)
  <2>1. /\ UNCHANGED <<fila, status, referencia, estorno, med>>
        /\ \A r \in retentando' : r \in retentando \/ (r \in Repasses /\ status[r] = "falhou")
    BY <1>3 DEF todas, execVars, LerParaRetentar, MudarDestino, vars, repasseVars, estornoVars
  <2> QED
    BY <2>1 DEF PorPix
<1>4. CASE \/ \E j \in Jobs : ExpirarJob(j)
           \/ \E e \in Execucoes, j \in Jobs : Buscar(e, j)
           \/ \E e \in Execucoes : Encerrar(e) \/ Morrer(e)
  <2>1. UNCHANGED <<status, referencia, estorno, med, retentando>>
    BY <1>4 DEF ExpirarJob, Buscar, Encerrar, Morrer, vars, repasseVars, estornoVars
  <2>2. \A i \in Jobs : /\ fila'[i].repasse = fila[i].repasse
                        /\ fila'[i].estado # "livre" => fila[i].estado # "livre"
    <3>1. ASSUME NEW j \in Jobs, ExpirarJob(j)
          PROVE  /\ fila[j].estado = "ativo"
                 /\ \A i \in Jobs : /\ fila'[i].repasse = fila[i].repasse
                                    /\ i # j => fila'[i].estado = fila[i].estado
      BY <3>1 DEF ExpirarJob, TypeOKExecucao
    <3>2. ASSUME NEW e \in Execucoes, NEW j \in Jobs, Buscar(e, j)
          PROVE  /\ fila[j].estado = "pronto"
                 /\ \A i \in Jobs : /\ fila'[i].repasse = fila[i].repasse
                                    /\ i # j => fila'[i].estado = fila[i].estado
      BY <3>2 DEF Buscar, TypeOKExecucao
    <3>3. ASSUME NEW e \in Execucoes, Encerrar(e) \/ Morrer(e)
          PROVE  \A i \in Jobs : /\ fila'[i].repasse = fila[i].repasse
                                 /\ i # exec[e].job => fila'[i].estado = fila[i].estado
      BY <3>3 DEF Encerrar, Morrer, TypeOKExecucao
    <3>4. ASSUME NEW e \in Execucoes, Encerrar(e) \/ Morrer(e)
          PROVE  fila[exec[e].job].estado # "livre"
      BY <3>4, OcupadoServe DEF Encerrar, Morrer
    <3> QED
      BY <1>4, <3>1, <3>2, <3>3, <3>4
  <2> QED
    BY <2>1, <2>2 DEF PorPix
<1>5. ASSUME NEW e \in Execucoes, PassoProprio(e)
      PROVE  PorPix'
  <2>1. Move(e)
    BY <1>5, MoveDoIniciar, MoveDoReconciliar, MoveDoEnviar, MoveDoFinalizar DEF PassoProprio
  <2>2. PICK r \in Repasses : r = RepasseDaExec(e)
    BY <2>1 DEF Move
  <2>3. r \in referencia
    BY <2>1, <2>2, OcupadoServe DEF Move, PorPix, RepasseDaExec
  <2>4. status'[r] = status[r] \/ status'[r] \notin {"inexistente", "solicitado"}
    <3>1. CASE Iniciar(e)
      BY <2>2, <3>1, MoveDoIniciar DEF vars, repasseVars
    <3>2. CASE Reconciliar(e)
      BY <2>2, <3>2, MoveDoReconciliar
    <3>3. CASE EnviarPix(e)
      BY <3>3, MoveDoEnviar DEF vars, repasseVars
    <3>4. CASE Finalizar(e)
      BY <2>2, <3>4, MoveDoFinalizar
    <3> QED
      BY <1>5, <3>1, <3>2, <3>3, <3>4 DEF PassoProprio
  <2> QED
    BY <1>0, <2>1, <2>2, <2>3, <2>4 DEF Move, PorPix
<1> QED
  BY <1>1, <1>2, <1>3, <1>4, <1>5 DEF NextExecucao, PassoDoHandler, PassoProprio

\* A handler at work on the job, which pg-boss still holds it responsible for.
Cuida(e, j) == exec[e].passo # "ociosa" /\ exec[e].job = j /\ exec[e].dona
Viva(j) == fila[j].estado \in {"pronto", "ativo"}

\* A delivery of the job that has not failed yet.
EmEntrega(j) ==
  \E e \in Execucoes :
     Cuida(e, j) /\ ~(exec[e].passo = "encerrando" /\ exec[e].resposta = "erro")
NaMao(j) == IF EmEntrega(j) THEN 1 ELSE 0

\* Attempts of the payout that ended, as far as they may have cost a delivery:
\* from MAX_TENTATIVAS_TRANSITORIAS on, an attempt that fails ends the job.
Gastos(r) ==
  LET n == tentativas[r] - Um(r, {"transferindo"})
  IN  IF n < MaxTransitorias THEN n ELSE MaxTransitorias - 1

\* A handler that still owns its job holds it active, one that does not left it
\* to be delivered again; no job dies; each of its deliveries was spent on a
\* transient answer, on a crash or is under way; and an approved payout has a job
\* that is not about to be completed.
PosseCoerente ==
  \A e \in Execucoes : exec[e].passo # "ociosa" =>
     /\ fila[exec[e].job].estado = IF exec[e].dona THEN "ativo" ELSE "pronto"
     /\ exec[e].passo = "encerrando" => exec[e].resposta \in {"ok", "erro"}
NenhumMorto == \A j \in Jobs : fila[j].estado # "morto"
Paga(j) == fila[j].entregas <= Gastos(fila[j].repasse) + quedas + NaMao(j)
EntregasPagas == \A j \in Jobs : Viva(j) => Paga(j)
JobServe(j, r) ==
  /\ fila[j].repasse = r /\ Viva(j)
  /\ \A e \in Execucoes : Cuida(e, j) =>
        ~(exec[e].passo = "encerrando" /\ exec[e].resposta = "ok")
AprovadoComJob ==
  \A r \in referencia : status[r] = "aprovado" => \E j \in Jobs : JobServe(j, r)

FilaViva == PosseCoerente /\ NenhumMorto /\ EntregasPagas /\ AprovadoComJob

\* Transient answers and crashes together fit in the retries of a job.
Margem == MaxTransitorias - 1 + MaxQuedas <= RetryLimit

\* What attempts may have cost is bounded.
LEMMA GastosLimitados ==
  ASSUME TypeOKExecucao, RecuperacoesContadas, NEW r \in Repasses
  PROVE  Gastos(r) \in 0..(MaxTransitorias - 1)
<1>1. tentativas[r] \in Nat /\ recuperacoes[r] \in Nat
  BY DEF TypeOKExecucao, TypeOK
<1>2. status[r] = "transferindo" => tentativas[r] >= 1
  BY <1>1 DEF RecuperacoesContadas, Um
<1> QED
  BY <1>1, <1>2 DEF Gastos, Um

\* The same after the step.
LEMMA GastosLimitadosDepois ==
  ASSUME TypeOKExecucao', RecuperacoesContadas', NEW r \in Repasses
  PROVE  Gastos(r)' \in 0..(MaxTransitorias - 1)
<1>1. tentativas'[r] \in Nat /\ recuperacoes'[r] \in Nat
  BY DEF TypeOKExecucao, TypeOK
<1>2. status'[r] = "transferindo" => tentativas'[r] >= 1
  BY <1>1 DEF RecuperacoesContadas, Um
<1> QED
  BY <1>1, <1>2 DEF Gastos, Um

\* No other handler is on the job of a handler at work.
LEMMA SoNoJob ==
  ASSUME UmPorVez, NEW e \in Execucoes, exec[e].passo # "ociosa",
         NEW f \in Execucoes, f # e, exec[f].passo # "ociosa"
  PROVE  exec[f].job # exec[e].job
  BY SoUm DEF RepasseDaExec

\* A delivery that fails leaves a retry: the job goes back to the queue.
LEMMA FalhaVolta ==
  ASSUME InvarianteExecucao, PorPix, EntregasPagas, Margem, NEW j \in Jobs, Viva(j),
         quedas + NaMao(j) <= MaxQuedas
  PROVE  DepoisDeFalhar(j) = "pronto"
<1>1. fila[j].repasse \in Repasses
  BY DEF InvarianteExecucao, FilaCoerente, Viva
<1>2. Gastos(fila[j].repasse) \in 0..(MaxTransitorias - 1)
  BY <1>1, GastosLimitados DEF InvarianteExecucao
<1>3. fila[j].entregas <= Gastos(fila[j].repasse) + quedas + NaMao(j)
  BY DEF EntregasPagas, Paga
<1>4. fila[j].entregas \in Nat /\ quedas \in Nat /\ NaMao(j) \in Nat
  BY DEF NaMao, InvarianteExecucao, TypeOKExecucao
<1> QED
  BY <1>2, <1>3, <1>4 DEF DepoisDeFalhar, Margem

\* A job's deliveries stay paid for when what pays for them does not shrink.
LEMMA PagaMantida ==
  ASSUME InvarianteExecucao, EntregasPagas, NEW j \in Jobs, Viva(j),
         NEW r \in Repasses, r = fila[j].repasse,
         fila'[j].entregas = fila[j].entregas, fila'[j].repasse = r,
         Gastos(r) + quedas + NaMao(j) <= Gastos(r)' + quedas' + NaMao(j)',
         quedas' \in Nat, Gastos(r)' \in Int
  PROVE  Paga(j)'
<1>1. /\ fila[j].entregas \in Nat /\ quedas \in Nat
      /\ NaMao(j) \in Nat /\ NaMao(j)' \in Nat
      /\ Gastos(r) \in Nat
  BY GastosLimitados DEF NaMao, InvarianteExecucao, TypeOKExecucao
<1>2. fila'[j].entregas <= Gastos(r)' + quedas' + NaMao(j)'
  BY <1>1 DEF EntregasPagas, Paga
<1> QED
  BY <1>2 DEF Paga

\* A step of the queue and of the handlers that leaves the payouts alone.
LEMMA GastosParados ==
  ASSUME UNCHANGED <<status, tentativas>>
  PROVE  \A r \in Repasses : Gastos(r)' = Gastos(r)
  BY DEF Gastos, Um

\* A job that is queued has spent nothing, and serves its payout.
LEMMA FilaVivaDoEnfileirar ==
  ASSUME InvarianteExecucao, InvarianteExecucao', PorPix, FilaViva,
         NEW r \in Repasses, NEW j \in Jobs,
         NEW o \in {"aprovacao", "recuperacao", "retentativa"}, Enfileirar(j, r, o),
         UNCHANGED <<exec, quedas, tentativas>>,
         \A q \in Repasses : q # r => status'[q] = status[q] /\ (q \in referencia' => q \in referencia),
         status'[r] = status[r] \/ "transferindo" \notin {status[r], status'[r]}
  PROVE  FilaViva'
<1>1. /\ fila[j].estado = "livre"
      /\ fila'[j].estado = "pronto" /\ fila'[j].repasse = r /\ fila'[j].entregas = 0
      /\ \A i \in Jobs : i # j => fila'[i] = fila[i]
  BY DEF Enfileirar, InvarianteExecucao, TypeOKExecucao
<1>2. \A f \in Execucoes : exec[f].passo # "ociosa" => exec[f].job # j /\ exec[f].job \in Jobs
  BY <1>1 DEF InvarianteExecucao, FilaCoerente
<1>3. \A i \in Jobs : \A f \in Execucoes : Cuida(f, i)' = Cuida(f, i)
  BY DEF Cuida
<1>4. \A i \in Jobs : NaMao(i)' = NaMao(i)
  BY DEF NaMao, EmEntrega, Cuida
<1>5. \A q \in Repasses : Gastos(q)' = Gastos(q)
  BY DEF Gastos, Um
<1>6. PosseCoerente'
  BY <1>1, <1>2 DEF FilaViva, PosseCoerente
<1>7. NenhumMorto'
  BY <1>1 DEF FilaViva, NenhumMorto
<1>8. EntregasPagas'
  <2> SUFFICES ASSUME NEW i \in Jobs, Viva(i)'
               PROVE  Paga(i)'
    BY DEF EntregasPagas
  <2>1. quedas \in Nat /\ quedas' \in Nat /\ NaMao(i)' \in Nat
        /\ \A q \in Repasses : Gastos(q)' \in Nat
    BY GastosLimitados, <1>5 DEF InvarianteExecucao, TypeOKExecucao, NaMao
  <2>2. CASE i = j
    <3>1. fila'[i].entregas <= Gastos(r)' + quedas' + NaMao(i)'
      BY <1>1, <2>1, <2>2
    <3> QED
      BY <1>1, <2>2, <3>1 DEF Paga
  <2>3. CASE i # j
    <3>1. fila'[i] = fila[i] /\ Viva(i)
      BY <1>1, <2>3 DEF Viva
    <3>2. PICK q \in Repasses : q = fila[i].repasse
      BY <3>1 DEF Viva, InvarianteExecucao, FilaCoerente
    <3>3. Gastos(q) + quedas + NaMao(i) <= Gastos(q)' + quedas' + NaMao(i)'
      BY <1>4, <1>5, <2>1
    <3> QED
      BY <2>1, <3>1, <3>2, <3>3, PagaMantida DEF FilaViva
  <2> QED
    BY <2>2, <2>3
<1>9. AprovadoComJob'
  <2> SUFFICES ASSUME NEW q \in referencia', status'[q] = "aprovado"
               PROVE  \E i \in Jobs : JobServe(i, q)'
    BY DEF AprovadoComJob
  <2>1. CASE q = r
    <3>1. JobServe(j, q)'
      BY <1>1, <1>2, <2>1 DEF JobServe, Viva, Cuida
    <3> QED
      BY <3>1
  <2>2. CASE q # r
    <3>1. q \in Repasses
      BY DEF InvarianteExecucao, TypeOKExecucao, TypeOK
    <3>2. PICK i \in Jobs : JobServe(i, q)
      BY <2>2, <3>1 DEF FilaViva, AprovadoComJob
    <3>3. i # j
      BY <1>1, <3>2 DEF JobServe, Viva
    <3>4. JobServe(i, q)'
      BY <1>1, <1>3, <3>2, <3>3 DEF JobServe, Viva
    <3> QED
      BY <3>4
  <2> QED
    BY <2>1, <2>2
<1> QED
  BY <1>6, <1>7, <1>8, <1>9 DEF FilaViva

\* Steps that leave queue and handlers alone, and approve nothing.
LEMMA FilaVivaParada ==
  ASSUME FilaViva, UNCHANGED <<fila, exec, quedas>>,
         referencia' = referencia, referencia \subseteq Repasses, FilaCoerente,
         \A q \in Repasses : Gastos(q)' = Gastos(q),
         \A q \in referencia : status'[q] = "aprovado" => status[q] = "aprovado"
  PROVE  FilaViva'
<1>1. \A i \in Jobs : /\ Viva(i)' = Viva(i) /\ NaMao(i)' = NaMao(i)
                      /\ \A q \in Repasses : JobServe(i, q)' = JobServe(i, q)
  BY DEF Viva, NaMao, EmEntrega, Cuida, JobServe
<1>2. PosseCoerente' /\ NenhumMorto'
  BY DEF FilaViva, PosseCoerente, NenhumMorto
<1>3. EntregasPagas'
  <2> SUFFICES ASSUME NEW i \in Jobs, Viva(i)'
               PROVE  Paga(i)'
    BY DEF EntregasPagas
  <2>1. PICK q \in Repasses : q = fila[i].repasse /\ q = fila'[i].repasse
    BY <1>1 DEF Viva, FilaCoerente
  <2>2. Paga(i)
    BY <1>1 DEF FilaViva, EntregasPagas
  <2>3. fila[i].entregas <= Gastos(q) + quedas + NaMao(i)
    BY <2>1, <2>2 DEF Paga
  <2>4. fila'[i].entregas <= Gastos(q)' + quedas' + NaMao(i)'
    BY <1>1, <2>3
  <2> QED
    BY <2>1, <2>4 DEF Paga
<1>4. AprovadoComJob'
  BY <1>1 DEF FilaViva, AprovadoComJob
<1> QED
  BY <1>2, <1>3, <1>4 DEF FilaViva

\* Ledger transactions without a job.
LEMMA FilaVivaSemJob ==
  ASSUME InvarianteExecucao, PorPix, FilaViva, PassoSemJob
  PROVE  FilaViva'
<1>1. /\ UNCHANGED <<fila, exec, quedas, tentativas, referencia>>
      /\ \A q \in Repasses : PassoSemHandler(status[q], status'[q])
      /\ referencia \subseteq Repasses
  BY PassoSemJobMuda DEF PassoSemJob, execVars, InvarianteExecucao, TypeOKExecucao, TypeOK
<1>2. \A q \in Repasses : Gastos(q)' = Gastos(q)
  <2> SUFFICES ASSUME NEW q \in Repasses PROVE Gastos(q)' = Gastos(q)
    OBVIOUS
  <2>1. status'[q] = "transferindo" <=> status[q] = "transferindo"
    BY <1>1 DEF PassoSemHandler
  <2> QED
    BY <1>1, <2>1 DEF Gastos, Um
<1>3. \A q \in referencia : status'[q] = "aprovado" => status[q] = "aprovado"
  BY <1>1 DEF PorPix, PassoSemHandler
<1> QED
  BY <1>1, <1>2, <1>3, FilaVivaParada DEF InvarianteExecucao

\* The admin's steps queue a job for what they approve.
LEMMA FilaVivaDoAdmin ==
  ASSUME InvarianteExecucao, InvarianteExecucao', PorPix, FilaViva,
         NEW r \in Repasses, NEW j \in Jobs, PassoDoAdmin(r, j)
  PROVE  FilaViva'
<1> USE DEF InvarianteExecucao
<1>1. CASE AprovarEEnfileirar(r, j) \/ ReenviarEEnfileirar(r, j)
  <2>1. /\ Enfileirar(j, r, "aprovacao") /\ UNCHANGED <<exec, quedas, tentativas>>
        /\ referencia' = referencia \cup {r}
        /\ "transferindo" \notin {status[r], status'[r]}
        /\ \A q \in Repasses : q # r => status'[q] = status[q]
    BY <1>1 DEF AprovarEEnfileirar, ReenviarEEnfileirar, AprovarRepassePix, ReenviarContaPeloInter,
       TypeOKExecucao, TypeOK
  <2> QED
    BY <2>1, FilaVivaDoEnfileirar
<1>2. CASE RecuperarEEnfileirar(r, j)
  <2>1. /\ Enfileirar(j, r, "recuperacao")
        /\ UNCHANGED <<exec, quedas, tentativas, referencia>>
        /\ "transferindo" \notin {status[r], status'[r]}
        /\ \A q \in Repasses : q # r => status'[q] = status[q]
    BY <1>2 DEF RecuperarEEnfileirar, RecuperarRepasse, TypeOKExecucao, TypeOK
  <2> QED
    BY <2>1, FilaVivaDoEnfileirar
<1>3. CASE Retentar(r, j)
  <2>1. /\ Enfileirar(j, r, "retentativa")
        /\ UNCHANGED <<exec, quedas, status, tentativas, referencia>>
    BY <1>3 DEF Retentar, vars, repasseVars
  <2> QED
    BY <2>1, FilaVivaDoEnfileirar
<1> QED
  BY <1>1, <1>2, <1>3 DEF PassoDoAdmin

\* The handlers of an expired job lose it, and it goes back to the queue.
LEMMA FilaVivaDoExpirar ==
  ASSUME InvarianteExecucao, InvarianteExecucao', PorPix, FilaViva, Margem,
         NEW j \in Jobs, ExpirarJob(j)
  PROVE  FilaViva'
<1> USE DEF InvarianteExecucao
<1> DEFINE vivas == {e \in Execucoes : exec[e].job = j /\ exec[e].dona}
<1>1. /\ fila[j].estado = "ativo" /\ UNCHANGED <<status, tentativas, referencia>>
      /\ vivas # {} => quedas < MaxQuedas
      /\ quedas' = IF vivas # {} THEN quedas + 1 ELSE quedas
  BY DEF ExpirarJob, vars, repasseVars
<1>2. /\ fila'[j].estado = DepoisDeFalhar(j)
      /\ \A i \in Jobs : /\ fila'[i].repasse = fila[i].repasse
                         /\ fila'[i].entregas = fila[i].entregas
                         /\ i # j => fila'[i].estado = fila[i].estado
  BY DEF ExpirarJob, TypeOKExecucao
<1>3. \A f \in Execucoes : /\ exec'[f].passo = exec[f].passo
                           /\ exec'[f].resposta = exec[f].resposta
                           /\ exec'[f].job = exec[f].job
                           /\ exec'[f].dona = IF f \in vivas THEN FALSE ELSE exec[f].dona
  BY DEF ExpirarJob, TypeOKExecucao
<1>4. vivas = {} => NaMao(j) = 0
  BY DEF NaMao, EmEntrega, Cuida
<1>5. quedas \in 0..MaxQuedas /\ quedas' \in Nat /\ NaMao(j) \in {0, 1}
  BY DEF TypeOKExecucao, NaMao
<1>6. fila'[j].estado = "pronto"
  <2>1. quedas + NaMao(j) <= MaxQuedas
    BY <1>1, <1>4, <1>5
  <2> QED
    BY <1>1, <1>2, <2>1, FalhaVolta DEF Viva, FilaViva
<1>7. \A f \in Execucoes : exec[f].passo # "ociosa" /\ exec[f].job = j => f \in vivas
  BY <1>1 DEF FilaViva, PosseCoerente
<1>8. \A f \in Execucoes : \A i \in Jobs : i # j => (Cuida(f, i)' <=> Cuida(f, i))
  BY <1>3 DEF Cuida
<1>9. \A f \in Execucoes : ~Cuida(f, j)'
  BY <1>3, <1>7 DEF Cuida
<1>10. PosseCoerente'
  <2> SUFFICES ASSUME NEW f \in Execucoes, exec'[f].passo # "ociosa"
               PROVE  /\ fila'[exec'[f].job].estado = IF exec'[f].dona THEN "ativo" ELSE "pronto"
                      /\ exec'[f].passo = "encerrando" => exec'[f].resposta \in {"ok", "erro"}
    BY DEF PosseCoerente
  <2>1. exec[f].job \in Jobs
    BY <1>3 DEF FilaCoerente
  <2>2. CASE exec[f].job = j
    BY <1>3, <1>6, <1>7, <2>2 DEF FilaViva, PosseCoerente
  <2>3. CASE exec[f].job # j
    <3>1. exec'[f].dona = exec[f].dona /\ exec'[f].job = exec[f].job
          /\ exec'[f].passo = exec[f].passo /\ exec'[f].resposta = exec[f].resposta
      BY <1>3, <2>3
    <3>2. fila'[exec[f].job].estado = fila[exec[f].job].estado
      BY <1>2, <2>1, <2>3
    <3> QED
      BY <3>1, <3>2 DEF FilaViva, PosseCoerente
  <2> QED
    BY <2>2, <2>3
<1>11. NenhumMorto'
  BY <1>2, <1>6 DEF FilaViva, NenhumMorto
<1>12. EntregasPagas'
  <2> SUFFICES ASSUME NEW i \in Jobs, Viva(i)'
               PROVE  Paga(i)'
    BY DEF EntregasPagas
  <2>1. Viva(i)
    BY <1>1, <1>2 DEF Viva
  <2>2. PICK q \in Repasses : q = fila[i].repasse
    BY <2>1 DEF Viva, FilaCoerente
  <2>3. Gastos(q)' = Gastos(q) /\ Gastos(q) \in Nat
    BY <1>1, GastosLimitados DEF Gastos, Um
  <2>4. quedas + NaMao(i) <= quedas' + NaMao(i)'
    <3>1. CASE i = j
      BY <1>1, <1>4, <1>5, <3>1 DEF NaMao
    <3>2. CASE i # j
      <4>1. NaMao(i)' = NaMao(i)
        BY <1>3, <1>8, <3>2 DEF NaMao, EmEntrega
      <4> QED
        BY <1>1, <1>5, <4>1 DEF NaMao
    <3> QED
      BY <3>1, <3>2
  <2>5. NaMao(i) \in Nat /\ NaMao(i)' \in Nat
    BY DEF NaMao
  <2> QED
    BY <1>2, <1>5, <2>1, <2>2, <2>3, <2>4, <2>5, PagaMantida DEF FilaViva
<1>13. AprovadoComJob'
  <2> SUFFICES ASSUME NEW q \in referencia', status'[q] = "aprovado"
               PROVE  \E i \in Jobs : JobServe(i, q)'
    BY DEF AprovadoComJob
  <2>1. PICK i \in Jobs : JobServe(i, q)
    BY <1>1 DEF FilaViva, AprovadoComJob
  <2>2. fila'[i].repasse = q /\ Viva(i)'
    BY <1>2, <1>6, <2>1 DEF JobServe, Viva
  <2>3. JobServe(i, q)'
    <3>1. CASE i = j
      BY <1>9, <2>2, <3>1 DEF JobServe
    <3>2. CASE i # j
      BY <1>3, <1>8, <2>1, <2>2, <3>2 DEF JobServe
    <3> QED
      BY <3>1, <3>2
  <2> QED
    BY <2>3
<1> QED
  BY <1>10, <1>11, <1>12, <1>13 DEF FilaViva

\* A delivery is paid for by the handler that has it in hand.
LEMMA FilaVivaDoBuscar ==
  ASSUME InvarianteExecucao, InvarianteExecucao', FilaViva, UmPorVez',
         NEW e \in Execucoes, NEW j \in Jobs, Buscar(e, j)
  PROVE  FilaViva'
<1> USE DEF InvarianteExecucao
<1>1. /\ exec[e].passo = "ociosa" /\ fila[j].estado = "pronto"
      /\ UNCHANGED <<status, tentativas, referencia, quedas>>
  BY DEF Buscar, vars, repasseVars
<1>2. /\ fila'[j].estado = "ativo" /\ fila'[j].repasse = fila[j].repasse
      /\ fila'[j].entregas = fila[j].entregas + 1
      /\ \A i \in Jobs : i # j => fila'[i] = fila[i]
  BY DEF Buscar, TypeOKExecucao
<1>3. /\ exec'[e].passo = "iniciando" /\ exec'[e].job = j /\ exec'[e].dona = TRUE
      /\ \A f \in Execucoes : f # e => exec'[f] = exec[f]
  BY DEF Buscar, TypeOKExecucao, Ociosa
<1>4. \A f \in Execucoes : f # e /\ exec[f].passo # "ociosa" => exec[f].job # j
  <2> SUFFICES ASSUME NEW f \in Execucoes, f # e, exec[f].passo # "ociosa", exec[f].job = j
               PROVE  FALSE
    OBVIOUS
  <2>1. exec'[f].passo # "ociosa" /\ exec'[f].job = j
    BY <1>3
  <2>2. RepasseDaExec(f)' = RepasseDaExec(e)'
    BY <1>3, <2>1 DEF RepasseDaExec
  <2> QED
    BY <1>3, <2>1, <2>2 DEF UmPorVez
<1>5. \A f \in Execucoes : \A i \in Jobs : i # j => (Cuida(f, i)' <=> Cuida(f, i))
  BY <1>1, <1>3 DEF Cuida
<1>6. NaMao(j) = 0 /\ NaMao(j)' = 1
  <2>1. ~EmEntrega(j)
    BY <1>1, <1>4 DEF EmEntrega, Cuida
  <2>2. EmEntrega(j)'
    BY <1>3 DEF EmEntrega, Cuida
  <2> QED
    BY <2>1, <2>2 DEF NaMao
<1>7. \A i \in Jobs : i # j => NaMao(i)' = NaMao(i)
  <2> SUFFICES ASSUME NEW i \in Jobs, i # j PROVE EmEntrega(i)' <=> EmEntrega(i)
    BY DEF NaMao
  <2>1. \A f \in Execucoes : f # e => exec'[f] = exec[f]
    BY <1>3
  <2>2. ~Cuida(e, i)
    BY <1>1 DEF Cuida
  <2> QED
    BY <1>5, <2>1, <2>2 DEF EmEntrega
<1>8. PosseCoerente'
  <2> SUFFICES ASSUME NEW f \in Execucoes, exec'[f].passo # "ociosa"
               PROVE  /\ fila'[exec'[f].job].estado = IF exec'[f].dona THEN "ativo" ELSE "pronto"
                      /\ exec'[f].passo = "encerrando" => exec'[f].resposta \in {"ok", "erro"}
    BY DEF PosseCoerente
  <2>1. CASE f = e
    BY <1>2, <1>3, <2>1
  <2>2. CASE f # e
    <3>1. exec'[f] = exec[f] /\ exec[f].job \in Jobs /\ exec[f].job # j
      BY <1>3, <1>4, <2>2 DEF FilaCoerente
    <3> QED
      BY <1>2, <3>1 DEF FilaViva, PosseCoerente
  <2> QED
    BY <2>1, <2>2
<1>9. NenhumMorto'
  BY <1>2 DEF FilaViva, NenhumMorto
<1>10. EntregasPagas'
  <2> SUFFICES ASSUME NEW i \in Jobs, Viva(i)'
               PROVE  Paga(i)'
    BY DEF EntregasPagas
  <2>1. Viva(i)
    BY <1>1, <1>2 DEF Viva
  <2>2. PICK q \in Repasses : q = fila[i].repasse /\ q = fila'[i].repasse
    BY <1>2, <2>1 DEF Viva, FilaCoerente
  <2>3. Gastos(q)' = Gastos(q) /\ Gastos(q) \in Nat
    BY <1>1, GastosLimitados DEF Gastos, Um
  <2>4. fila[i].entregas <= Gastos(q) + quedas + NaMao(i)
    BY <2>1, <2>2 DEF FilaViva, EntregasPagas, Paga
  <2>5. quedas \in Nat /\ fila[i].entregas \in Nat
    BY DEF TypeOKExecucao
  <2>6. fila'[i].entregas <= Gastos(q)' + quedas' + NaMao(i)'
    <3>1. CASE i = j
      BY <1>1, <1>2, <1>6, <2>3, <2>4, <2>5, <3>1
    <3>2. CASE i # j
      BY <1>1, <1>2, <1>7, <2>3, <2>4, <3>2
    <3> QED
      BY <3>1, <3>2
  <2> QED
    BY <2>2, <2>6 DEF Paga
<1>11. AprovadoComJob'
  <2> SUFFICES ASSUME NEW q \in referencia', status'[q] = "aprovado"
               PROVE  \E i \in Jobs : JobServe(i, q)'
    BY DEF AprovadoComJob
  <2>1. PICK i \in Jobs : JobServe(i, q)
    BY <1>1 DEF FilaViva, AprovadoComJob
  <2>2. fila'[i].repasse = q /\ Viva(i)'
    BY <1>2, <2>1 DEF JobServe, Viva
  <2>3. ASSUME NEW f \in Execucoes, Cuida(f, i)'
        PROVE  ~(exec'[f].passo = "encerrando" /\ exec'[f].resposta = "ok")
    <3>1. CASE f = e
      BY <1>3, <3>1
    <3>2. CASE f # e
      BY <1>3, <2>1, <2>3, <3>2 DEF JobServe, Cuida
    <3> QED
      BY <3>1, <3>2
  <2>4. JobServe(i, q)'
    BY <2>2, <2>3 DEF JobServe
  <2> QED
    BY <2>4
<1> QED
  BY <1>8, <1>9, <1>10, <1>11 DEF FilaViva

\* A handler that dies leaves its delivery to the crash that killed it.
LEMMA FilaVivaDoMorrer ==
  ASSUME InvarianteExecucao, InvarianteExecucao', FilaViva, NEW e \in Execucoes, Morrer(e)
  PROVE  FilaViva'
<1> USE DEF InvarianteExecucao
<1>1. UNCHANGED <<fila, status, tentativas, referencia>> /\ quedas' = quedas + 1
  BY DEF Morrer, vars, repasseVars
<1>2. /\ exec'[e].passo = "ociosa"
      /\ \A f \in Execucoes : f # e => exec'[f] = exec[f]
  BY DEF Morrer, TypeOKExecucao, Ociosa
<1>3. PosseCoerente' /\ NenhumMorto'
  BY <1>1, <1>2 DEF FilaViva, PosseCoerente, NenhumMorto
<1>4. EntregasPagas'
  <2> SUFFICES ASSUME NEW i \in Jobs, Viva(i)'
               PROVE  Paga(i)'
    BY DEF EntregasPagas
  <2>1. Viva(i)
    BY <1>1 DEF Viva
  <2>2. PICK q \in Repasses : q = fila[i].repasse
    BY <2>1 DEF Viva, FilaCoerente
  <2>3. Gastos(q)' = Gastos(q) /\ Gastos(q) \in Nat
    BY <1>1, GastosLimitados DEF Gastos, Um
  <2>4. quedas \in Nat /\ NaMao(i) \in {0, 1} /\ NaMao(i)' \in {0, 1}
    BY DEF TypeOKExecucao, NaMao
  <2> QED
    BY <1>1, <2>1, <2>2, <2>3, <2>4, PagaMantida DEF FilaViva
<1>5. AprovadoComJob'
  <2> SUFFICES ASSUME NEW q \in referencia', status'[q] = "aprovado"
               PROVE  \E i \in Jobs : JobServe(i, q)'
    BY DEF AprovadoComJob
  <2>1. PICK i \in Jobs : JobServe(i, q)
    BY <1>1 DEF FilaViva, AprovadoComJob
  <2>2. JobServe(i, q)'
    BY <1>1, <1>2, <2>1 DEF JobServe, Viva, Cuida
  <2> QED
    BY <2>2
<1> QED
  BY <1>3, <1>4, <1>5 DEF FilaViva

\* A handler that returns settles its job; one that throws gives it back.
LEMMA FilaVivaDoEncerrar ==
  ASSUME InvarianteExecucao, InvarianteExecucao', PorPix, FilaViva, Margem, UmPorVez,
         NEW e \in Execucoes, Encerrar(e)
  PROVE  FilaViva'
<1> USE DEF InvarianteExecucao
<1>1. /\ exec[e].passo = "encerrando" /\ exec[e].resposta \in {"ok", "erro"}
      /\ UNCHANGED <<status, tentativas, referencia, quedas>>
  BY DEF Encerrar, vars, repasseVars, FilaViva, PosseCoerente
<1>2. /\ exec'[e].passo = "ociosa"
      /\ \A f \in Execucoes : f # e => exec'[f] = exec[f]
  BY DEF Encerrar, TypeOKExecucao, Ociosa
<1>3. PICK j \in Jobs : j = exec[e].job
  BY <1>1, OcupadoServe
<1>4. \A f \in Execucoes : f # e /\ exec[f].passo # "ociosa" => exec[f].job # j
  BY <1>1, <1>3, SoNoJob
<1>5. /\ \A i \in Jobs : /\ fila'[i].repasse = fila[i].repasse
                         /\ fila'[i].entregas = fila[i].entregas
                         /\ i # j => fila'[i].estado = fila[i].estado
      /\ ~exec[e].dona => fila'[j].estado = fila[j].estado
      /\ exec[e].dona => fila'[j].estado = IF exec[e].resposta = "ok" THEN "concluido"
                                           ELSE DepoisDeFalhar(j)
  BY <1>3 DEF Encerrar, TypeOKExecucao
<1>6. /\ exec[e].dona => fila[j].estado = "ativo"
      /\ ~exec[e].dona => fila[j].estado = "pronto"
  BY <1>1, <1>3 DEF FilaViva, PosseCoerente
<1>7. exec[e].resposta = "erro" => ~EmEntrega(j)
  BY <1>1, <1>4 DEF EmEntrega, Cuida
<1>8. exec[e].dona /\ exec[e].resposta = "erro" => fila'[j].estado = "pronto"
  <2> SUFFICES ASSUME exec[e].dona, exec[e].resposta = "erro"
               PROVE  fila'[j].estado = "pronto"
    OBVIOUS
  <2>1. quedas + NaMao(j) <= MaxQuedas
    BY <1>7 DEF NaMao, TypeOKExecucao
  <2> QED
    BY <1>5, <1>6, <2>1, FalhaVolta DEF Viva, FilaViva
<1>9. PosseCoerente'
  <2> SUFFICES ASSUME NEW f \in Execucoes, exec'[f].passo # "ociosa"
               PROVE  /\ fila'[exec'[f].job].estado = IF exec'[f].dona THEN "ativo" ELSE "pronto"
                      /\ exec'[f].passo = "encerrando" => exec'[f].resposta \in {"ok", "erro"}
    BY DEF PosseCoerente
  <2>1. f # e /\ exec'[f] = exec[f] /\ exec[f].job \in Jobs /\ exec[f].job # j
    BY <1>2, <1>4 DEF FilaCoerente
  <2> QED
    BY <1>5, <2>1 DEF FilaViva, PosseCoerente
<1>10. NenhumMorto'
  BY <1>1, <1>5, <1>6, <1>8 DEF FilaViva, NenhumMorto
<1>11. EntregasPagas'
  <2> SUFFICES ASSUME NEW i \in Jobs, Viva(i)'
               PROVE  Paga(i)'
    BY DEF EntregasPagas
  <2>1. Viva(i)
    BY <1>5, <1>6 DEF Viva
  <2>2. PICK q \in Repasses : q = fila[i].repasse
    BY <2>1 DEF Viva, FilaCoerente
  <2>3. Gastos(q)' = Gastos(q) /\ Gastos(q) \in Nat
    BY <1>1, GastosLimitados DEF Gastos, Um
  <2>4. quedas \in Nat /\ NaMao(i) \in {0, 1} /\ NaMao(i)' \in {0, 1}
    BY DEF TypeOKExecucao, NaMao
  <2>5. EmEntrega(i) => EmEntrega(i)'
    <3>1. CASE i = j
      <4>1. exec[e].dona => exec[e].resposta = "erro"
        BY <1>1, <1>5, <3>1 DEF Viva
      <4>2. ~exec[e].dona => ~EmEntrega(j)
        BY <1>3, <1>4 DEF EmEntrega, Cuida
      <4> QED
        BY <1>7, <3>1, <4>1, <4>2
    <3>2. CASE i # j
      <4>1. \A f \in Execucoes : Cuida(f, i) => f # e
        BY <1>3, <3>2 DEF Cuida
      <4> QED
        BY <1>2, <4>1 DEF EmEntrega, Cuida
    <3> QED
      BY <3>1, <3>2
  <2>6. NaMao(i) <= NaMao(i)'
    BY <2>5 DEF NaMao
  <2> QED
    BY <1>1, <1>5, <2>1, <2>2, <2>3, <2>4, <2>6, PagaMantida DEF FilaViva
<1>12. AprovadoComJob'
  <2> SUFFICES ASSUME NEW q \in referencia', status'[q] = "aprovado"
               PROVE  \E i \in Jobs : JobServe(i, q)'
    BY DEF AprovadoComJob
  <2>1. PICK i \in Jobs : JobServe(i, q)
    BY <1>1 DEF FilaViva, AprovadoComJob
  <2>2. Viva(i)'
    <3>1. CASE i = j
      <4>1. exec[e].dona => exec[e].resposta = "erro"
        BY <1>1, <1>3, <2>1, <3>1 DEF JobServe, Cuida
      <4> QED
        BY <1>5, <1>6, <1>8, <3>1, <4>1 DEF Viva
    <3>2. CASE i # j
      BY <1>5, <2>1, <3>2 DEF JobServe, Viva
    <3> QED
      BY <3>1, <3>2
  <2>3. JobServe(i, q)'
    BY <1>2, <1>5, <2>1, <2>2 DEF JobServe, Cuida
  <2> QED
    BY <2>3
<1> QED
  BY <1>9, <1>10, <1>11, <1>12 DEF FilaViva

\* A handler's own step: only a transient answer fails a delivery, and it ends
\* an attempt that pays for it.
LEMMA FilaVivaDoMove ==
  ASSUME InvarianteExecucao, InvarianteExecucao', FilaViva, UmPorVez,
         NEW e \in Execucoes, Move(e), NEW r \in Repasses, r = RepasseDaExec(e),
         exec'[e].passo = "encerrando" => exec'[e].resposta \in {"ok", "erro"},
         exec[e].passo # "encerrando",
         Gastos(r) <= Gastos(r)',
         exec'[e].passo = "encerrando" /\ exec'[e].resposta = "erro" => Gastos(r) < Gastos(r)',
         status'[r] = "aprovado" =>
            \/ exec'[e].passo = "encerrando" /\ exec'[e].resposta = "erro"
            \/ status[r] = "aprovado" /\ exec'[e].passo # "encerrando"
  PROVE  FilaViva'
<1> USE DEF InvarianteExecucao
<1>1. /\ exec[e].passo # "ociosa" /\ fila' = fila /\ quedas' = quedas /\ referencia' = referencia
      /\ exec'[e].passo # "ociosa" /\ exec'[e].job = exec[e].job /\ exec'[e].dona = exec[e].dona
      /\ \A f \in Execucoes : f # e => exec'[f] = exec[f]
      /\ \A q \in Repasses : q # r => status'[q] = status[q] /\ tentativas'[q] = tentativas[q]
  BY DEF Move
<1>2. PICK j \in Jobs : j = exec[e].job /\ fila[j].repasse = r /\ fila[j].estado # "livre"
  BY <1>1, OcupadoServe DEF RepasseDaExec
<1>3. \A f \in Execucoes : f # e /\ exec[f].passo # "ociosa" => exec[f].job # j
  BY <1>1, <1>2, SoNoJob
<1>4. \A f \in Execucoes : \A i \in Jobs : Cuida(f, i)' <=> Cuida(f, i)
  BY <1>1 DEF Cuida
<1>5. PosseCoerente' /\ NenhumMorto'
  BY <1>1 DEF FilaViva, PosseCoerente, NenhumMorto
<1>6. \A q \in Repasses : q # r => Gastos(q)' = Gastos(q)
  BY <1>1 DEF Gastos, Um
<1>7. EntregasPagas'
  <2> SUFFICES ASSUME NEW i \in Jobs, Viva(i)'
               PROVE  Paga(i)'
    BY DEF EntregasPagas
  <2>1. Viva(i)
    BY <1>1 DEF Viva
  <2>2. PICK q \in Repasses : q = fila[i].repasse
    BY <2>1 DEF Viva, FilaCoerente
  <2>3. Gastos(q)' \in Nat /\ Gastos(q) \in Nat
    BY GastosLimitados, GastosLimitadosDepois
  <2>4. quedas \in Nat /\ NaMao(i) \in {0, 1} /\ NaMao(i)' \in {0, 1}
    BY DEF TypeOKExecucao, NaMao
  <2>5. Gastos(q) + NaMao(i) <= Gastos(q)' + NaMao(i)'
    <3>1. CASE EmEntrega(i) /\ ~EmEntrega(i)'
      <4>1. PICK f \in Execucoes :
              Cuida(f, i) /\ ~(exec[f].passo = "encerrando" /\ exec[f].resposta = "erro")
        BY <3>1 DEF EmEntrega
      <4>2. exec'[f].passo = "encerrando" /\ exec'[f].resposta = "erro"
        BY <1>4, <3>1, <4>1 DEF EmEntrega
      <4>3. f = e
        BY <1>1, <4>1, <4>2
      <4>4. q = r /\ Gastos(q) < Gastos(q)'
        BY <1>2, <2>2, <4>1, <4>2, <4>3 DEF Cuida
      <4> QED
        BY <2>3, <2>4, <4>4
    <3>2. CASE EmEntrega(i) => EmEntrega(i)'
      <4>1. NaMao(i) <= NaMao(i)'
        BY <3>2 DEF NaMao
      <4>2. Gastos(q) <= Gastos(q)'
        BY <1>6, <2>3
      <4> QED
        BY <2>3, <2>4, <4>1, <4>2
    <3> QED
      BY <3>1, <3>2
  <2> QED
    BY <1>1, <2>1, <2>2, <2>3, <2>4, <2>5, PagaMantida DEF FilaViva
<1>8. AprovadoComJob'
  <2> SUFFICES ASSUME NEW q \in referencia', status'[q] = "aprovado"
               PROVE  \E i \in Jobs : JobServe(i, q)'
    BY DEF AprovadoComJob
  <2>1. q \in Repasses /\ q \in referencia
    BY <1>1 DEF TypeOKExecucao, TypeOK
  <2>2. CASE q = r /\ exec'[e].passo = "encerrando" /\ exec'[e].resposta = "erro"
    <3>1. Viva(j)'
      BY <1>1, <1>2 DEF FilaViva, PosseCoerente, Viva
    <3>2. JobServe(j, q)'
      BY <1>1, <1>2, <1>3, <2>2, <3>1 DEF JobServe, Cuida
    <3> QED
      BY <3>2
  <2>3. CASE status[q] = "aprovado" /\ (q # r \/ exec'[e].passo # "encerrando")
    <3>1. PICK i \in Jobs : JobServe(i, q)
      BY <2>1, <2>3 DEF FilaViva, AprovadoComJob
    <3>2. ASSUME NEW f \in Execucoes, Cuida(f, i)'
          PROVE  ~(exec'[f].passo = "encerrando" /\ exec'[f].resposta = "ok")
      <4>1. CASE f = e
        <5>1. i = j
          BY <1>2, <1>4, <3>2, <4>1 DEF Cuida
        <5> QED
          BY <1>2, <2>3, <3>1, <4>1, <5>1 DEF JobServe
      <4>2. CASE f # e
        BY <1>1, <1>4, <3>1, <3>2, <4>2 DEF JobServe
      <4> QED
        BY <4>1, <4>2
    <3>3. JobServe(i, q)'
      BY <1>1, <3>1, <3>2 DEF JobServe, Viva
    <3> QED
      BY <3>3
  <2> QED
    BY <1>1, <2>1, <2>2, <2>3
<1> QED
  BY <1>5, <1>7, <1>8 DEF FilaViva

\* The handlers' own steps: an attempt that ends pays for its delivery.
LEMMA FilaVivaDoHandler ==
  ASSUME InvarianteExecucao, InvarianteExecucao', TentativaCorrente, PorPix, FilaViva,
         UmPorVez, NEW e \in Execucoes, PassoProprio(e)
  PROVE  FilaViva'
<1> USE DEF InvarianteExecucao
<1>1. Move(e)
  BY MoveDoIniciar, MoveDoReconciliar, MoveDoEnviar, MoveDoFinalizar DEF PassoProprio
<1>2. PICK r \in Repasses : r = RepasseDaExec(e)
  BY <1>1 DEF Move
<1>3. r \in referencia
  BY <1>1, <1>2, OcupadoServe DEF Move, PorPix, RepasseDaExec
<1>4. tentativas[r] \in Nat /\ (status[r] = "transferindo" => tentativas[r] >= 1)
  BY DEF RecuperacoesContadas, Um, TypeOKExecucao, TypeOK
<1> DEFINE Basta ==
      /\ exec[e].passo # "encerrando"
      /\ exec'[e].passo = "encerrando" => exec'[e].resposta \in {"ok", "erro"}
      /\ Gastos(r) <= Gastos(r)'
      /\ exec'[e].passo = "encerrando" /\ exec'[e].resposta = "erro" => Gastos(r) < Gastos(r)'
      /\ status'[r] = "aprovado" =>
            \/ exec'[e].passo = "encerrando" /\ exec'[e].resposta = "erro"
            \/ status[r] = "aprovado" /\ exec'[e].passo # "encerrando"
<1>5. CASE Iniciar(e)
  <2>1. AcaoIniciar(r) # "erro" /\ exec[e].passo = "iniciando"
    BY <1>3, <1>5, PorPixNaoRecusa DEF Iniciar
  <2>2. \/ /\ UNCHANGED <<status, tentativas>>
           /\ \/ exec'[e].passo = "reconciliando" /\ status[r] = "transferindo"
              \/ /\ exec'[e].passo = "encerrando" /\ exec'[e].resposta = "ok"
                 /\ status[r] # "aprovado"
        \/ /\ status[r] \in {"aprovado", "falhou"} /\ status'[r] = "transferindo"
           /\ tentativas'[r] = tentativas[r] + 1
           /\ exec'[e].passo \in {"enviando", "respondida"}
    BY <1>2, <1>5, <2>1, MoveDoIniciar DEF vars, repasseVars
  <2>3. Gastos(r)' = Gastos(r) /\ Gastos(r) \in Int
    BY <1>4, <2>2 DEF Gastos, Um
  <2>4. Basta
    BY <2>1, <2>2, <2>3
  <2> QED
    BY <1>1, <1>2, <2>4, FilaVivaDoMove
<1>6. CASE Reconciliar(e)
  <2>1. /\ exec[e].passo = "reconciliando" /\ exec'[e].passo = "encerrando"
        /\ status[r] = "transferindo" /\ status'[r] = "verificando"
        /\ exec'[e].resposta = "ok" /\ tentativas' = tentativas
    BY <1>2, <1>6, MoveDoReconciliar DEF TentativaCorrente
  <2>2. Gastos(r) <= Gastos(r)'
    BY <1>4, <2>1 DEF Gastos, Um
  <2>3. Basta
    BY <2>1, <2>2
  <2> QED
    BY <1>1, <1>2, <2>3, FilaVivaDoMove
<1>7. CASE EnviarPix(e)
  <2>1. /\ exec[e].passo = "enviando" /\ exec'[e].passo = "respondida"
        /\ UNCHANGED <<status, tentativas>> /\ status[r] = "transferindo"
    BY <1>2, <1>7, MoveDoEnviar DEF TentativaCorrente, EmCurso, vars, repasseVars
  <2>2. Gastos(r) <= Gastos(r)'
    BY <1>4, <2>1 DEF Gastos, Um
  <2>3. Basta
    BY <2>1, <2>2
  <2> QED
    BY <1>1, <1>2, <2>3, FilaVivaDoMove
<1>8. CASE Finalizar(e)
  <2>1. /\ exec[e].passo = "respondida" /\ exec'[e].passo = "encerrando"
        /\ status[r] = "transferindo" /\ tentativas'[r] = tentativas[r]
        /\ exec[e].tentativa = tentativas[r]
    BY <1>2, <1>8, MoveDoFinalizar DEF TentativaCorrente, EmCurso
  <2>2. \/ /\ exec'[e].resposta = "ok"
           /\ status'[r] \in {"enviado_ao_banco", "verificando", "falhou"}
        \/ /\ exec'[e].resposta = "erro" /\ status'[r] = "aprovado"
           /\ tentativas[r] < MaxTransitorias
    BY <1>2, <1>8, <2>1, MoveDoFinalizar
  <2>3. /\ Gastos(r) <= Gastos(r)'
        /\ exec'[e].resposta = "erro" => Gastos(r) < Gastos(r)'
    BY <1>4, <2>1, <2>2 DEF Gastos, Um
  <2>4. Basta
    BY <2>1, <2>2, <2>3
  <2> QED
    BY <1>1, <1>2, <2>4, FilaVivaDoMove
<1> QED
  BY <1>5, <1>6, <1>7, <1>8 DEF PassoProprio

\* Every step keeps the queue alive.
LEMMA FilaVivaMantida ==
  ASSUME InvarianteExecucao, InvarianteExecucao', TentativaCorrente, PorPix, FilaViva,
         Margem, UmPorVez, UmPorVez', [NextExecucao]_todas
  PROVE  FilaViva'
<1>1. referencia \subseteq Repasses /\ FilaCoerente
  BY DEF InvarianteExecucao, TypeOKExecucao, TypeOK
<1>2. CASE \/ UNCHANGED todas
           \/ \E r \in Repasses : LerParaRetentar(r) \/ MudarDestino(r)
  <2>1. UNCHANGED <<fila, exec, quedas, status, tentativas, referencia>>
    BY <1>2 DEF todas, execVars, LerParaRetentar, MudarDestino, vars, repasseVars
  <2> QED
    BY <1>1, <2>1, GastosParados, FilaVivaParada
<1> QED
  BY <1>2, FilaVivaSemJob, FilaVivaDoAdmin, FilaVivaDoExpirar, FilaVivaDoBuscar,
     FilaVivaDoMorrer, FilaVivaDoEncerrar, FilaVivaDoHandler
  DEF NextExecucao, PassoDoHandler, PassoProprio

\* The initial states: no job, no payout.
LEMMA FilaVivaInicial ==
  ASSUME InitExecucao
  PROVE  PorPix /\ FilaViva
<1>1. /\ \A e \in Execucoes : exec[e].passo = "ociosa"
      /\ \A j \in Jobs : fila[j].estado = "livre"
      /\ referencia = {} /\ retentando = {}
      /\ \A r \in Repasses : status[r] = "inexistente"
      /\ \A p \in Pagamentos : estorno[p] = "nenhum" /\ med[p] = "nenhuma"
  BY DEF InitExecucao, Init, Ociosa, JobLivre
<1> QED
  BY <1>1 DEF PorPix, FilaViva, PosseCoerente, NenhumMorto, EntregasPagas, AprovadoComJob, Viva

\* What is known of the payouts paid by PIX, in every behaviour.
LEMMA PorPixCorreto ==
  ASSUME "estornos" \notin Ambiente
  PROVE  SpecExecucao => []PorPix
<1>1. InitExecucao => PorPix
  BY FilaVivaInicial
<1>2. ASSUME InvarianteExecucao, PorPix, [NextExecucao]_todas
      PROVE  PorPix'
  BY <1>2, PorPixMantido
<1> QED
  BY <1>1, <1>2, InvarianteExecucaoCorreto, PTL DEF SpecExecucao

\* The queue stays alive in every behaviour without overlap.
LEMMA FilaVivaCorreta ==
  ASSUME "estornos" \notin Ambiente, Margem
  PROVE  SpecExecucao /\ []UmPorVez => []FilaViva
<1>1. InitExecucao => FilaViva
  BY FilaVivaInicial
<1>2. ASSUME InvarianteExecucao, InvarianteExecucao', TentativaCorrente, PorPix, FilaViva,
             UmPorVez, UmPorVez', [NextExecucao]_todas
      PROVE  FilaViva'
  BY <1>2, FilaVivaMantida
<1> QED
  BY <1>1, <1>2, InvarianteExecucaoCorreto, TentativaNuncaVencida, PorPixCorreto, PTL
  DEF SpecExecucao

\* "No payout stranded in aprovado with a dead job" (repasse-enqueuer.pgboss.ts):
\* true where handlers do not overlap, nothing is refunded or disputed, and
\* transient answers and crashes together fit in the retries: with retryLimit 6
\* and MAX_TENTATIVAS_TRANSITORIAS 4, up to three crashes.
THEOREM AprovadoNaoFicaSo ==
  ASSUME "estornos" \notin Ambiente, Margem
  PROVE  SpecExecucao /\ []UmPorVez => []AprovadoTemQuemExecute
<1>1. ASSUME InvarianteExecucao, FilaViva PROVE AprovadoTemQuemExecute
  BY <1>1 DEF AprovadoTemQuemExecute, TemQuemExecute, FilaViva, AprovadoComJob, JobServe, Viva
<1> QED
  BY <1>1, InvarianteExecucaoCorreto, FilaVivaCorreta, PTL

\* Under the same conditions no job of the queue ever runs out of retries.
THEOREM NenhumJobMorre ==
  ASSUME "estornos" \notin Ambiente, Margem
  PROVE  SpecExecucao /\ []UmPorVez => []NenhumMorto
<1>1. FilaViva => NenhumMorto
  BY DEF FilaViva
<1> QED
  BY <1>1, FilaVivaCorreta, PTL

=============================================================================
