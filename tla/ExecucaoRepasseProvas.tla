------------------------ MODULE ExecucaoRepasseProvas ------------------------
(***************************************************************************)
(* Theorems about ExecucaoRepasse, for any numbers of jobs, handlers,      *)
(* crashes, retries and attempts: what the worker does to a payout, and to *)
(* the money at the bank, is safe whatever overlaps with whatever.         *)
(***************************************************************************)
EXTENDS ExecucaoRepasse, LivroRepassesProvas, FiniteSetTheorems

USE SuposicaoLivro, SuposicaoExecucao

-----------------------------------------------------------------------------
(* The inductive invariant *)

\* An attempt the handler has in hand: the bank may still take it, or it came to
\* nothing and the ledger was not told yet.
RespostaNegativa == {"rejeitado", "transitoria", "sem_destino"}
EmCurso(e) == exec[e].passo \in {"enviando", "respondida"}
EmAberto(e) ==
  \/ exec[e].passo = "enviando"
  \/ exec[e].passo = "respondida" /\ exec[e].resposta \in RespostaNegativa

\* Attempts of a payout the bank took, or that some handler has open.
Comprometidas(r) ==
  {n \in 1..MaxTentativas :
      \/ <<r, n>> \in aceitos
      \/ \E e \in Execucoes : EmAberto(e) /\ RepasseDaExec(e) = r /\ exec[e].tentativa = n}

\* A job in the queue is for a payout, and a handler holds one that is.
FilaCoerente ==
  /\ \A j \in Jobs : fila[j].estado # "livre" => fila[j].repasse \in Repasses
  /\ \A j \in Jobs : fila[j].estado = "pronto" => fila[j].entregas <= RetryLimit
  /\ \A e \in Execucoes : exec[e].passo # "ociosa" =>
        exec[e].job \in Jobs /\ fila[exec[e].job].estado # "livre"

\* Attempts are numbered once, and an open one was not accepted yet.
TentativaUnica ==
  /\ \A e \in Execucoes : EmCurso(e) =>
        exec[e].tentativa \in 1..tentativas[RepasseDaExec(e)]
  /\ \A e, f \in Execucoes :
        e # f /\ EmCurso(e) /\ EmCurso(f) /\ RepasseDaExec(e) = RepasseDaExec(f)
            => exec[e].tentativa # exec[f].tentativa
  /\ \A r \in Repasses, n \in 1..MaxTentativas : <<r, n>> \in aceitos => n <= tentativas[r]
  /\ \A e \in Execucoes : EmAberto(e) => <<RepasseDaExec(e), exec[e].tentativa>> \notin aceitos
  /\ \A e \in Execucoes : exec[e].passo = "respondida" =>
        \/ exec[e].resposta \in RespostaNegativa \cup {"ambigua"}
        \/ /\ exec[e].resposta = "aceito"
           /\ <<RepasseDaExec(e), exec[e].tentativa>> \in aceitos

Um(r, statuses) == IF status[r] \in statuses THEN 1 ELSE 0

\* Every recovery was of an attempt of its own.
RecuperacoesContadas ==
  \A r \in Repasses : recuperacoes[r] + Um(r, {"transferindo", "verificando"}) <= tentativas[r]

\* Each committed attempt was paid for by a recovery, but one, and that one only
\* while the ledger itself holds that money may be moving.
Orcamento ==
  \A r \in Repasses :
     Cardinality(Comprometidas(r)) <= recuperacoes[r] + Um(r, BLOCKING_REPASSE_STATUSES)

InvarianteExecucao ==
  /\ TypeOKExecucao
  /\ FilaCoerente
  /\ TentativaUnica
  /\ RecuperacoesContadas
  /\ Orcamento
  /\ EnviadoTemPix

-----------------------------------------------------------------------------
(* The worker runs the ledger's transactions *)

\* Every step of the worker is a transaction of the ledger or leaves it alone.
LEMMA PassoNoLivro ==
  ASSUME TypeOKExecucao, FilaCoerente, NextExecucao
  PROVE  [Next]_vars
<1>1. CASE PassoSemJob
  BY <1>1 DEF PassoSemJob, Next, PassoDoRepasse
<1>2. CASE \E r \in Repasses : LerParaRetentar(r) \/ MudarDestino(r)
  BY <1>2 DEF LerParaRetentar, MudarDestino
<1>3. CASE \E r \in Repasses, j \in Jobs : PassoDoAdmin(r, j)
  <2>1. PICK r \in Repasses, j \in Jobs : PassoDoAdmin(r, j)
    BY <1>3
  <2>2. CASE AprovarEEnfileirar(r, j) \/ ReenviarEEnfileirar(r, j)
    BY <2>2 DEF AprovarEEnfileirar, ReenviarEEnfileirar, Next, PassoDoRepasse
  <2>3. CASE RecuperarEEnfileirar(r, j)
    <3>1. tentativas[r] \in 0..MaxTentativas
      BY DEF TypeOKExecucao, TypeOK
    <3> QED
      BY <2>3, <3>1 DEF RecuperarEEnfileirar, Next, PassoDoRepasse
  <2>4. CASE Retentar(r, j)
    BY <2>4 DEF Retentar
  <2> QED
    BY <2>1, <2>2, <2>3, <2>4 DEF PassoDoAdmin
<1>4. CASE \E j \in Jobs : ExpirarJob(j)
  BY <1>4 DEF ExpirarJob
<1>5. CASE \E e \in Execucoes, j \in Jobs : Buscar(e, j)
  BY <1>5 DEF Buscar
<1>6. CASE \E e \in Execucoes : PassoDoHandler(e) \/ Morrer(e)
  <2>1. PICK e \in Execucoes : PassoDoHandler(e) \/ Morrer(e)
    BY <1>6
  <2>2. exec[e].passo # "ociosa" => RepasseDaExec(e) \in Repasses
    BY DEF FilaCoerente, RepasseDaExec
  <2>3. CASE Iniciar(e)
    BY <2>2, <2>3 DEF Iniciar, Next, PassoDoRepasse
  <2>4. CASE Reconciliar(e)
    BY <2>2, <2>4 DEF Reconciliar, Next, PassoDoRepasse
  <2>5. CASE Finalizar(e)
    BY <2>2, <2>5 DEF Finalizar, Next, PassoDoRepasse
  <2>6. CASE EnviarPix(e) \/ Encerrar(e) \/ Morrer(e)
    BY <2>6 DEF EnviarPix, Encerrar, Morrer
  <2> QED
    BY <2>1, <2>3, <2>4, <2>5, <2>6 DEF PassoDoHandler
<1> QED
  BY <1>1, <1>2, <1>3, <1>4, <1>5, <1>6 DEF NextExecucao

-----------------------------------------------------------------------------
(* Types and the queue *)

LEMMA TipoExecucaoInicial ==
  InitExecucao => TypeOKExecucao /\ FilaCoerente
<1> SUFFICES ASSUME InitExecucao PROVE TypeOKExecucao /\ FilaCoerente
  OBVIOUS
<1>1. TypeOK
  BY TipoInicial DEF InitExecucao
<1> QED
  BY <1>1 DEF InitExecucao, TypeOKExecucao, FilaCoerente, JobLivre, Ociosa

\* What every step does to jobs and handlers, types of the ledger aside.
TipoDaFila ==
  fila \in [Jobs -> [estado   : {"livre", "pronto", "ativo", "concluido", "morto"},
                     repasse  : Repasses \cup {SemRepasse},
                     origem   : {"nenhuma", "aprovacao", "recuperacao", "retentativa"},
                     entregas : 0..(RetryLimit + 1)]]
Manipulador ==
  [passo     : {"ociosa", "iniciando", "reconciliando", "enviando", "respondida",
                "encerrando"},
   job       : Jobs \cup {SemJob},
   dona      : BOOLEAN,
   destino   : BOOLEAN,
   tentativa : 0..MaxTentativas,
   resposta  : {"nenhuma", "aceito", "rejeitado", "transitoria", "ambigua",
                "sem_destino", "ok", "erro"}]
TipoDeExec == exec \in [Execucoes -> Manipulador]

LEMMA FilaDoEnfileirar ==
  ASSUME TypeOKExecucao, FilaCoerente, NEW r \in Repasses, NEW j \in Jobs,
         NEW o \in {"aprovacao", "recuperacao", "retentativa"},
         Enfileirar(j, r, o), exec' = exec
  PROVE  TipoDaFila' /\ TipoDeExec' /\ FilaCoerente'
<1>1. fila' = [fila EXCEPT ![j] = [estado |-> "pronto", repasse |-> r,
                                   origem |-> o, entregas |-> 0]]
      /\ fila[j].estado = "livre"
  BY DEF Enfileirar
<1>2. TipoDaFila'
  BY <1>1 DEF TypeOKExecucao, TipoDaFila
<1>3. TipoDeExec'
  BY DEF TypeOKExecucao, TipoDeExec, Manipulador
<1>4. \A i \in Jobs : i # j => fila'[i] = fila[i]
  BY <1>1 DEF TypeOKExecucao
<1>5. fila'[j].estado = "pronto" /\ fila'[j].repasse = r /\ fila'[j].entregas = 0
  BY <1>1 DEF TypeOKExecucao
<1> QED
  BY <1>2, <1>3, <1>4, <1>5 DEF FilaCoerente

\* Settling a delivery that failed.
LEMMA DestinoDoJob ==
  ASSUME NEW j \in Jobs
  PROVE  /\ DepoisDeFalhar(j) \in {"pronto", "morto"}
         /\ DepoisDeFalhar(j) = "pronto" => fila[j].entregas <= RetryLimit
  BY DEF DepoisDeFalhar

LEMMA FilaDoExpirar ==
  ASSUME TypeOKExecucao, FilaCoerente, NEW j \in Jobs, ExpirarJob(j)
  PROVE  TipoDaFila' /\ TipoDeExec' /\ FilaCoerente'
<1> DEFINE vivas == {e \in Execucoes : exec[e].job = j /\ exec[e].dona}
<1>1. fila' = [fila EXCEPT ![j].estado = DepoisDeFalhar(j)]
  BY DEF ExpirarJob
<1>2. exec' = [e \in Execucoes |-> IF e \in vivas THEN [exec[e] EXCEPT !.dona = FALSE]
                                                  ELSE exec[e]]
  BY DEF ExpirarJob
<1>3. \A i \in Jobs : /\ fila'[i].repasse = fila[i].repasse
                      /\ fila'[i].entregas = fila[i].entregas
                      /\ i # j => fila'[i].estado = fila[i].estado
  BY <1>1 DEF TypeOKExecucao
<1>4. fila'[j].estado = DepoisDeFalhar(j) /\ fila[j].estado = "ativo"
  BY <1>1 DEF TypeOKExecucao, ExpirarJob
<1>5. \A e \in Execucoes : exec'[e].passo = exec[e].passo /\ exec'[e].job = exec[e].job
  BY <1>2 DEF TypeOKExecucao
<1>6. TipoDaFila'
  BY <1>1, DestinoDoJob, SMTT(60) DEF TypeOKExecucao, TipoDaFila
<1> HIDE DEF vivas
<1>7. TipoDeExec'
  <2>1. \A e \in Execucoes : exec[e] \in Manipulador
    BY DEF TypeOKExecucao, Manipulador
  <2>2. ASSUME NEW h \in Manipulador
        PROVE  [h EXCEPT !.dona = FALSE] \in Manipulador
    BY DEF Manipulador
  <2> QED
    BY <1>2, <2>1, <2>2 DEF TipoDeExec
<1>8. \A i \in Jobs : /\ fila'[i].estado # "livre" => fila'[i].repasse \in Repasses
                      /\ fila'[i].estado = "pronto" => fila'[i].entregas <= RetryLimit
                      /\ fila[i].estado # "livre" => fila'[i].estado # "livre"
  BY <1>3, <1>4, DestinoDoJob DEF FilaCoerente
<1>9. \A e \in Execucoes : exec'[e].passo # "ociosa" =>
        exec'[e].job \in Jobs /\ fila'[exec'[e].job].estado # "livre"
  BY <1>5, <1>8 DEF FilaCoerente
<1> QED
  BY <1>6, <1>7, <1>8, <1>9 DEF FilaCoerente

LEMMA FilaDoBuscar ==
  ASSUME TypeOKExecucao, FilaCoerente, NEW e \in Execucoes, NEW j \in Jobs, Buscar(e, j)
  PROVE  TipoDaFila' /\ TipoDeExec' /\ FilaCoerente'
<1>1. /\ fila' = [fila EXCEPT ![j].estado = "ativo", ![j].entregas = @ + 1]
      /\ exec' = [exec EXCEPT ![e] = [Ociosa EXCEPT
                    !.passo = "iniciando", !.job = j, !.dona = TRUE,
                    !.destino = fila[j].repasse \notin semDestino]]
      /\ fila[j].estado = "pronto" /\ fila[j].entregas <= RetryLimit
  BY DEF Buscar, FilaCoerente
<1>2. \A i \in Jobs : /\ fila'[i].repasse = fila[i].repasse
                      /\ i # j => fila'[i] = fila[i]
  BY <1>1 DEF TypeOKExecucao
<1>3. fila'[j].estado = "ativo"
  BY <1>1 DEF TypeOKExecucao
<1>4. /\ exec'[e].passo = "iniciando" /\ exec'[e].job = j
      /\ \A f \in Execucoes : f # e => exec'[f] = exec[f]
  BY <1>1 DEF TypeOKExecucao, Ociosa
<1>5. TipoDaFila'
  BY <1>1 DEF TypeOKExecucao, TipoDaFila
<1>6. TipoDeExec'
  BY <1>1 DEF TypeOKExecucao, TipoDeExec, Manipulador, Ociosa
<1>7. \A i \in Jobs : /\ fila'[i].estado # "livre" => fila'[i].repasse \in Repasses
                      /\ fila'[i].estado = "pronto" => fila'[i].entregas <= RetryLimit
                      /\ fila[i].estado # "livre" => fila'[i].estado # "livre"
  BY <1>1, <1>2, <1>3 DEF FilaCoerente
<1>8. \A f \in Execucoes : exec'[f].passo # "ociosa" =>
        exec'[f].job \in Jobs /\ fila'[exec'[f].job].estado # "livre"
  BY <1>3, <1>4, <1>7 DEF FilaCoerente
<1> QED
  BY <1>5, <1>6, <1>7, <1>8 DEF FilaCoerente

LEMMA FilaDoMorrer ==
  ASSUME TypeOKExecucao, FilaCoerente, NEW e \in Execucoes, Morrer(e)
  PROVE  TipoDaFila' /\ TipoDeExec' /\ FilaCoerente'
  BY DEF Morrer, TypeOKExecucao, FilaCoerente, TipoDaFila, TipoDeExec, Manipulador, Ociosa

LEMMA FilaDoEncerrar ==
  ASSUME TypeOKExecucao, FilaCoerente, NEW e \in Execucoes, Encerrar(e)
  PROVE  TipoDaFila' /\ TipoDeExec' /\ FilaCoerente'
<1> DEFINE j == exec[e].job
<1>1. j \in Jobs /\ fila[j].estado # "livre" /\ exec' = [exec EXCEPT ![e] = Ociosa]
  BY DEF Encerrar, FilaCoerente
<1>2. PICK s \in {"concluido", DepoisDeFalhar(j)} :
        fila' = fila \/ fila' = [fila EXCEPT ![j].estado = s]
  BY DEF Encerrar
<1>3. s \in {"concluido", "pronto", "morto"} /\ (s = "pronto" => fila[j].entregas <= RetryLimit)
  BY <1>1, <1>2, DestinoDoJob
<1> HIDE DEF j
<1>4. \A i \in Jobs : /\ fila'[i].repasse = fila[i].repasse
                      /\ fila'[i].entregas = fila[i].entregas
                      /\ fila'[i].estado = fila[i].estado \/ (i = j /\ fila'[i].estado = s)
  BY <1>1, <1>2 DEF TypeOKExecucao
<1>5. TipoDaFila'
  BY <1>1, <1>2, <1>3, SMTT(60) DEF TypeOKExecucao, TipoDaFila
<1>6. TipoDeExec'
  BY <1>1 DEF TypeOKExecucao, TipoDeExec, Manipulador, Ociosa
<1>7. \A f \in Execucoes : exec'[f] = exec[f] \/ exec'[f].passo = "ociosa"
  BY <1>1 DEF TypeOKExecucao, Ociosa
<1>8. \A i \in Jobs : /\ fila'[i].estado # "livre" => fila'[i].repasse \in Repasses
                      /\ fila'[i].estado = "pronto" => fila'[i].entregas <= RetryLimit
                      /\ fila[i].estado # "livre" => fila'[i].estado # "livre"
  BY <1>1, <1>3, <1>4 DEF FilaCoerente
<1>9. \A f \in Execucoes : exec'[f].passo # "ociosa" =>
        exec'[f].job \in Jobs /\ fila'[exec'[f].job].estado # "livre"
  BY <1>7, <1>8 DEF FilaCoerente
<1> QED
  BY <1>5, <1>6, <1>8, <1>9 DEF FilaCoerente

\* A handler that moves on in its own program.
Avanca(e, p, t, x) ==
  exec' = [exec EXCEPT ![e].passo = p, ![e].tentativa = t, ![e].resposta = x]

LEMMA FilaDoAvanco ==
  ASSUME TypeOKExecucao, FilaCoerente, NEW e \in Execucoes, exec[e].passo # "ociosa",
         NEW p \in {"reconciliando", "enviando", "respondida", "encerrando"},
         NEW t \in 0..MaxTentativas,
         NEW x \in {"nenhuma", "aceito", "rejeitado", "transitoria", "ambigua",
                    "sem_destino", "ok", "erro"},
         Avanca(e, p, t, x), fila' = fila
  PROVE  /\ TipoDaFila' /\ TipoDeExec' /\ FilaCoerente'
         /\ exec'[e].passo = p /\ exec'[e].tentativa = t /\ exec'[e].resposta = x
         /\ RepasseDaExec(e)' = RepasseDaExec(e)
         /\ \A f \in Execucoes : f # e => exec'[f] = exec[f]
<1>1. /\ exec'[e].passo = p /\ exec'[e].tentativa = t /\ exec'[e].resposta = x
      /\ exec'[e].job = exec[e].job
      /\ \A f \in Execucoes : f # e => exec'[f] = exec[f]
  BY DEF Avanca, TypeOKExecucao
<1>2. TipoDaFila'
  BY DEF TypeOKExecucao, TipoDaFila
<1>3. TipoDeExec'
  <2>1. exec \in [Execucoes -> Manipulador]
    BY DEF TypeOKExecucao, Manipulador
  <2>2. ASSUME NEW h \in Manipulador
        PROVE  [h EXCEPT !.passo = p, !.tentativa = t, !.resposta = x] \in Manipulador
    BY DEF Manipulador
  <2>3. exec' = [exec EXCEPT ![e] = [exec[e] EXCEPT !.passo = p, !.tentativa = t,
                                                    !.resposta = x]]
    BY <2>1 DEF Avanca, Manipulador
  <2> QED
    BY <2>1, <2>2, <2>3 DEF TipoDeExec
<1>4. \A f \in Execucoes : exec'[f].job = exec[f].job
                           /\ (exec'[f].passo # "ociosa" => exec[f].passo # "ociosa")
  BY <1>1
<1>5. FilaCoerente'
  BY <1>4 DEF FilaCoerente
<1> QED
  BY <1>1, <1>2, <1>3, <1>5 DEF RepasseDaExec

\* Each step of a handler, as such a move.
LEMMA AvancoDoIniciar ==
  ASSUME TypeOKExecucao, FilaCoerente, NEW e \in Execucoes, Iniciar(e)
  PROVE  /\ UNCHANGED <<fila, aceitos, recuperacoes, retentando, semDestino, quedas>>
         /\ \/ /\ UNCHANGED vars
               /\ \E p \in {"reconciliando", "encerrando"}, t \in 0..MaxTentativas,
                     x \in {"nenhuma", "ok", "erro"} : Avanca(e, p, t, x)
            \/ /\ IniciarTransferencia(RepasseDaExec(e))
               /\ \/ Avanca(e, "enviando", tentativas'[RepasseDaExec(e)], "nenhuma")
                  \/ Avanca(e, "respondida", tentativas'[RepasseDaExec(e)], "sem_destino")
<1>1. exec[e].tentativa \in 0..MaxTentativas /\ 0 \in 0..MaxTentativas
  BY DEF TypeOKExecucao
<1> QED
  BY <1>1 DEF Iniciar, Lancar, Retornar, Seguir, Avanca

LEMMA AvancoDoReconciliar ==
  ASSUME TypeOKExecucao, FilaCoerente, NEW e \in Execucoes, Reconciliar(e)
  PROVE  /\ UNCHANGED <<fila, aceitos, recuperacoes, retentando, semDestino, quedas>>
         /\ UNCHANGED vars \/ FinalizarVerificando(RepasseDaExec(e))
         /\ \E x \in {"ok", "erro"} : Avanca(e, "encerrando", exec[e].tentativa, x)
  BY DEF Reconciliar, Lancar, Retornar, Seguir, Avanca

LEMMA AvancoDoEnviar ==
  ASSUME TypeOKExecucao, FilaCoerente, NEW e \in Execucoes, EnviarPix(e)
  PROVE  /\ UNCHANGED <<fila, recuperacoes, retentando, semDestino, quedas>>
         /\ UNCHANGED vars
         /\ \E x \in {"aceito", "rejeitado", "transitoria", "ambigua"} :
              /\ Avanca(e, "respondida", exec[e].tentativa, x)
              /\ \/ /\ x \in {"aceito", "ambigua"}
                    /\ aceitos' = aceitos \cup {<<RepasseDaExec(e), exec[e].tentativa>>}
                 \/ x # "aceito" /\ aceitos' = aceitos
<1>1. PICK x \in {"aceito", "rejeitado", "transitoria", "ambigua"} :
        /\ exec' = [exec EXCEPT ![e].passo = "respondida", ![e].resposta = x]
        /\ \/ /\ x \in {"aceito", "ambigua"}
              /\ aceitos' = aceitos \cup {<<RepasseDaExec(e), exec[e].tentativa>>}
           \/ x # "aceito" /\ aceitos' = aceitos
  BY DEF EnviarPix
<1>2. Avanca(e, "respondida", exec[e].tentativa, x)
  BY <1>1 DEF Avanca, TypeOKExecucao
<1> QED
  BY <1>1, <1>2 DEF EnviarPix

LEMMA AvancoDoFinalizar ==
  ASSUME TypeOKExecucao, FilaCoerente, TentativaUnica, NEW e \in Execucoes, Finalizar(e)
  PROVE  /\ UNCHANGED <<fila, aceitos, recuperacoes, retentando, semDestino, quedas>>
         /\ \E x \in {"ok", "erro"} : Avanca(e, "encerrando", exec[e].tentativa, x)
         /\ \/ UNCHANGED vars
            \/ exec[e].resposta = "aceito" /\ FinalizarEnviado(RepasseDaExec(e))
            \/ exec[e].resposta = "ambigua" /\ FinalizarVerificando(RepasseDaExec(e))
            \/ /\ exec[e].resposta \in RespostaNegativa
               /\ FinalizarFalhou(RepasseDaExec(e)) \/ FinalizarTransitorio(RepasseDaExec(e))
<1> DEFINE x == exec[e].resposta
           d == Desfecho(x, exec[e].tentativa)
<1>1. /\ x = "aceito" => d = "enviado"
      /\ x = "ambigua" => d = "verificando"
      /\ x \in RespostaNegativa => d \in {"falhou", "transitorio"}
  BY DEF Desfecho, RespostaNegativa
<1>2. x \in RespostaNegativa \cup {"ambigua", "aceito"}
  BY DEF TentativaUnica, Finalizar
<1>3. /\ UNCHANGED <<fila, aceitos, recuperacoes, retentando, semDestino, quedas>>
      /\ \E y \in {"ok", "erro"} : Avanca(e, "encerrando", exec[e].tentativa, y)
  BY DEF Finalizar, Lancar, Retornar, Seguir, Avanca
<1>4. \/ UNCHANGED vars
      \/ d = "enviado" /\ FinalizarEnviado(RepasseDaExec(e))
      \/ d = "verificando" /\ FinalizarVerificando(RepasseDaExec(e))
      \/ d = "falhou" /\ FinalizarFalhou(RepasseDaExec(e))
      \/ d = "transitorio" /\ FinalizarTransitorio(RepasseDaExec(e))
  BY DEF Finalizar
<1> HIDE DEF d
<1> QED
  BY <1>1, <1>2, <1>3, <1>4

-----------------------------------------------------------------------------
(* Attempts *)

\* What a transaction that involves no attempt does to the payouts.
Quieto ==
  /\ tentativas' = tentativas
  /\ \A r \in Repasses :
        /\ status[r] \in BLOCKING_REPASSE_STATUSES => status'[r] \in BLOCKING_REPASSE_STATUSES
        /\ status'[r] \in {"transferindo", "verificando"} =>
              status[r] \in {"transferindo", "verificando"}
        /\ status'[r] = "enviado_ao_banco" => status[r] = "enviado_ao_banco"

LEMMA AprovacaoQuieta ==
  ASSUME TypeOK, NEW r \in Repasses, AprovarRepassePix(r) \/ ReenviarContaPeloInter(r)
  PROVE  Quieto
  BY DEF Quieto, TypeOK, AprovarRepassePix, ReenviarContaPeloInter,
         BLOCKING_REPASSE_STATUSES, repasseVars

LEMMA PassoSemJobQuieto ==
  ASSUME TypeOK, PassoSemJob
  PROVE  Quieto /\ UNCHANGED execVars
<1> USE DEF Quieto, TypeOK, BLOCKING_REPASSE_STATUSES, repasseVars
<1>1. ASSUME NEW r \in Repasses, NEW c \in Campanhas, PreflightSolicitar(r, c)
      PROVE  Quieto
  BY <1>1 DEF PreflightSolicitar
<1>2. ASSUME NEW r \in Repasses, SolicitarRepasse(r)
      PROVE  Quieto
  BY <1>2 DEF SolicitarRepasse
<1>3. ASSUME NEW r \in Repasses, NEW comRef \in BOOLEAN, AprovarRepasse(r, comRef)
      PROVE  Quieto
  BY <1>3 DEF AprovarRepasse
<1>4. ASSUME NEW r \in Repasses, CancelarRepasse(r)
      PROVE  Quieto
  BY <1>4 DEF CancelarRepasse, PodeCancelar, CancelamentoMed
<1>5. ASSUME NEW r \in Repasses, ResolverManualPago(r)
      PROVE  Quieto
  BY <1>5 DEF ResolverManualPago
<1>6. ASSUME NEW p \in Pagamentos, LiberarSaldo(p) \/ PassoDaContestacao(p)
      PROVE  Quieto
  BY <1>6, EfeitoDosDemais
<1>7. ASSUME NEW p \in Pagamentos, PassoDoEstorno(p)
      PROVE  Quieto
  <2>1. UNCHANGED repasseVars
    BY <1>7 DEF PassoDoEstorno, ReservarEstornoStripe, IniciarEstornoStripe,
       RegistrarRespostaStripe, ConvergirEstornoStripe, ObservarEstornoStripe,
       CriarDevolucaoPix, ApagarDevolucaoPix, AtualizarDevolucaoPix,
       EstornarPagamentoPix, CancelarLinhasPix, MudarEstorno, ConvergirStripe
  <2> QED
    BY <2>1
<1> QED
  BY <1>1, <1>2, <1>3, <1>4, <1>5, <1>6, <1>7 DEF PassoSemJob

\* The committed attempts are finitely many, and a subset of them is no larger.
LEMMA ComprometidasFinitas ==
  ASSUME NEW S, S \subseteq 1..MaxTentativas
  PROVE  /\ IsFiniteSet(S) /\ Cardinality(S) \in Nat
         /\ \A T \in SUBSET S : Cardinality(T) \in Nat /\ Cardinality(T) <= Cardinality(S)
<1>1. IsFiniteSet(S)
  <2>1. 1 \in Int /\ MaxTentativas \in Int
    OBVIOUS
  <2>2. IsFiniteSet(1..MaxTentativas)
    BY <2>1, FS_Interval
  <2> QED
    BY <2>2, FS_Subset
<1>2. \A T \in SUBSET S : IsFiniteSet(T) /\ Cardinality(T) <= Cardinality(S)
  BY <1>1, FS_Subset
<1> QED
  BY <1>1, <1>2, FS_CardinalityType

Limite(r) == recuperacoes[r] + Um(r, BLOCKING_REPASSE_STATUSES)

\* A payout stays within its limit when its committed attempts do not grow and
\* the limit does not shrink.
LEMMA OrcamentoDe ==
  ASSUME TypeOKExecucao, TypeOKExecucao', NEW r \in Repasses,
         Cardinality(Comprometidas(r)) <= Limite(r),
         Comprometidas(r)' \subseteq Comprometidas(r),
         Limite(r) <= Limite(r)'
  PROVE  Cardinality(Comprometidas(r)') <= Limite(r)'
<1>1. Comprometidas(r) \subseteq 1..MaxTentativas
  BY DEF Comprometidas
<1>2. /\ Cardinality(Comprometidas(r)) \in Nat
      /\ Cardinality(Comprometidas(r)') \in Nat
      /\ Cardinality(Comprometidas(r)') <= Cardinality(Comprometidas(r))
  BY <1>1, ComprometidasFinitas
<1>3. Limite(r) \in Nat /\ Limite(r)' \in Nat
  BY DEF Limite, Um, TypeOKExecucao
<1> QED
  BY <1>2, <1>3

LEMMA OrcamentoMantido ==
  ASSUME TypeOKExecucao, TypeOKExecucao', Orcamento,
         \A r \in Repasses : Comprometidas(r)' \subseteq Comprometidas(r)
                             /\ Limite(r) <= Limite(r)'
  PROVE  Orcamento'
  BY OrcamentoDe DEF Orcamento, Limite

\* Attempts in hand pass unchanged through a step that concerns none of them.
LEMMA TentativasHerdadas ==
  ASSUME TentativaUnica, aceitos' = aceitos, tentativas' = tentativas,
         \A e \in Execucoes : EmCurso(e)' =>
            /\ exec'[e].passo = exec[e].passo
            /\ exec'[e].tentativa = exec[e].tentativa
            /\ exec'[e].resposta = exec[e].resposta
            /\ RepasseDaExec(e)' = RepasseDaExec(e)
  PROVE  /\ TentativaUnica'
         /\ \A r \in Repasses : Comprometidas(r)' \subseteq Comprometidas(r)
<1>1. \A e \in Execucoes : /\ EmCurso(e)' => EmCurso(e)
                           /\ EmAberto(e)' => EmAberto(e) /\ EmCurso(e)'
  BY DEF EmCurso, EmAberto
<1>2. \A r \in Repasses : Comprometidas(r)' \subseteq Comprometidas(r)
  BY <1>1 DEF Comprometidas
<1>3. TentativaUnica'
  BY <1>1 DEF TentativaUnica, EmCurso
<1> QED
  BY <1>2, <1>3

\* ... in particular when a job is added, delivered, expires or is settled.
LEMMA JobsGuardamRepasse ==
  ASSUME FilaCoerente, NEW e \in Execucoes, exec[e].passo # "ociosa",
         exec'[e].job = exec[e].job,
         \A j \in Jobs : fila[j].estado # "livre" => fila'[j].repasse = fila[j].repasse
  PROVE  RepasseDaExec(e)' = RepasseDaExec(e)
  BY DEF FilaCoerente, RepasseDaExec

\* Types of what the queue, the handlers and the ledger's own types leave out.
OutrosTipos ==
  /\ aceitos \subseteq Repasses \X (1..MaxTentativas)
  /\ recuperacoes \in [Repasses -> 0..MaxTentativas]
  /\ retentando \subseteq Repasses
  /\ semDestino \subseteq Repasses
  /\ quedas \in 0..MaxQuedas

LEMMA TipoMontado ==
  ASSUME TypeOK', TipoDaFila', TipoDeExec', OutrosTipos'
  PROVE  TypeOKExecucao'
  BY DEF TypeOKExecucao, TipoDaFila, TipoDeExec, Manipulador, OutrosTipos

\* The invariant through every step that neither opens, sends nor settles an attempt.
LEMMA PassoQuieto ==
  ASSUME InvarianteExecucao, Quieto, TypeOK', TipoDaFila', TipoDeExec', FilaCoerente',
         OutrosTipos', UNCHANGED <<aceitos, recuperacoes>>,
         \A e \in Execucoes : EmCurso(e)' =>
            /\ exec'[e].passo = exec[e].passo
            /\ exec'[e].tentativa = exec[e].tentativa
            /\ exec'[e].resposta = exec[e].resposta
            /\ RepasseDaExec(e)' = RepasseDaExec(e)
  PROVE  InvarianteExecucao'
<1> USE DEF InvarianteExecucao
<1>1. TypeOKExecucao'
  BY TipoMontado
<1>2. TentativaUnica' /\ \A r \in Repasses : Comprometidas(r)' \subseteq Comprometidas(r)
  BY TentativasHerdadas DEF Quieto
<1>3. RecuperacoesContadas'
  <2> SUFFICES ASSUME NEW r \in Repasses
               PROVE  recuperacoes'[r] + Um(r, {"transferindo", "verificando"})'
                          <= tentativas'[r]
    BY DEF RecuperacoesContadas
  <2>1. recuperacoes[r] + Um(r, {"transferindo", "verificando"}) <= tentativas[r]
    BY DEF RecuperacoesContadas
  <2>2. /\ recuperacoes[r] \in Nat /\ tentativas[r] \in Nat
        /\ recuperacoes'[r] = recuperacoes[r] /\ tentativas'[r] = tentativas[r]
        /\ status'[r] \in {"transferindo", "verificando"} =>
              status[r] \in {"transferindo", "verificando"}
    BY DEF TypeOKExecucao, TypeOK, Quieto
  <2> QED
    BY <2>1, <2>2 DEF Um
<1>4. \A r \in Repasses : Limite(r) <= Limite(r)'
  <2> SUFFICES ASSUME NEW r \in Repasses PROVE Limite(r) <= Limite(r)'
    OBVIOUS
  <2>1. /\ recuperacoes[r] \in Nat /\ recuperacoes'[r] = recuperacoes[r]
        /\ status[r] \in BLOCKING_REPASSE_STATUSES => status'[r] \in BLOCKING_REPASSE_STATUSES
    BY DEF TypeOKExecucao, Quieto
  <2> QED
    BY <2>1 DEF Limite, Um
<1>5. Orcamento'
  BY <1>1, <1>2, <1>4, OrcamentoMantido
<1>6. EnviadoTemPix'
  BY DEF EnviadoTemPix, PixAceitos, Quieto
<1> QED
  BY <1>1, <1>2, <1>3, <1>5, <1>6

\* An admin recovers a payout in doubt: one more attempt, one more recovery.
LEMMA PassoDaRecuperacao ==
  ASSUME InvarianteExecucao, TypeOK', NEW r \in Repasses, NEW j \in Jobs,
         RecuperarEEnfileirar(r, j)
  PROVE  InvarianteExecucao'
<1> USE DEF InvarianteExecucao
<1>1. /\ status[r] = "verificando" /\ status' = [status EXCEPT ![r] = "aprovado"]
      /\ recuperacoes' = [recuperacoes EXCEPT ![r] = @ + 1]
      /\ UNCHANGED <<tentativas, exec, aceitos, retentando, semDestino, quedas>>
      /\ Enfileirar(j, r, "recuperacao")
  BY DEF RecuperarEEnfileirar, RecuperarRepasse
<1>2. TipoDaFila' /\ TipoDeExec' /\ FilaCoerente'
  BY <1>1, FilaDoEnfileirar
<1>3. recuperacoes[r] + 1 <= tentativas[r]
  BY <1>1 DEF RecuperacoesContadas, Um
<1>4. recuperacoes[r] + 1 \in 0..MaxTentativas
  BY <1>3 DEF TypeOKExecucao, TypeOK
<1>5. TypeOKExecucao'
  BY <1>1, <1>2, <1>4, TipoMontado DEF OutrosTipos, TypeOKExecucao
<1>6. /\ recuperacoes'[r] = recuperacoes[r] + 1 /\ status'[r] = "aprovado"
      /\ \A q \in Repasses : q # r => recuperacoes'[q] = recuperacoes[q] /\ status'[q] = status[q]
  BY <1>1 DEF TypeOKExecucao, TypeOK
<1>7. \A i \in Jobs : fila[i].estado # "livre" => fila'[i].repasse = fila[i].repasse
  BY <1>1 DEF Enfileirar, TypeOKExecucao
<1>8. TentativaUnica' /\ \A q \in Repasses : Comprometidas(q)' \subseteq Comprometidas(q)
  <2>1. \A e \in Execucoes : EmCurso(e)' => RepasseDaExec(e)' = RepasseDaExec(e)
    BY <1>1, <1>7, JobsGuardamRepasse DEF EmCurso
  <2> QED
    BY <1>1, <2>1, TentativasHerdadas
<1>9. RecuperacoesContadas'
  <2> SUFFICES ASSUME NEW q \in Repasses
               PROVE  recuperacoes'[q] + Um(q, {"transferindo", "verificando"})'
                          <= tentativas'[q]
    BY DEF RecuperacoesContadas
  <2>1. CASE q = r
    BY <1>1, <1>3, <1>6, <2>1 DEF Um, TypeOKExecucao, TypeOK
  <2>2. CASE q # r
    BY <1>1, <1>6, <2>2 DEF Um, RecuperacoesContadas
  <2> QED
    BY <2>1, <2>2
<1>10. \A q \in Repasses : Limite(q) <= Limite(q)'
  <2> SUFFICES ASSUME NEW q \in Repasses PROVE Limite(q) <= Limite(q)'
    OBVIOUS
  <2>1. recuperacoes[q] \in Nat /\ "verificando" \in BLOCKING_REPASSE_STATUSES
    BY DEF TypeOKExecucao, BLOCKING_REPASSE_STATUSES
  <2> QED
    BY <1>1, <1>6, <2>1 DEF Limite, Um
<1>11. Orcamento'
  BY <1>5, <1>8, <1>10, OrcamentoMantido
<1>12. EnviadoTemPix'
  BY <1>1, <1>6 DEF EnviadoTemPix, PixAceitos
<1> QED
  BY <1>2, <1>5, <1>8, <1>9, <1>11, <1>12

-----------------------------------------------------------------------------
(* The handler's own steps *)

\* A step of a handler that leaves its attempt closed and the bank alone.
LEMMA AvancoQuieto ==
  ASSUME InvarianteExecucao, TypeOK', Quieto, NEW e \in Execucoes,
         exec[e].passo # "ociosa",
         UNCHANGED <<fila, aceitos, recuperacoes, retentando, semDestino, quedas>>,
         NEW p \in {"reconciliando", "encerrando"}, NEW t \in 0..MaxTentativas,
         NEW x \in {"nenhuma", "ok", "erro"}, Avanca(e, p, t, x)
  PROVE  InvarianteExecucao'
<1>1. /\ TipoDaFila' /\ TipoDeExec' /\ FilaCoerente' /\ exec'[e].passo = p
      /\ \A f \in Execucoes : f # e => exec'[f] = exec[f]
  BY FilaDoAvanco DEF InvarianteExecucao
<1>2. \A f \in Execucoes : EmCurso(f)' =>
        /\ exec'[f].passo = exec[f].passo
        /\ exec'[f].tentativa = exec[f].tentativa
        /\ exec'[f].resposta = exec[f].resposta
        /\ RepasseDaExec(f)' = RepasseDaExec(f)
  BY <1>1 DEF EmCurso, RepasseDaExec
<1>3. OutrosTipos'
  BY DEF InvarianteExecucao, TypeOKExecucao, OutrosTipos
<1> QED
  BY <1>1, <1>2, <1>3, PassoQuieto

\* The claim opens one attempt, with a number of its own, and makes the payout
\* hold that money may be moving.
LEMMA PassoDaReivindicacao ==
  ASSUME InvarianteExecucao, TypeOK', NEW e \in Execucoes, exec[e].passo = "iniciando",
         UNCHANGED <<fila, aceitos, recuperacoes, retentando, semDestino, quedas>>,
         IniciarTransferencia(RepasseDaExec(e)),
         NEW p \in {"enviando", "respondida"}, NEW x \in {"nenhuma", "sem_destino"},
         p = "enviando" \/ x = "sem_destino",
         Avanca(e, p, tentativas'[RepasseDaExec(e)], x)
  PROVE  InvarianteExecucao'
<1> USE DEF InvarianteExecucao
<1>1. PICK r \in Repasses : r = RepasseDaExec(e)
  BY DEF FilaCoerente, RepasseDaExec
<1>2. /\ status[r] \in {"aprovado", "falhou"}
      /\ status' = [status EXCEPT ![r] = "transferindo"]
      /\ tentativas' = [tentativas EXCEPT ![r] = @ + 1]
      /\ tentativas[r] < MaxTentativas
  BY <1>1 DEF IniciarTransferencia, AcaoIniciar
<1>3. PICK n \in 1..MaxTentativas : n = tentativas[r] + 1
  BY <1>2 DEF TypeOKExecucao, TypeOK
<1>4. /\ status'[r] = "transferindo" /\ tentativas'[r] = n
      /\ tentativas[r] \in Nat
      /\ \A q \in Repasses : q # r => status'[q] = status[q] /\ tentativas'[q] = tentativas[q]
  BY <1>2, <1>3 DEF TypeOKExecucao, TypeOK
<1>5. Avanca(e, p, n, x) /\ n \in 0..MaxTentativas
  BY <1>1, <1>4
<1>6. /\ TipoDaFila' /\ TipoDeExec' /\ FilaCoerente'
      /\ exec'[e].passo = p /\ exec'[e].tentativa = n /\ exec'[e].resposta = x
      /\ RepasseDaExec(e)' = r
      /\ \A f \in Execucoes : f # e => exec'[f] = exec[f]
  BY <1>1, <1>5, FilaDoAvanco
<1>7. \A f \in Execucoes : f # e =>
        /\ EmCurso(f)' = EmCurso(f) /\ EmAberto(f)' = EmAberto(f)
        /\ RepasseDaExec(f)' = RepasseDaExec(f)
  BY <1>6 DEF EmCurso, EmAberto, RepasseDaExec
<1>8. TypeOKExecucao'
  BY <1>6, TipoMontado DEF OutrosTipos, TypeOKExecucao
<1>9. TentativaUnica'
  <2>1. \A f \in Execucoes : EmCurso(f) =>
          /\ RepasseDaExec(f) \in Repasses
          /\ exec[f].tentativa \in 1..tentativas[RepasseDaExec(f)]
    BY DEF TentativaUnica, EmCurso, FilaCoerente, RepasseDaExec
  <2>2. \A q \in Repasses : tentativas[q] \in Nat /\ tentativas'[q] \in Nat
                            /\ tentativas[q] <= tentativas'[q]
    BY <1>3, <1>4 DEF TypeOKExecucao, TypeOK
  <2>3. \A f \in Execucoes : EmCurso(f)' =>
          exec'[f].tentativa \in 1..tentativas'[RepasseDaExec(f)']
    <3> SUFFICES ASSUME NEW f \in Execucoes, EmCurso(f)'
                 PROVE  exec'[f].tentativa \in 1..tentativas'[RepasseDaExec(f)']
      OBVIOUS
    <3>1. CASE f = e
      BY <1>4, <1>6, <3>1
    <3>2. CASE f # e
      BY <1>6, <1>7, <2>1, <2>2, <3>2
    <3> QED
      BY <3>1, <3>2
  <2>4. \A f, g \in Execucoes :
          f # g /\ EmCurso(f)' /\ EmCurso(g)' /\ RepasseDaExec(f)' = RepasseDaExec(g)'
              => exec'[f].tentativa # exec'[g].tentativa
    <3>1. \A f \in Execucoes : f # e /\ EmCurso(f) /\ RepasseDaExec(f) = r
                                  => exec[f].tentativa # n
      BY <1>3, <1>4, <2>1
    <3>2. \A f, g \in Execucoes :
            f # g /\ EmCurso(f) /\ EmCurso(g) /\ RepasseDaExec(f) = RepasseDaExec(g)
                => exec[f].tentativa # exec[g].tentativa
      BY DEF TentativaUnica
    <3> SUFFICES ASSUME NEW f \in Execucoes, NEW g \in Execucoes, f # g, EmCurso(f)',
                        EmCurso(g)', RepasseDaExec(f)' = RepasseDaExec(g)'
                 PROVE  exec'[f].tentativa # exec'[g].tentativa
      OBVIOUS
    <3>3. CASE f = e
      BY <1>6, <1>7, <3>1, <3>3
    <3>4. CASE g = e
      BY <1>6, <1>7, <3>1, <3>4
    <3>5. CASE f # e /\ g # e
      BY <1>6, <1>7, <3>2, <3>5
    <3> QED
      BY <3>3, <3>4, <3>5
  <2>5. \A q \in Repasses, m \in 1..MaxTentativas : <<q, m>> \in aceitos' => m <= tentativas'[q]
    BY <2>2 DEF TentativaUnica
  <2>6. \A f \in Execucoes : EmAberto(f)' =>
          <<RepasseDaExec(f)', exec'[f].tentativa>> \notin aceitos'
    <3>1. <<r, n>> \notin aceitos
      BY <1>3, <1>4 DEF TentativaUnica
    <3> QED
      BY <1>6, <1>7, <3>1 DEF TentativaUnica
  <2>7. \A f \in Execucoes : exec'[f].passo = "respondida" =>
          \/ exec'[f].resposta \in RespostaNegativa \cup {"ambigua"}
          \/ /\ exec'[f].resposta = "aceito"
             /\ <<RepasseDaExec(f)', exec'[f].tentativa>> \in aceitos'
    BY <1>6, <1>7 DEF TentativaUnica, RespostaNegativa
  <2> QED
    BY <2>3, <2>4, <2>5, <2>6, <2>7 DEF TentativaUnica, RespostaNegativa
<1>10. RecuperacoesContadas'
  <2> SUFFICES ASSUME NEW q \in Repasses
               PROVE  recuperacoes'[q] + Um(q, {"transferindo", "verificando"})'
                          <= tentativas'[q]
    BY DEF RecuperacoesContadas
  <2>1. recuperacoes[q] + Um(q, {"transferindo", "verificando"}) <= tentativas[q]
        /\ recuperacoes'[q] = recuperacoes[q] /\ recuperacoes[q] \in Nat
    BY DEF RecuperacoesContadas, TypeOKExecucao
  <2>2. CASE q = r
    BY <1>2, <1>3, <1>4, <2>1, <2>2 DEF Um
  <2>3. CASE q # r
    BY <1>4, <2>1, <2>3 DEF Um
  <2> QED
    BY <2>2, <2>3
<1>11. /\ Comprometidas(r)' \subseteq Comprometidas(r) \cup {n}
       /\ \A q \in Repasses : q # r => Comprometidas(q)' \subseteq Comprometidas(q)
  <2>1. \A q \in Repasses : \A m \in Comprometidas(q)' :
          m \in Comprometidas(q) \/ (q = r /\ m = n)
    BY <1>6, <1>7 DEF Comprometidas
  <2> QED
    BY <1>1, <2>1
<1>12. Orcamento'
  <2>1. Cardinality(Comprometidas(r)') <= Limite(r)'
    <3>1. Comprometidas(r) \subseteq 1..MaxTentativas
          /\ Comprometidas(r) \cup {n} \subseteq 1..MaxTentativas
      BY <1>4 DEF Comprometidas
    <3>2. /\ Cardinality(Comprometidas(r)') \in Nat
          /\ Cardinality(Comprometidas(r)') <= Cardinality(Comprometidas(r) \cup {n})
      BY <1>11, <3>1, ComprometidasFinitas
    <3>3. /\ Cardinality(Comprometidas(r)) \in Nat
          /\ Cardinality(Comprometidas(r) \cup {n}) <= Cardinality(Comprometidas(r)) + 1
      BY <3>1, ComprometidasFinitas, FS_AddElement
    <3>4. Cardinality(Comprometidas(r) \cup {n}) \in Nat
      BY <3>1, ComprometidasFinitas
    <3>5. Cardinality(Comprometidas(r)) <= Limite(r)
      BY <1>1 DEF Orcamento, Limite
    <3>6. Limite(r)' = Limite(r) + 1 /\ Limite(r) \in Nat
      <4>1. recuperacoes[r] \in Nat /\ recuperacoes'[r] = recuperacoes[r]
        BY <1>1 DEF TypeOKExecucao
      <4> QED
        BY <1>2, <1>4, <4>1 DEF Limite, Um, BLOCKING_REPASSE_STATUSES
    <3> QED
      BY <3>2, <3>3, <3>4, <3>5, <3>6
  <2>2. ASSUME NEW q \in Repasses, q # r
        PROVE  Cardinality(Comprometidas(q)') <= Limite(q)'
    <3>1. recuperacoes[q] \in Nat /\ recuperacoes'[q] = recuperacoes[q]
      BY <2>2 DEF TypeOKExecucao
    <3>2. Limite(q)' = Limite(q) /\ Limite(q) \in Nat
      BY <1>4, <2>2, <3>1 DEF Limite, Um
    <3>3. Cardinality(Comprometidas(q)) <= Limite(q)
      BY <2>2 DEF Orcamento, Limite
    <3> QED
      BY <1>8, <1>11, <2>2, <3>2, <3>3, OrcamentoDe
  <2> QED
    BY <2>1, <2>2 DEF Orcamento, Limite
<1>13. EnviadoTemPix'
  BY <1>4 DEF EnviadoTemPix, PixAceitos
<1> QED
  BY <1>6, <1>8, <1>9, <1>10, <1>12, <1>13

LEMMA PassoDoIniciar ==
  ASSUME InvarianteExecucao, TypeOK', NEW e \in Execucoes, Iniciar(e)
  PROVE  InvarianteExecucao'
<1>1. exec[e].passo = "iniciando"
  BY DEF Iniciar
<1>2. UNCHANGED <<fila, aceitos, recuperacoes, retentando, semDestino, quedas>>
  BY AvancoDoIniciar DEF InvarianteExecucao
<1>3. CASE /\ UNCHANGED vars
           /\ \E p \in {"reconciliando", "encerrando"}, t \in 0..MaxTentativas,
                 x \in {"nenhuma", "ok", "erro"} : Avanca(e, p, t, x)
  <2>1. Quieto
    BY <1>3 DEF Quieto, vars, repasseVars
  <2> QED
    BY <1>1, <1>2, <1>3, <2>1, AvancoQuieto
<1>4. CASE /\ IniciarTransferencia(RepasseDaExec(e))
           /\ \/ Avanca(e, "enviando", tentativas'[RepasseDaExec(e)], "nenhuma")
              \/ Avanca(e, "respondida", tentativas'[RepasseDaExec(e)], "sem_destino")
  BY <1>1, <1>2, <1>4, PassoDaReivindicacao
<1> QED
  BY <1>3, <1>4, AvancoDoIniciar DEF InvarianteExecucao

LEMMA PassoDoReconciliar ==
  ASSUME InvarianteExecucao, TypeOK', NEW e \in Execucoes, Reconciliar(e)
  PROVE  InvarianteExecucao'
<1>1. /\ UNCHANGED <<fila, aceitos, recuperacoes, retentando, semDestino, quedas>>
      /\ UNCHANGED vars \/ FinalizarVerificando(RepasseDaExec(e))
      /\ \E x \in {"ok", "erro"} : Avanca(e, "encerrando", exec[e].tentativa, x)
  BY AvancoDoReconciliar DEF InvarianteExecucao
<1>2. exec[e].passo # "ociosa" /\ exec[e].tentativa \in 0..MaxTentativas
  BY DEF Reconciliar, InvarianteExecucao, TypeOKExecucao
<1>3. Quieto
  BY <1>1 DEF Quieto, vars, repasseVars, FinalizarVerificando, BLOCKING_REPASSE_STATUSES,
     InvarianteExecucao, TypeOKExecucao, TypeOK
<1> QED
  BY <1>1, <1>2, <1>3, AvancoQuieto

\* The answer of the bank: the attempt is settled or, if taken, stays committed.
LEMMA PassoDoEnvio ==
  ASSUME InvarianteExecucao, TypeOK', NEW e \in Execucoes, EnviarPix(e)
  PROVE  InvarianteExecucao'
<1> USE DEF InvarianteExecucao
<1>1. PICK r \in Repasses : r = RepasseDaExec(e)
  BY DEF EnviarPix, FilaCoerente, RepasseDaExec
<1>2. PICK n \in 1..MaxTentativas : n = exec[e].tentativa /\ n <= tentativas[r]
  <2>1. exec[e].tentativa \in 1..tentativas[r]
    BY <1>1 DEF EnviarPix, EmCurso, TentativaUnica
  <2> QED
    BY <2>1 DEF TypeOKExecucao, TypeOK
<1>3. /\ exec[e].passo = "enviando"
      /\ UNCHANGED <<fila, recuperacoes, retentando, semDestino, quedas>>
      /\ UNCHANGED vars
  BY DEF EnviarPix
<1>4. PICK x \in {"aceito", "rejeitado", "transitoria", "ambigua"} :
        /\ Avanca(e, "respondida", n, x)
        /\ \/ x \in {"aceito", "ambigua"} /\ aceitos' = aceitos \cup {<<r, n>>}
           \/ x # "aceito" /\ aceitos' = aceitos
  BY <1>1, <1>2, AvancoDoEnviar
<1>5. /\ TipoDaFila' /\ TipoDeExec' /\ FilaCoerente'
      /\ exec'[e].passo = "respondida" /\ exec'[e].tentativa = n /\ exec'[e].resposta = x
      /\ RepasseDaExec(e)' = r
      /\ \A f \in Execucoes : f # e => exec'[f] = exec[f]
  BY <1>1, <1>2, <1>3, <1>4, FilaDoAvanco
<1>6. /\ \A f \in Execucoes : RepasseDaExec(f)' = RepasseDaExec(f)
      /\ \A f \in Execucoes : EmCurso(f)' => EmCurso(f) /\ exec'[f].tentativa = exec[f].tentativa
      /\ \A f \in Execucoes : EmAberto(f)' => EmAberto(f)
  BY <1>1, <1>2, <1>3, <1>5 DEF EmCurso, EmAberto, RepasseDaExec
<1>7. /\ tentativas' = tentativas /\ status' = status /\ recuperacoes' = recuperacoes
      /\ aceitos \subseteq aceitos'
      /\ \A q \in Repasses, m \in 1..MaxTentativas :
            <<q, m>> \in aceitos' => <<q, m>> \in aceitos \/ (q = r /\ m = n)
  BY <1>3, <1>4 DEF vars, repasseVars
<1>8. TypeOKExecucao'
  <2>1. aceitos' \subseteq Repasses \X (1..MaxTentativas)
    BY <1>4 DEF TypeOKExecucao
  <2> QED
    BY <1>3, <1>5, <2>1, TipoMontado DEF OutrosTipos, TypeOKExecucao
<1>9. TentativaUnica'
  <2>1. \A f \in Execucoes : EmCurso(f)' =>
          exec'[f].tentativa \in 1..tentativas'[RepasseDaExec(f)']
    BY <1>6, <1>7 DEF TentativaUnica
  <2>2. \A f, g \in Execucoes :
          f # g /\ EmCurso(f)' /\ EmCurso(g)' /\ RepasseDaExec(f)' = RepasseDaExec(g)'
              => exec'[f].tentativa # exec'[g].tentativa
    BY <1>6 DEF TentativaUnica
  <2>3. \A q \in Repasses, m \in 1..MaxTentativas : <<q, m>> \in aceitos' => m <= tentativas'[q]
    BY <1>2, <1>7 DEF TentativaUnica
  <2>4. \A f \in Execucoes : EmAberto(f)' =>
          <<RepasseDaExec(f)', exec'[f].tentativa>> \notin aceitos'
    <3> SUFFICES ASSUME NEW f \in Execucoes, EmAberto(f)'
                 PROVE  <<RepasseDaExec(f)', exec'[f].tentativa>> \notin aceitos'
      OBVIOUS
    <3>1. <<RepasseDaExec(f), exec[f].tentativa>> \notin aceitos
      BY <1>6 DEF TentativaUnica
    <3>2. CASE f = e
      <4>1. x # "aceito" /\ x # "ambigua"
        BY <1>5, <3>2 DEF EmAberto, RespostaNegativa
      <4> QED
        BY <1>1, <1>2, <1>4, <1>5, <3>1, <3>2, <4>1
    <3>3. CASE f # e
      <4>1. EmCurso(e) /\ EmCurso(f) /\ EmCurso(f)'
        BY <1>3, <1>6 DEF EmCurso, EmAberto
      <4>2. RepasseDaExec(f) = r => exec[f].tentativa # n
        BY <1>1, <1>2, <3>3, <4>1 DEF TentativaUnica
      <4>3. RepasseDaExec(f)' = RepasseDaExec(f) /\ exec'[f].tentativa = exec[f].tentativa
        BY <1>6, <4>1
      <4> QED
        BY <1>4, <3>1, <4>2, <4>3
    <3> QED
      BY <3>2, <3>3
  <2>5. \A f \in Execucoes : exec'[f].passo = "respondida" =>
          \/ exec'[f].resposta \in RespostaNegativa \cup {"ambigua"}
          \/ /\ exec'[f].resposta = "aceito"
             /\ <<RepasseDaExec(f)', exec'[f].tentativa>> \in aceitos'
    <3> SUFFICES ASSUME NEW f \in Execucoes, exec'[f].passo = "respondida"
                 PROVE  \/ exec'[f].resposta \in RespostaNegativa \cup {"ambigua"}
                        \/ /\ exec'[f].resposta = "aceito"
                           /\ <<RepasseDaExec(f)', exec'[f].tentativa>> \in aceitos'
      OBVIOUS
    <3>1. CASE f = e
      BY <1>4, <1>5, <3>1 DEF RespostaNegativa
    <3>2. CASE f # e
      BY <1>5, <1>6, <1>7, <3>2 DEF TentativaUnica
    <3> QED
      BY <3>1, <3>2
  <2> QED
    BY <2>1, <2>2, <2>3, <2>4, <2>5 DEF TentativaUnica, RespostaNegativa
<1>10. RecuperacoesContadas'
  BY <1>7 DEF RecuperacoesContadas, Um
<1>11. \A q \in Repasses : Comprometidas(q)' \subseteq Comprometidas(q)
  <2>1. EmAberto(e)
    BY <1>3 DEF EmAberto
  <2> SUFFICES ASSUME NEW q \in Repasses, NEW m \in Comprometidas(q)'
               PROVE  m \in Comprometidas(q)
    OBVIOUS
  <2>2. CASE <<q, m>> \in aceitos'
    BY <1>1, <1>2, <1>7, <2>1, <2>2 DEF Comprometidas
  <2>3. CASE \E f \in Execucoes :
               EmAberto(f)' /\ RepasseDaExec(f)' = q /\ exec'[f].tentativa = m
    BY <1>6, <2>3 DEF Comprometidas, EmAberto, EmCurso
  <2> QED
    BY <2>2, <2>3 DEF Comprometidas
<1>12. Orcamento'
  <2>1. \A q \in Repasses : Limite(q) <= Limite(q)'
    BY <1>7 DEF Limite, Um, TypeOKExecucao
  <2> QED
    BY <1>8, <1>11, <2>1, OrcamentoMantido
<1>13. EnviadoTemPix'
  BY <1>7 DEF EnviadoTemPix, PixAceitos
<1> QED
  BY <1>5, <1>8, <1>9, <1>10, <1>12, <1>13

\* An accepted attempt is recorded as sent: the bank has it.
LEMMA PassoDoAceite ==
  ASSUME InvarianteExecucao, TypeOK', NEW e \in Execucoes, exec[e].passo = "respondida",
         exec[e].resposta = "aceito",
         UNCHANGED <<fila, aceitos, recuperacoes, retentando, semDestino, quedas>>,
         FinalizarEnviado(RepasseDaExec(e)),
         TypeOKExecucao', FilaCoerente', TentativaUnica',
         \A q \in Repasses : Comprometidas(q)' \subseteq Comprometidas(q)
  PROVE  InvarianteExecucao'
<1> USE DEF InvarianteExecucao
<1>1. PICK r \in Repasses : r = RepasseDaExec(e)
  BY DEF FilaCoerente, RepasseDaExec
<1>2. /\ status[r] \in {"transferindo", "verificando"}
      /\ status' = [status EXCEPT ![r] = "enviado_ao_banco"]
      /\ tentativas' = tentativas
  BY <1>1 DEF FinalizarEnviado
<1>3. /\ status'[r] = "enviado_ao_banco"
      /\ \A q \in Repasses : q # r => status'[q] = status[q]
  BY <1>2 DEF TypeOKExecucao, TypeOK
<1>4. RecuperacoesContadas'
  <2> SUFFICES ASSUME NEW q \in Repasses
               PROVE  recuperacoes'[q] + Um(q, {"transferindo", "verificando"})'
                          <= tentativas'[q]
    BY DEF RecuperacoesContadas
  <2>1. recuperacoes[q] + Um(q, {"transferindo", "verificando"}) <= tentativas[q]
        /\ recuperacoes[q] \in Nat /\ tentativas[q] \in Nat
    BY DEF RecuperacoesContadas, TypeOKExecucao, TypeOK
  <2> QED
    BY <1>2, <1>3, <2>1 DEF Um
<1>5. \A q \in Repasses : Limite(q) <= Limite(q)'
  <2> SUFFICES ASSUME NEW q \in Repasses PROVE Limite(q) <= Limite(q)'
    OBVIOUS
  <2>1. recuperacoes[q] \in Nat /\ "enviado_ao_banco" \in BLOCKING_REPASSE_STATUSES
    BY DEF TypeOKExecucao, BLOCKING_REPASSE_STATUSES
  <2> QED
    BY <1>3, <2>1 DEF Limite, Um
<1>6. Orcamento'
  BY <1>5, OrcamentoMantido
<1>7. EnviadoTemPix'
  <2>1. <<r, exec[e].tentativa>> \in aceitos
    BY <1>1 DEF TentativaUnica, RespostaNegativa
  <2>2. exec[e].tentativa \in PixAceitos(r)'
    BY <2>1 DEF PixAceitos, TypeOKExecucao
  <2> QED
    BY <1>3, <2>2 DEF EnviadoTemPix, PixAceitos
<1> QED
  BY <1>4, <1>6, <1>7

\* An attempt that came to nothing is given up: it is committed no more, so the
\* payout may go back to a status from which money is sent again.
LEMMA PassoDaRecusa ==
  ASSUME InvarianteExecucao, TypeOK', NEW e \in Execucoes, exec[e].passo = "respondida",
         exec[e].resposta \in RespostaNegativa,
         UNCHANGED <<fila, aceitos, recuperacoes, retentando, semDestino, quedas>>,
         FinalizarFalhou(RepasseDaExec(e)) \/ FinalizarTransitorio(RepasseDaExec(e)),
         exec'[e].passo = "encerrando",
         \A f \in Execucoes : f # e => exec'[f] = exec[f],
         TypeOKExecucao', FilaCoerente', TentativaUnica',
         \A q \in Repasses : Comprometidas(q)' \subseteq Comprometidas(q)
  PROVE  InvarianteExecucao'
<1> USE DEF InvarianteExecucao
<1>1. PICK r \in Repasses : r = RepasseDaExec(e)
  BY DEF FilaCoerente, RepasseDaExec
<1>2. /\ EmAberto(e) /\ EmCurso(e)
      /\ exec[e].tentativa \in 1..tentativas[r]
      /\ <<r, exec[e].tentativa>> \notin aceitos
  BY <1>1 DEF EmAberto, EmCurso, TentativaUnica
<1>3. PICK n \in 1..MaxTentativas : n = exec[e].tentativa
  BY <1>2 DEF TypeOKExecucao, TypeOK
<1>4. PICK s \in {"falhou", "aprovado"} :
        /\ status[r] \in {"transferindo", "verificando"}
        /\ status' = [status EXCEPT ![r] = s]
        /\ tentativas' = tentativas
  BY <1>1 DEF FinalizarFalhou, FinalizarTransitorio
<1>5. /\ status'[r] = s
      /\ \A q \in Repasses : q # r => status'[q] = status[q]
  BY <1>4 DEF TypeOKExecucao, TypeOK
<1>6. RecuperacoesContadas'
  <2> SUFFICES ASSUME NEW q \in Repasses
               PROVE  recuperacoes'[q] + Um(q, {"transferindo", "verificando"})'
                          <= tentativas'[q]
    BY DEF RecuperacoesContadas
  <2>1. recuperacoes[q] + Um(q, {"transferindo", "verificando"}) <= tentativas[q]
        /\ recuperacoes[q] \in Nat /\ tentativas[q] \in Nat
    BY DEF RecuperacoesContadas, TypeOKExecucao, TypeOK
  <2> QED
    BY <1>4, <1>5, <2>1 DEF Um
<1>7. n \in Comprometidas(r) /\ n \notin Comprometidas(r)'
  <2>1. n \in Comprometidas(r)
    BY <1>1, <1>2, <1>3 DEF Comprometidas
  <2>2. ~EmAberto(e)'
    BY DEF EmAberto
  <2>3. ASSUME NEW f \in Execucoes, f # e, EmAberto(f)', RepasseDaExec(f)' = r
        PROVE  exec'[f].tentativa # n
    <3>1. EmAberto(f) /\ EmCurso(f) /\ RepasseDaExec(f) = r /\ exec'[f] = exec[f]
      BY <2>3 DEF EmAberto, EmCurso, RepasseDaExec
    <3> QED
      BY <1>1, <1>2, <1>3, <2>3, <3>1 DEF TentativaUnica
  <2>4. n \notin Comprometidas(r)'
    BY <1>2, <1>3, <2>2, <2>3 DEF Comprometidas
  <2> QED
    BY <2>1, <2>4
<1>8. Orcamento'
  <2>1. Cardinality(Comprometidas(r)') <= Limite(r)'
    <3>1. Comprometidas(r) \subseteq 1..MaxTentativas
      BY DEF Comprometidas
    <3>2. /\ Comprometidas(r) \ {n} \in SUBSET Comprometidas(r)
          /\ Comprometidas(r) \ {n} \subseteq 1..MaxTentativas
          /\ Comprometidas(r)' \in SUBSET (Comprometidas(r) \ {n})
      BY <1>7, <3>1
    <3>3. /\ Cardinality(Comprometidas(r)) \in Nat
          /\ Cardinality(Comprometidas(r) \ {n}) = Cardinality(Comprometidas(r)) - 1
      BY <1>7, <3>1, ComprometidasFinitas, FS_RemoveElement
    <3>4. /\ Cardinality(Comprometidas(r)') \in Nat
          /\ Cardinality(Comprometidas(r)') <= Cardinality(Comprometidas(r) \ {n})
      BY <3>2, ComprometidasFinitas
    <3>5. Cardinality(Comprometidas(r)) <= Limite(r)
      BY DEF Orcamento, Limite
    <3>6. Limite(r)' >= Limite(r) - 1 /\ Limite(r) \in Nat /\ Limite(r)' \in Nat
      <4>1. recuperacoes[r] \in Nat /\ recuperacoes'[r] = recuperacoes[r]
        BY DEF TypeOKExecucao
      <4> QED
        BY <4>1 DEF Limite, Um
    <3> QED
      BY <3>3, <3>4, <3>5, <3>6
  <2>2. ASSUME NEW q \in Repasses, q # r
        PROVE  Cardinality(Comprometidas(q)') <= Limite(q)'
    <3>1. recuperacoes[q] \in Nat /\ recuperacoes'[q] = recuperacoes[q]
      BY <2>2 DEF TypeOKExecucao
    <3>2. Limite(q)' = Limite(q) /\ Limite(q) \in Nat
      BY <1>5, <2>2, <3>1 DEF Limite, Um
    <3>3. Cardinality(Comprometidas(q)) <= Limite(q)
      BY <2>2 DEF Orcamento, Limite
    <3> QED
      BY <2>2, <3>2, <3>3, OrcamentoDe
  <2> QED
    BY <2>1, <2>2 DEF Orcamento, Limite
<1>9. EnviadoTemPix'
  BY <1>4, <1>5 DEF EnviadoTemPix, PixAceitos
<1> QED
  BY <1>6, <1>8, <1>9

LEMMA PassoDoFinalizar ==
  ASSUME InvarianteExecucao, TypeOK', NEW e \in Execucoes, Finalizar(e)
  PROVE  InvarianteExecucao'
<1> USE DEF InvarianteExecucao
<1>1. exec[e].passo = "respondida" /\ exec[e].tentativa \in 0..MaxTentativas
  BY DEF Finalizar, TypeOKExecucao
<1>2. /\ UNCHANGED <<fila, aceitos, recuperacoes, retentando, semDestino, quedas>>
      /\ \/ UNCHANGED vars
         \/ exec[e].resposta = "aceito" /\ FinalizarEnviado(RepasseDaExec(e))
         \/ exec[e].resposta = "ambigua" /\ FinalizarVerificando(RepasseDaExec(e))
         \/ /\ exec[e].resposta \in RespostaNegativa
            /\ FinalizarFalhou(RepasseDaExec(e)) \/ FinalizarTransitorio(RepasseDaExec(e))
  BY AvancoDoFinalizar
<1>3. PICK x \in {"ok", "erro"} : Avanca(e, "encerrando", exec[e].tentativa, x)
  BY AvancoDoFinalizar
<1>4. CASE UNCHANGED vars \/ FinalizarVerificando(RepasseDaExec(e))
  <2>1. Quieto
    BY <1>4 DEF Quieto, vars, repasseVars, FinalizarVerificando, BLOCKING_REPASSE_STATUSES,
       TypeOKExecucao, TypeOK
  <2> QED
    BY <1>1, <1>2, <1>3, <2>1, AvancoQuieto
<1>5. CASE \/ exec[e].resposta = "aceito" /\ FinalizarEnviado(RepasseDaExec(e))
           \/ /\ exec[e].resposta \in RespostaNegativa
              /\ FinalizarFalhou(RepasseDaExec(e)) \/ FinalizarTransitorio(RepasseDaExec(e))
  <2>1. /\ TipoDaFila' /\ TipoDeExec' /\ FilaCoerente' /\ exec'[e].passo = "encerrando"
        /\ \A f \in Execucoes : f # e => exec'[f] = exec[f]
    BY <1>1, <1>2, <1>3, FilaDoAvanco
  <2>2. TypeOKExecucao'
    BY <1>2, <2>1, TipoMontado DEF OutrosTipos, TypeOKExecucao
  <2>3. tentativas' = tentativas
    BY <1>5 DEF FinalizarEnviado, FinalizarFalhou, FinalizarTransitorio
  <2>4. \A f \in Execucoes : EmCurso(f)' =>
          /\ exec'[f].passo = exec[f].passo
          /\ exec'[f].tentativa = exec[f].tentativa
          /\ exec'[f].resposta = exec[f].resposta
          /\ RepasseDaExec(f)' = RepasseDaExec(f)
    BY <1>2, <2>1 DEF EmCurso, RepasseDaExec
  <2>5. TentativaUnica' /\ \A q \in Repasses : Comprometidas(q)' \subseteq Comprometidas(q)
    BY <1>2, <2>3, <2>4, TentativasHerdadas
  <2>6. CASE exec[e].resposta = "aceito" /\ FinalizarEnviado(RepasseDaExec(e))
    BY <1>1, <1>2, <2>1, <2>2, <2>5, <2>6, PassoDoAceite
  <2>7. CASE /\ exec[e].resposta \in RespostaNegativa
             /\ FinalizarFalhou(RepasseDaExec(e)) \/ FinalizarTransitorio(RepasseDaExec(e))
    BY <1>1, <1>2, <2>1, <2>2, <2>5, <2>7, PassoDaRecusa
  <2> QED
    BY <1>5, <2>6, <2>7
<1> QED
  BY <1>2, <1>4, <1>5

-----------------------------------------------------------------------------
(* The invariant, kept by every step *)

LEMMA InvarianteExecucaoInicial == InitExecucao => InvarianteExecucao
<1> SUFFICES ASSUME InitExecucao PROVE InvarianteExecucao
  OBVIOUS
<1>1. TypeOKExecucao /\ FilaCoerente
  BY TipoExecucaoInicial
<1>2. /\ \A e \in Execucoes : exec[e].passo = "ociosa"
      /\ \A r \in Repasses : status[r] = "inexistente" /\ recuperacoes[r] = 0 /\ tentativas[r] = 0
      /\ aceitos = {}
  BY DEF InitExecucao, Init, Ociosa
<1>3. \A e \in Execucoes : ~EmCurso(e) /\ ~EmAberto(e)
  BY <1>2 DEF EmCurso, EmAberto
<1>4. TentativaUnica
  BY <1>2, <1>3 DEF TentativaUnica
<1>5. RecuperacoesContadas
  BY <1>2 DEF RecuperacoesContadas, Um
<1>6. Orcamento
  <2> SUFFICES ASSUME NEW r \in Repasses
               PROVE  Cardinality(Comprometidas(r))
                          <= recuperacoes[r] + Um(r, BLOCKING_REPASSE_STATUSES)
    BY DEF Orcamento
  <2>1. Comprometidas(r) = {}
    BY <1>2, <1>3 DEF Comprometidas
  <2>2. Cardinality(Comprometidas(r)) = 0
    BY <2>1, FS_EmptySet
  <2> QED
    BY <1>2, <2>2 DEF Um
<1>7. EnviadoTemPix
  BY <1>2 DEF EnviadoTemPix
<1> QED
  BY <1>1, <1>4, <1>5, <1>6, <1>7 DEF InvarianteExecucao

\* A step of the queue alone: no payout moves, no attempt changes hands.
LEMMA PassoDaFila ==
  ASSUME InvarianteExecucao, TypeOK', UNCHANGED <<vars, aceitos, recuperacoes>>,
         TipoDaFila', TipoDeExec', FilaCoerente', OutrosTipos',
         \A j \in Jobs : fila[j].estado # "livre" => fila'[j].repasse = fila[j].repasse,
         \A e \in Execucoes : EmCurso(e)' =>
            /\ exec'[e].passo = exec[e].passo
            /\ exec'[e].tentativa = exec[e].tentativa
            /\ exec'[e].resposta = exec[e].resposta
            /\ exec'[e].job = exec[e].job
  PROVE  InvarianteExecucao'
<1>1. Quieto
  BY DEF Quieto, vars, repasseVars
<1>2. \A e \in Execucoes : EmCurso(e)' => RepasseDaExec(e)' = RepasseDaExec(e)
  BY JobsGuardamRepasse DEF EmCurso, InvarianteExecucao
<1> QED
  BY <1>1, <1>2, PassoQuieto

LEMMA InvarianteExecucaoMantido ==
  ASSUME InvarianteExecucao, NextExecucao
  PROVE  InvarianteExecucao'
<1> USE DEF InvarianteExecucao
<1>1. TypeOK'
  BY PassoNoLivro, TipoMantido DEF TypeOKExecucao
<1>2. /\ TipoDaFila /\ TipoDeExec /\ OutrosTipos
  BY DEF TypeOKExecucao, TipoDaFila, TipoDeExec, Manipulador, OutrosTipos
<1>3. CASE PassoSemJob
  <2>1. Quieto /\ UNCHANGED execVars
    BY <1>3, PassoSemJobQuieto DEF TypeOKExecucao
  <2>2. /\ TipoDaFila' /\ TipoDeExec' /\ FilaCoerente' /\ OutrosTipos'
        /\ \A e \in Execucoes : RepasseDaExec(e)' = RepasseDaExec(e)
    BY <1>2, <2>1 DEF execVars, TipoDaFila, TipoDeExec, FilaCoerente, OutrosTipos, RepasseDaExec
  <2> QED
    BY <1>1, <2>1, <2>2, PassoQuieto DEF execVars
<1>4. ASSUME NEW r \in Repasses, LerParaRetentar(r) \/ MudarDestino(r)
      PROVE  InvarianteExecucao'
  <2>1. /\ UNCHANGED <<vars, fila, exec, aceitos, recuperacoes, quedas>>
        /\ retentando' \subseteq Repasses /\ semDestino' \subseteq Repasses
    BY <1>2, <1>4 DEF LerParaRetentar, MudarDestino, OutrosTipos
  <2>2. TipoDaFila' /\ TipoDeExec' /\ FilaCoerente' /\ OutrosTipos'
    BY <1>2, <2>1 DEF TipoDaFila, TipoDeExec, FilaCoerente, OutrosTipos
  <2> QED
    BY <1>1, <2>1, <2>2, PassoDaFila
<1>5. ASSUME NEW r \in Repasses, NEW j \in Jobs,
            AprovarEEnfileirar(r, j) \/ ReenviarEEnfileirar(r, j)
      PROVE  InvarianteExecucao'
  <2>1. /\ Quieto /\ Enfileirar(j, r, "aprovacao")
        /\ UNCHANGED <<exec, aceitos, recuperacoes, retentando, semDestino, quedas>>
    BY <1>5, AprovacaoQuieta DEF AprovarEEnfileirar, ReenviarEEnfileirar, TypeOKExecucao
  <2>2. TipoDaFila' /\ TipoDeExec' /\ FilaCoerente' /\ OutrosTipos'
    BY <1>2, <2>1, FilaDoEnfileirar DEF OutrosTipos
  <2>3. \A i \in Jobs : fila[i].estado # "livre" => fila'[i].repasse = fila[i].repasse
    BY <2>1 DEF Enfileirar, TypeOKExecucao
  <2>4. \A e \in Execucoes : EmCurso(e)' => RepasseDaExec(e)' = RepasseDaExec(e)
    BY <2>1, <2>3, JobsGuardamRepasse DEF EmCurso
  <2> QED
    BY <1>1, <2>1, <2>2, <2>4, PassoQuieto
<1>6. ASSUME NEW r \in Repasses, NEW j \in Jobs, Retentar(r, j)
      PROVE  InvarianteExecucao'
  <2>1. /\ Enfileirar(j, r, "retentativa") /\ retentando' = retentando \ {r}
        /\ UNCHANGED <<vars, exec, aceitos, recuperacoes, semDestino, quedas>>
    BY <1>6 DEF Retentar
  <2>2. TipoDaFila' /\ TipoDeExec' /\ FilaCoerente' /\ OutrosTipos'
    BY <1>2, <2>1, FilaDoEnfileirar DEF OutrosTipos
  <2>3. \A i \in Jobs : fila[i].estado # "livre" => fila'[i].repasse = fila[i].repasse
    BY <2>1 DEF Enfileirar, TypeOKExecucao
  <2> QED
    BY <1>1, <2>1, <2>2, <2>3, PassoDaFila
<1>7. ASSUME NEW j \in Jobs, ExpirarJob(j)
      PROVE  InvarianteExecucao'
  <2>1. TipoDaFila' /\ TipoDeExec' /\ FilaCoerente'
    BY <1>7, FilaDoExpirar
  <2>2. OutrosTipos' /\ UNCHANGED <<vars, aceitos, recuperacoes>>
    BY <1>2, <1>7 DEF ExpirarJob, OutrosTipos
  <2>3. \A i \in Jobs : fila'[i].repasse = fila[i].repasse
    BY <1>7 DEF ExpirarJob, TypeOKExecucao
  <2>4. \A e \in Execucoes : /\ exec'[e].passo = exec[e].passo
                             /\ exec'[e].tentativa = exec[e].tentativa
                             /\ exec'[e].resposta = exec[e].resposta
                             /\ exec'[e].job = exec[e].job
    BY <1>7 DEF ExpirarJob, TypeOKExecucao
  <2> QED
    BY <1>1, <2>1, <2>2, <2>3, <2>4, PassoDaFila
<1>8. ASSUME NEW e \in Execucoes, NEW j \in Jobs, Buscar(e, j)
      PROVE  InvarianteExecucao'
  <2>1. TipoDaFila' /\ TipoDeExec' /\ FilaCoerente'
    BY <1>8, FilaDoBuscar
  <2>2. OutrosTipos' /\ UNCHANGED <<vars, aceitos, recuperacoes>>
    BY <1>2, <1>8 DEF Buscar, OutrosTipos
  <2>3. \A i \in Jobs : fila'[i].repasse = fila[i].repasse
    BY <1>8 DEF Buscar, TypeOKExecucao
  <2>4. exec'[e].passo = "iniciando" /\ \A f \in Execucoes : f # e => exec'[f] = exec[f]
    BY <1>8 DEF Buscar, TypeOKExecucao, Ociosa
  <2> QED
    BY <1>1, <2>1, <2>2, <2>3, <2>4, PassoDaFila DEF EmCurso
<1>9. ASSUME NEW e \in Execucoes, Morrer(e) \/ Encerrar(e)
      PROVE  InvarianteExecucao'
  <2>1. TipoDaFila' /\ TipoDeExec' /\ FilaCoerente'
    BY <1>9, FilaDoMorrer, FilaDoEncerrar
  <2>2. OutrosTipos' /\ UNCHANGED <<vars, aceitos, recuperacoes>>
    BY <1>2, <1>9 DEF Morrer, Encerrar, OutrosTipos
  <2>3. \A i \in Jobs : fila'[i].repasse = fila[i].repasse
    BY <1>9 DEF Morrer, Encerrar, TypeOKExecucao
  <2>4. exec'[e].passo = "ociosa" /\ \A f \in Execucoes : f # e => exec'[f] = exec[f]
    BY <1>9 DEF Morrer, Encerrar, TypeOKExecucao, Ociosa
  <2> QED
    BY <1>1, <2>1, <2>2, <2>3, <2>4, PassoDaFila DEF EmCurso
<1>10. ASSUME NEW e \in Execucoes, PassoDoHandler(e) \/ Morrer(e)
       PROVE  InvarianteExecucao'
  BY <1>1, <1>9, <1>10, PassoDoIniciar, PassoDoReconciliar, PassoDoEnvio, PassoDoFinalizar
  DEF PassoDoHandler
<1>11. ASSUME NEW r \in Repasses, NEW j \in Jobs, PassoDoAdmin(r, j)
       PROVE  InvarianteExecucao'
  BY <1>1, <1>5, <1>6, <1>11, PassoDaRecuperacao DEF PassoDoAdmin
<1> QED
  BY <1>3, <1>4, <1>7, <1>8, <1>10, <1>11 DEF NextExecucao

LEMMA InvarianteExecucaoParado ==
  ASSUME InvarianteExecucao, UNCHANGED todas
  PROVE  InvarianteExecucao'
<1> USE DEF InvarianteExecucao, todas, execVars
<1>1. Quieto
  BY DEF Quieto, vars, repasseVars
<1>2. TypeOK'
  BY TipoMantido DEF TypeOKExecucao
<1>3. TipoDaFila' /\ TipoDeExec' /\ FilaCoerente' /\ OutrosTipos'
  BY DEF TypeOKExecucao, TipoDaFila, TipoDeExec, Manipulador, FilaCoerente, OutrosTipos
<1> QED
  BY <1>1, <1>2, <1>3, PassoQuieto DEF RepasseDaExec

-----------------------------------------------------------------------------
(* What the worker guarantees *)

\* The inductive invariant of the worker is an invariant of it.
THEOREM InvarianteExecucaoCorreto == SpecExecucao => []InvarianteExecucao
  BY InvarianteExecucaoInicial, InvarianteExecucaoMantido, InvarianteExecucaoParado, PTL
  DEF SpecExecucao

\* Jobs, handlers and accepted payments keep their types: a job is never
\* delivered more than its retries allow (repasse-enqueuer.pgboss.ts).
THEOREM TipoExecucaoCorreto == SpecExecucao => []TypeOKExecucao
<1>1. InvarianteExecucao => TypeOKExecucao
  BY DEF InvarianteExecucao
<1> QED
  BY <1>1, InvarianteExecucaoCorreto, PTL

\* The worker only ever runs the ledger's transactions: everything proved of the
\* ledger holds with the jobs, the crashes and the bank around it
\* (executar-transferencia-repasse.ts writes through the repository alone).
THEOREM ExecucaoImplementaLivro == SpecExecucao => Spec
<1>1. InitExecucao => Init
  BY DEF InitExecucao
<1>2. ASSUME InvarianteExecucao, [NextExecucao]_todas
      PROVE  [Next]_vars
  BY <1>2, PassoNoLivro DEF InvarianteExecucao, todas
<1> QED
  BY <1>1, <1>2, InvarianteExecucaoCorreto, PTL DEF SpecExecucao, Spec

LEMMA AceitosComprometidos ==
  ASSUME InvarianteExecucao, NEW r \in Repasses
  PROVE  /\ IsFiniteSet(PixAceitos(r)) /\ Cardinality(PixAceitos(r)) \in Nat
         /\ Cardinality(PixAceitos(r)) <= Limite(r)
         /\ recuperacoes[r] \in Nat
<1>1. /\ Comprometidas(r) \subseteq 1..MaxTentativas
      /\ PixAceitos(r) \in SUBSET Comprometidas(r)
      /\ PixAceitos(r) \subseteq 1..MaxTentativas
  BY DEF Comprometidas, PixAceitos
<1>2. Cardinality(Comprometidas(r)) <= Limite(r)
  BY DEF InvarianteExecucao, Orcamento, Limite
<1>3. recuperacoes[r] \in Nat /\ Limite(r) \in Nat
  BY DEF InvarianteExecucao, TypeOKExecucao, Limite, Um
<1>4. /\ Cardinality(Comprometidas(r)) \in Nat
      /\ Cardinality(PixAceitos(r)) <= Cardinality(Comprometidas(r))
  BY <1>1, ComprometidasFinitas
<1>5. IsFiniteSet(PixAceitos(r)) /\ Cardinality(PixAceitos(r)) \in Nat
  BY <1>1, ComprometidasFinitas
<1> QED
  BY <1>2, <1>3, <1>4, <1>5

\* A payout nobody recovered by hand whose PIX the bank took is in a status from
\* which its credits do not come back.
LEMMA AceitoBloqueia ==
  ASSUME InvarianteExecucao, NEW r \in Repasses, recuperacoes[r] = 0, PixAceitos(r) # {}
  PROVE  status[r] \in BLOCKING_REPASSE_STATUSES
<1>1. Cardinality(PixAceitos(r)) # 0
  BY AceitosComprometidos, FS_EmptySet
<1> QED
  BY <1>1, AceitosComprometidos DEF Limite, Um

\* "At most one successful PIX per repasse" as far as the machine decides alone,
\* for any number of jobs, handlers, crashes and attempts: a further payment
\* always has an admin's recovery behind it (executar-transferencia-repasse.ts).
THEOREM PixCoberto == SpecExecucao => []PixCobertoPorDecisao
<1>1. ASSUME InvarianteExecucao PROVE PixCobertoPorDecisao
  BY <1>1, AceitosComprometidos DEF PixCobertoPorDecisao, Limite, Um
<1> QED
  BY <1>1, InvarianteExecucaoCorreto, PTL

\* A payout nobody recovered by hand is falhou or cancelado only when the bank
\* took none of its attempts (finalizarTentativaTransferencia, cancelarRepasse).
THEOREM FalhaSegura == SpecExecucao => []FalhaSemPix
<1>1. ASSUME InvarianteExecucao PROVE FalhaSemPix
  BY <1>1, AceitoBloqueia DEF FalhaSemPix, BLOCKING_REPASSE_STATUSES
<1> QED
  BY <1>1, InvarianteExecucaoCorreto, PTL

\* A payout shown as sent to the bank was accepted by the bank
\* (finalizarTentativaTransferencia with enviado_ao_banco).
THEOREM EnvioVerdadeiro == SpecExecucao => []EnviadoTemPix
<1>1. InvarianteExecucao => EnviadoTemPix
  BY DEF InvarianteExecucao
<1> QED
  BY <1>1, InvarianteExecucaoCorreto, PTL

\* No contributor is refunded with money the bank took for the receiver, unless
\* an admin sent the payout in doubt again: the lock of
\* payment-money-movement-lock.postgres.ts protects the money itself.
THEOREM EstornoPoupaPix == SpecExecucao => []EstornoExcluiPix
<1>1. ASSUME InvarianteExecucao, Invariante PROVE EstornoExcluiPix
  <2> SUFFICES ASSUME NEW r \in Repasses, recuperacoes[r] = 0, PixAceitos(r) # {},
                      NEW l \in lote[r]
               PROVE  estorno[PagamentoDe[l]] \notin EstornoSemConflito
    BY DEF EstornoExcluiPix
  <2>1. status[r] \in BLOCKING_REPASSE_STATUSES
    BY <1>1, AceitoBloqueia
  <2>2. repasseDe[l] = r
    BY <1>1, <2>1 DEF Invariante, LoteLigado, BLOCKING_REPASSE_STATUSES
  <2>3. l \in Lancamentos /\ PagamentoDe[l] \in Pagamentos
    BY <1>1 DEF Invariante, TypeOK
  <2>4. Movimentado(PagamentoDe[l])
    BY <2>1, <2>2, <2>3 DEF Movimentado, EmMovimento, LinhasDoPagamento
  <2> QED
    BY <1>1, <2>3, <2>4 DEF Invariante, EstornoExcluiSaida
<1> QED
  BY <1>1, InvarianteExecucaoCorreto, ExecucaoImplementaLivro, InvarianteCorreto, PTL

\* What the ledger promises, it promises under the worker too, whatever the
\* jobs, the crashes, the bank and the redeliveries do: the lines of a batch that
\* went out cover its amount, a credit is in one batch, a reservation does not
\* leak, a refunded credit leaves no more, every credit has one destination, and a
\* batch with a refunded payment stays where it is
\* (LivroRepassesProvas proves each of them of the ledger alone).
THEOREM LivroSobConcorrencia ==
  SpecExecucao => /\ []EstornoExcluiSaida
                  /\ []SaidaCobreLote
                  /\ []CreditoEmUmSoLote
                  /\ ReservaNaoVaza
                  /\ EstornadoENaoSaiMais
                  /\ ImplementaDestino
                  /\ LotePresoNaoAnda
  BY ExecucaoImplementaLivro, ExclusaoCorreta, LoteCoberto, CreditoNaoDobra,
     ReservaSegura, EstornoFinal, LivroImplementaDestino, LotePreso

-----------------------------------------------------------------------------
(* A payout nobody will look at again *)

\* Claimed, or waiting for the worker, and no job, handler or retry is left for it.
Encalhado(r) ==
  /\ status[r] = "transferindo" \/ (status[r] = "aprovado" /\ r \in referencia)
  /\ ~TemQuemExecute(r)
  /\ r \notin retentando

\* What no step does to a stranded payout: nothing moves it, but a cancellation
\* after a dispute, which a payout that was claimed does not get either.
EncalhadoNaoSai ==
  [][\A r \in Repasses : Encalhado(r) =>
        \/ status'[r] = status[r] /\ Encalhado(r)'
        \/ status[r] = "aprovado" /\ CancelamentoMed(r) /\ status'[r] = "cancelado"]_todas

\* No busy handler holds it.
LEMMA EncalhadoSemManipulador ==
  ASSUME FilaCoerente, NEW r \in Repasses, Encalhado(r),
         NEW e \in Execucoes, exec[e].passo # "ociosa"
  PROVE  /\ exec[e].job \in Jobs /\ RepasseDaExec(e) \in Repasses
         /\ RepasseDaExec(e) # r
<1>1. exec[e].job \in Jobs /\ RepasseDaExec(e) \in Repasses /\ exec[e].job # SemJob
  BY DEF FilaCoerente, RepasseDaExec
<1> QED
  BY <1>1 DEF Encalhado, TemQuemExecute

\* A step that leaves the payout alone and brings no one to it.
LEMMA EncalhadoContinua ==
  ASSUME NEW r \in Repasses, Encalhado(r), status'[r] = status[r],
         referencia \subseteq referencia', r \notin retentando',
         \A j \in Jobs :
            fila'[j].repasse = r /\ fila'[j].estado \in {"pronto", "ativo"} =>
                fila[j].repasse = r /\ fila[j].estado \in {"pronto", "ativo"},
         \A e \in Execucoes :
            exec'[e].job # SemJob /\ fila'[exec'[e].job].repasse = r =>
                exec[e].job # SemJob /\ fila[exec[e].job].repasse = r
  PROVE  Encalhado(r)'
  BY DEF Encalhado, TemQuemExecute, RepasseDaExec

\* The admin enqueues a job only for a payout in another state, or one whose
\* retry was already asked for.
LEMMA AdminNaoAlcanca ==
  ASSUME InvarianteExecucao, NEW r \in Repasses, Encalhado(r),
         NEW q \in Repasses, NEW j \in Jobs, PassoDoAdmin(q, j)
  PROVE  status'[r] = status[r] /\ Encalhado(r)'
<1>1. /\ TypeOK
      /\ fila \in [Jobs -> [estado : {"livre", "pronto", "ativo", "concluido", "morto"},
                            repasse : Repasses \cup {SemRepasse},
                            origem : {"nenhuma", "aprovacao", "recuperacao", "retentativa"},
                            entregas : 0..(RetryLimit + 1)]]
  BY DEF InvarianteExecucao, TypeOKExecucao
<1>2. /\ q # r /\ status'[r] = status[r]
      /\ referencia \subseteq referencia' /\ retentando' \subseteq retentando
      /\ exec' = exec
      /\ \E o \in {"aprovacao", "recuperacao", "retentativa"} : Enfileirar(j, q, o)
  <2>1. CASE AprovarEEnfileirar(q, j) \/ ReenviarEEnfileirar(q, j)
    BY <1>1, <2>1 DEF AprovarEEnfileirar, ReenviarEEnfileirar, AprovarRepassePix, ReenviarContaPeloInter,
                      Encalhado, TypeOK
  <2>2. CASE RecuperarEEnfileirar(q, j)
    BY <1>1, <2>2 DEF RecuperarEEnfileirar, RecuperarRepasse, Encalhado, TypeOK
  <2>3. CASE Retentar(q, j)
    BY <2>3 DEF Retentar, vars, repasseVars, Encalhado
  <2> QED
    BY <2>1, <2>2, <2>3 DEF PassoDoAdmin
<1>3. /\ fila'[j].repasse = q
      /\ \A i \in Jobs : i # j => fila'[i] = fila[i]
  BY <1>1, <1>2 DEF Enfileirar
<1>4. ASSUME NEW e \in Execucoes, exec'[e].job # SemJob, fila'[exec'[e].job].repasse = r
      PROVE  exec[e].job # SemJob /\ fila[exec[e].job].repasse = r
  <2>1. exec[e].job \in Jobs
    BY <1>2, <1>4 DEF InvarianteExecucao, TypeOKExecucao
  <2> QED
    BY <1>2, <1>3, <1>4, <2>1
<1> QED
  BY <1>2, <1>3, <1>4, EncalhadoContinua DEF Encalhado

\* The queue delivers, expires and settles jobs of other payouts only.
LEMMA FilaNaoAlcanca ==
  ASSUME InvarianteExecucao, NEW r \in Repasses, Encalhado(r), UNCHANGED vars,
         \/ \E j \in Jobs : ExpirarJob(j)
         \/ \E e \in Execucoes, j \in Jobs : Buscar(e, j)
         \/ \E e \in Execucoes : Encerrar(e) \/ Morrer(e)
  PROVE  Encalhado(r)'
<1> DEFINE Vivo(j) == fila[j].estado \in {"pronto", "ativo"}
<1>1. /\ FilaCoerente
      /\ fila \in [Jobs -> [estado : {"livre", "pronto", "ativo", "concluido", "morto"},
                            repasse : Repasses \cup {SemRepasse},
                            origem : {"nenhuma", "aprovacao", "recuperacao", "retentativa"},
                            entregas : 0..(RetryLimit + 1)]]
      /\ TipoDeExec
  BY DEF InvarianteExecucao, TypeOKExecucao, TipoDeExec, Manipulador
<1>2. /\ status'[r] = status[r] /\ referencia' = referencia /\ r \notin retentando
      /\ \A j \in Jobs : Vivo(j) => fila[j].repasse # r
      /\ \A e \in Execucoes : exec[e].job # SemJob => fila[exec[e].job].repasse # r
  BY DEF vars, repasseVars, Encalhado, TemQuemExecute, RepasseDaExec
<1>3. CASE \E j \in Jobs : ExpirarJob(j)
  <2>1. PICK j \in Jobs : ExpirarJob(j)
    BY <1>3
  <2>2. /\ Vivo(j) /\ retentando' = retentando
        /\ \A i \in Jobs : fila'[i].repasse = fila[i].repasse
        /\ \A i \in Jobs : i # j => fila'[i] = fila[i]
        /\ \A e \in Execucoes : exec'[e].job = exec[e].job
    BY <1>1, <2>1 DEF ExpirarJob, TipoDeExec, Manipulador
  <2>3. \A e \in Execucoes : exec[e].job # SemJob => exec[e].job \in Jobs
    BY <1>1 DEF TipoDeExec, Manipulador
  <2> QED
    BY <1>2, <2>2, <2>3, EncalhadoContinua
<1>4. CASE \E e \in Execucoes, j \in Jobs : Buscar(e, j)
  <2>1. PICK e \in Execucoes, j \in Jobs : Buscar(e, j)
    BY <1>4
  <2>2. /\ Vivo(j) /\ retentando' = retentando
        /\ \A i \in Jobs : fila'[i].repasse = fila[i].repasse
        /\ \A i \in Jobs : i # j => fila'[i] = fila[i]
        /\ exec'[e].job = j
        /\ \A f \in Execucoes : f # e => exec'[f] = exec[f]
    BY <1>1, <2>1 DEF Buscar, TipoDeExec, Manipulador, Ociosa
  <2>3. \A f \in Execucoes : exec[f].job # SemJob => exec[f].job \in Jobs
    BY <1>1 DEF TipoDeExec, Manipulador
  <2>4. \A f \in Execucoes : exec'[f].job # SemJob => fila'[exec'[f].job].repasse # r
    BY <1>2, <2>2, <2>3
  <2>5. \A i \in Jobs : fila'[i].estado \in {"pronto", "ativo"} => fila'[i].repasse # r
    BY <1>2, <2>2
  <2> QED
    BY <1>2, <2>2, <2>4, <2>5, EncalhadoContinua
<1>5. CASE \E e \in Execucoes : Encerrar(e) \/ Morrer(e)
  <2>1. PICK e \in Execucoes : Encerrar(e) \/ Morrer(e)
    BY <1>5
  <2>2. /\ exec[e].passo # "ociosa" /\ retentando' = retentando
        /\ exec' = [exec EXCEPT ![e] = Ociosa]
    BY <2>1 DEF Encerrar, Morrer
  <2>3. exec[e].job \in Jobs /\ fila[exec[e].job].repasse # r
    BY <1>1, <2>2, EncalhadoSemManipulador DEF RepasseDaExec
  <2>4. /\ \A i \in Jobs : fila'[i].repasse = fila[i].repasse
        /\ \A i \in Jobs : i # exec[e].job => fila'[i] = fila[i]
    BY <1>1, <2>1, <2>3 DEF Encerrar, Morrer
  <2>5. /\ exec'[e].job = SemJob
        /\ \A f \in Execucoes : f # e => exec'[f] = exec[f]
    BY <1>1, <2>2 DEF TipoDeExec, Ociosa
  <2>6. \A f \in Execucoes : exec[f].job # SemJob => exec[f].job \in Jobs
    BY <1>1 DEF TipoDeExec, Manipulador
  <2>7. \A f \in Execucoes : exec'[f].job # SemJob => fila'[exec'[f].job].repasse # r
    BY <1>2, <2>4, <2>5, <2>6
  <2>8. \A i \in Jobs : fila'[i].estado \in {"pronto", "ativo"} => fila'[i].repasse # r
    BY <1>2, <2>3, <2>4
  <2> QED
    BY <1>2, <2>2, <2>7, <2>8, EncalhadoContinua
<1> QED
  BY <1>3, <1>4, <1>5

\* The handlers that run are of other payouts, and write only those.
LEMMA ManipuladorNaoAlcanca ==
  ASSUME InvarianteExecucao, NEW r \in Repasses, Encalhado(r), NEW e \in Execucoes,
         Iniciar(e) \/ Reconciliar(e) \/ EnviarPix(e) \/ Finalizar(e)
  PROVE  status'[r] = status[r] /\ Encalhado(r)'
<1> DEFINE q == RepasseDaExec(e)
<1>1. TypeOKExecucao /\ FilaCoerente /\ TentativaUnica /\ TypeOK
  BY DEF InvarianteExecucao, TypeOKExecucao
<1>2. q \in Repasses /\ q # r
  BY <1>1, EncalhadoSemManipulador DEF Iniciar, Reconciliar, EnviarPix, Finalizar
<1>3. /\ fila' = fila /\ retentando' = retentando
      /\ \/ UNCHANGED vars
         \/ IniciarTransferencia(q) \/ FinalizarVerificando(q) \/ FinalizarEnviado(q)
         \/ FinalizarFalhou(q) \/ FinalizarTransitorio(q)
      /\ \E p, t, x : Avanca(e, p, t, x)
  BY <1>1, AvancoDoIniciar, AvancoDoReconciliar, AvancoDoEnviar, AvancoDoFinalizar
<1>4. status'[r] = status[r] /\ referencia' = referencia
  BY <1>1, <1>2, <1>3 DEF vars, repasseVars, TypeOK, IniciarTransferencia,
     FinalizarVerificando, FinalizarEnviado, FinalizarFalhou, FinalizarTransitorio
<1>5. \A f \in Execucoes : exec'[f].job = exec[f].job
  BY <1>1, <1>3 DEF Avanca, TypeOKExecucao
<1> QED
  BY <1>3, <1>4, <1>5, EncalhadoContinua DEF Encalhado

\* The ledger's other transactions cancel it after a dispute, or pass it by.
LEMMA LivroNaoAlcanca ==
  ASSUME InvarianteExecucao, NEW r \in Repasses, Encalhado(r), PassoSemJob
  PROVE  \/ status'[r] = status[r] /\ Encalhado(r)'
         \/ status[r] = "aprovado" /\ CancelamentoMed(r) /\ status'[r] = "cancelado"
<1>1. TypeOK
  BY DEF InvarianteExecucao, TypeOKExecucao
<1>2. UNCHANGED execVars
  BY DEF PassoSemJob
<1>3. \/ CancelarRepasse(r)
      \/ status'[r] = status[r] /\ referencia' = referencia
  <2>1. ASSUME NEW q \in Repasses, NEW c \in Campanhas, PreflightSolicitar(q, c)
        PROVE  status'[r] = status[r] /\ referencia' = referencia
    BY <2>1 DEF PreflightSolicitar
  <2>2. ASSUME NEW q \in Repasses,
               \/ SolicitarRepasse(q)
               \/ \E comRef \in BOOLEAN : AprovarRepasse(q, comRef)
               \/ q # r /\ CancelarRepasse(q)
               \/ ResolverManualPago(q)
        PROVE  status'[r] = status[r] /\ referencia' = referencia
    BY <1>1, <2>2 DEF SolicitarRepasse, AprovarRepasse, CancelarRepasse,
                      ResolverManualPago, Encalhado, TypeOK
  <2>3. ASSUME NEW p \in Pagamentos,
               LiberarSaldo(p) \/ PassoDoEstorno(p) \/ PassoDaContestacao(p)
        PROVE  status'[r] = status[r] /\ referencia' = referencia
    <3>1. CASE LiberarSaldo(p)
      BY <3>1 DEF LiberarSaldo, repasseVars
    <3>2. CASE PassoDaContestacao(p)
      BY <3>2 DEF PassoDaContestacao, RegistrarContestacao, ResolverContestacao, repasseVars
    <3>3. CASE PassoDoEstorno(p)
      BY <3>3 DEF PassoDoEstorno, ReservarEstornoStripe, IniciarEstornoStripe,
         RegistrarRespostaStripe, RegistrarRespostaCrua, ConvergirEstornoStripe,
         ObservarEstornoStripe, ObservarSemConflito, ConvergirStripe, MudarEstorno,
         CriarDevolucaoPix, ApagarDevolucaoPix, AtualizarDevolucaoPix,
         EstornarPagamentoPix, CancelarLinhasPix, repasseVars
    <3> QED
      BY <2>3, <3>1, <3>2, <3>3
  <2> QED
    BY <2>1, <2>2, <2>3 DEF PassoSemJob
<1>4. CASE CancelarRepasse(r)
  BY <1>1, <1>4 DEF CancelarRepasse, PodeCancelar, CancelamentoMed, Encalhado, TypeOK
<1>5. CASE status'[r] = status[r] /\ referencia' = referencia
  BY <1>2, <1>5, EncalhadoContinua DEF execVars, Encalhado
<1> QED
  BY <1>3, <1>4, <1>5

\* A payout claimed or approved for PIX that no job, handler or retry looks at
\* any more stays where it is: every action of the admin's screen and of the
\* queue refuses it, but the cancellation after a dispute of one still approved
\* (executar-transferencia-repasse.ts: a redelivery without a payable destination
\* completes the job and leaves the payout in transferindo;
\* repasse-enqueuer.pgboss.ts: a job dies once its retries are spent).
THEOREM EncalhadoFica == SpecExecucao => EncalhadoNaoSai
<1>1. ASSUME InvarianteExecucao, [NextExecucao]_todas
      PROVE  [\A r \in Repasses : Encalhado(r) =>
                \/ status'[r] = status[r] /\ Encalhado(r)'
                \/ status[r] = "aprovado" /\ CancelamentoMed(r)
                   /\ status'[r] = "cancelado"]_todas
  <2> SUFFICES ASSUME NextExecucao, NEW r \in Repasses, Encalhado(r)
               PROVE  \/ status'[r] = status[r] /\ Encalhado(r)'
                      \/ status[r] = "aprovado" /\ CancelamentoMed(r)
                         /\ status'[r] = "cancelado"
    BY <1>1
  <2>1. CASE PassoSemJob
    BY <1>1, <2>1, LivroNaoAlcanca
  <2>2. CASE \E q \in Repasses : LerParaRetentar(q) \/ MudarDestino(q)
    <3>1. /\ UNCHANGED <<vars, fila, exec>>
          /\ r \notin retentando'
      BY <2>2 DEF LerParaRetentar, MudarDestino, Encalhado
    <3> QED
      BY <3>1, EncalhadoContinua DEF vars, repasseVars
  <2>3. CASE \E q \in Repasses, j \in Jobs : PassoDoAdmin(q, j)
    BY <1>1, <2>3, AdminNaoAlcanca
  <2>4. CASE \/ \E j \in Jobs : ExpirarJob(j)
             \/ \E e \in Execucoes, j \in Jobs : Buscar(e, j)
             \/ \E e \in Execucoes : Encerrar(e) \/ Morrer(e)
    <3>1. UNCHANGED vars
      BY <2>4 DEF ExpirarJob, Buscar, Encerrar, Morrer
    <3> QED
      BY <1>1, <2>4, <3>1, FilaNaoAlcanca DEF vars, repasseVars
  <2>5. CASE \E e \in Execucoes :
                Iniciar(e) \/ Reconciliar(e) \/ EnviarPix(e) \/ Finalizar(e)
    BY <1>1, <2>5, ManipuladorNaoAlcanca
  <2> QED
    BY <2>1, <2>2, <2>3, <2>4, <2>5 DEF NextExecucao, PassoDoHandler
<1> QED
  BY <1>1, InvarianteExecucaoCorreto, PTL DEF SpecExecucao, EncalhadoNaoSai

=============================================================================
