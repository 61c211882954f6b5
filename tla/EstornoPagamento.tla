-------------------------- MODULE EstornoPagamento --------------------------
(***************************************************************************)
(* Refunding an approved payment: administrators ask for it, at the same   *)
(* time or again, the money goes back through Inter (a devolucao) or       *)
(* Stripe (a refund), and a callback tells of it.  A request can be in     *)
(* flight when its sender has given up or died.  LivroRepasses has what    *)
(* refunds and payouts do to the ledger; here a payout is one of three     *)
(* states, and the steps of a refund and the provider are in full.         *)
(*                                                                         *)
(* Inter and Stripe are external, and are not trusted to refuse a second   *)
(* request.  The webhook archive is left out: a callback is delivered, also*)
(* twice at a time, until one delivery of it succeeds.  Bindings match, and*)
(* attempts are not numbered: one is claimed when the last was seen to fail*)
(***************************************************************************)
EXTENDS Naturals

CONSTANTS
    Pagamentos,      \* approved payments
    Admins, Avisos,  \* BOUND: refund mutations and callbacks being served
    MaxFalhas,       \* BOUND on crashes and on calls that fail
    Ninguem          \* no payment

ASSUME SuposicaoEstorno ==
    /\ Admins \cap Avisos = {}
    /\ Ninguem \notin Pagamentos
    /\ MaxFalhas \in Nat

VARIABLES
    pix,        \* payments charged by Inter; the others, by Stripe
    status,     \* of the payment
    cancelado,  \* its ledger rows are cancelled
    repasse,    \* its payout: none that blocks, one that does, or done
    registro,   \* its devolucao or refund operation
    visto,      \* the operation has the fact of its callback
    ator,       \* where each administrator and callback is
    voando,     \* requests the provider has still to receive
    banco,      \* what became of the last request at the provider
    devolucoes, \* how often the money went back
    avisado,    \* the callback was acknowledged
    falhas

local == <<status, cancelado, registro, visto>>
externo == <<voando, banco, devolucoes>>
vars == <<pix, local, repasse, ator, externo, avisado, falhas>>

Atores == Admins \cup Avisos
Pix(p) == p \in pix

RegistrosPix == {"em_processamento", "em_processamento+rtr", "devolvida", "nao_realizada",
                 "rejeitada"}
RegistrosStripe == {"reserved", "provider_started", "provider_pending", "provider_failed",
                    "provider_succeeded", "outcome_unknown", "local_committed"}
Registros == {"nenhum"} \cup RegistrosPix \cup RegistrosStripe
Bloqueantes == Registros \ {"nenhum", "nao_realizada", "rejeitada", "provider_failed"}

Passos == {"livre", "lendo", "criando", "pedindo", "esperando", "apagando", "consultando",
           "gravando", "confirmando", "finalizando", "estornando", "cancelando", "reservando",
           "reclamando", "desconhecendo", "convergindo", "observando", "verificando"}
Livre == [passo |-> "livre", p |-> Ninguem, saida |-> "nenhum"]

TypeOK ==
    /\ pix \subseteq Pagamentos
    /\ status \in [Pagamentos -> {"aprovado", "estornado"}]
    /\ cancelado \in [Pagamentos -> BOOLEAN]
    /\ repasse \in [Pagamentos -> {"fora", "movendo", "pago"}]
    /\ registro \in [Pagamentos -> Registros]
    /\ \A p \in Pagamentos : registro[p] \in IF Pix(p) THEN RegistrosPix \cup {"nenhum"}
                                             ELSE RegistrosStripe \cup {"nenhum"}
    /\ visto \in [Pagamentos -> BOOLEAN]
    /\ ator \in [Atores -> [passo : Passos, p : Pagamentos \cup {Ninguem}, saida : Registros]]
    /\ voando \in [Pagamentos -> Nat]
    /\ banco \in [Pagamentos -> {"nada", "processando", "devolvido", "recusado", "painel"}]
    /\ devolucoes \in [Pagamentos -> Nat]
    /\ avisado \in [Pagamentos -> BOOLEAN]
    /\ falhas \in 0..MaxFalhas

Init ==
    /\ pix \in SUBSET Pagamentos
    /\ status = [p \in Pagamentos |-> "aprovado"]
    /\ cancelado = [p \in Pagamentos |-> FALSE]
    /\ repasse = [p \in Pagamentos |-> "fora"]
    /\ registro = [p \in Pagamentos |-> "nenhum"]
    /\ visto = [p \in Pagamentos |-> FALSE]
    /\ ator = [a \in Atores |-> Livre]
    /\ voando = [p \in Pagamentos |-> 0]
    /\ banco = [p \in Pagamentos |-> "nada"]
    /\ devolucoes = [p \in Pagamentos |-> 0]
    /\ avisado = [p \in Pagamentos |-> FALSE]
    /\ falhas = MaxFalhas

-----------------------------------------------------------------------------
(* The provider *)

SoExterno == UNCHANGED <<local, repasse, ator, avisado, falhas>>
Devolver(p) == devolucoes' = [devolucoes EXCEPT ![p] = @ + 1]

\* A request arrives: it is taken on, or refused; of a charge refunded by hand Stripe
\* refuses a further refund.
Chegar(p, destino) ==
    /\ voando[p] > 0
    /\ destino \in {"processando", "recusado"}
    /\ voando' = [voando EXCEPT ![p] = @ - 1]
    /\ banco' = IF banco[p] = "painel" THEN banco ELSE [banco EXCEPT ![p] = destino]
    /\ UNCHANGED devolucoes /\ SoExterno

Concluir(p) ==
    /\ banco[p] = "processando"
    /\ banco' = [banco EXCEPT ![p] = "devolvido"]
    /\ Devolver(p)
    /\ UNCHANGED voando /\ SoExterno

Desistir(p) ==
    /\ banco[p] = "processando"
    /\ banco' = [banco EXCEPT ![p] = "recusado"]
    /\ UNCHANGED <<voando, devolucoes>> /\ SoExterno

\* Someone refunds the charge in Stripe's dashboard.
DevolverNoPainel(p) ==
    /\ ~Pix(p) /\ banco[p] \in {"nada", "recusado"}
    /\ banco' = [banco EXCEPT ![p] = "painel"]
    /\ Devolver(p)
    /\ UNCHANGED voando /\ SoExterno

-----------------------------------------------------------------------------
(* The payout *)

SoRepasse == UNCHANGED <<local, ator, externo, avisado, falhas>>
MudarRepasse(p, de, para) == repasse[p] = de /\ repasse' = [repasse EXCEPT ![p] = para]

\* assertTransfersAllowed, under the payment's lock, of rows that are not cancelled.
Prender(p) ==
    /\ MudarRepasse(p, "fora", "movendo")
    /\ ~cancelado[p] /\ registro[p] \notin Bloqueantes
    /\ SoRepasse
Pagar(p) == MudarRepasse(p, "movendo", "pago") /\ SoRepasse
Soltar(p) == MudarRepasse(p, "movendo", "fora") /\ SoRepasse

-----------------------------------------------------------------------------
(* Actors *)

Em(a, passo) == ator[a].passo = passo
Pag(a) == ator[a].p
Ir(a, passo) == ator' = [ator EXCEPT ![a].passo = passo]
Comecar(a, p, passo) ==
    ator' = [ator EXCEPT ![a] = [passo |-> passo, p |-> p, saida |-> "nenhum"]]
IrCom(a, passo, s) == ator' = [ator EXCEPT ![a].passo = passo, ![a].saida = s]
\* The mutation returns or throws.
Sair(a) == ator' = [ator EXCEPT ![a] = Livre]
SoAtor == UNCHANGED <<local, repasse, externo, avisado, falhas>>
Gravar(p, s) == registro' = [registro EXCEPT ![p] = s]
SoRegistro == UNCHANGED <<status, cancelado, visto, repasse, externo, avisado, falhas>>

\* A callback is acknowledged when it was served, else delivered again.
Terminar(a) ==
    /\ Sair(a)
    /\ avisado' = IF a \in Avisos THEN [avisado EXCEPT ![Pag(a)] = TRUE] ELSE avisado

Iniciar(a, p) ==
    /\ Em(a, "livre")
    /\ Comecar(a, p, "lendo")
    /\ SoAtor

\* Mutant: every refund takes the way of the historical payments.
LerSemProvedor(a) ==
    LET p == Pag(a)
    IN  /\ Em(a, "lendo")
        /\ IF status[p] = "estornado" \/ repasse[p] = "pago" THEN Sair(a)
           ELSE Ir(a, "reservando")
        /\ SoAtor
\* The gate before any external call; a refund that was done is replayed.
Ler(a) ==
    LET p == Pag(a)
    IN  /\ Em(a, "lendo")
        /\ IF status[p] = "estornado"
           THEN IF Pix(p) /\ registro[p] = "devolvida" THEN Ir(a, "confirmando") ELSE Sair(a)
           ELSE IF repasse[p] = "pago" THEN Sair(a)
           ELSE Ir(a, IF Pix(p) THEN "criando" ELSE "reservando")
        /\ SoAtor

Movimentado(p) == repasse[p] \in {"movendo", "pago"}

-----------------------------------------------------------------------------
(* Inter *)

\* Mutant: a devolucao that Inter took on is as good as done.
RamificarOtimista(a, s, pendente) ==
    IF s \in {"devolvida", "em_processamento+rtr"} THEN Ir(a, "confirmando")
    ELSE IF s = "em_processamento" /\ pendente # "livre" THEN Ir(a, pendente)
    ELSE Sair(a)
\* What an administrator does once it knows the state s of the devolucao.
Ramificar(a, s, pendente) ==
    IF s = "devolvida" THEN Ir(a, "confirmando")
    ELSE IF s \in {"em_processamento", "em_processamento+rtr"} /\ pendente # "livre"
         THEN Ir(a, pendente)
    ELSE Sair(a)

\* Mutant: a devolucao that is still pending is asked for again.
CriarRepetindo(a) ==
    LET p == Pag(a)
    IN  /\ Em(a, "criando")
        /\ IF Movimentado(p) THEN Sair(a) /\ UNCHANGED registro
           ELSE IF registro[p] = "nenhum"
                THEN Gravar(p, "em_processamento") /\ Ir(a, "pedindo")
           ELSE Ramificar(a, registro[p], "pedindo") /\ UNCHANGED registro
        /\ SoRegistro
\* createIfAbsent, with the payment locked.
CriarDevolucao(a) ==
    LET p == Pag(a)
    IN  /\ Em(a, "criando")
        /\ IF Movimentado(p) THEN Sair(a) /\ UNCHANGED registro
           ELSE IF registro[p] = "nenhum"
                THEN Gravar(p, "em_processamento") /\ Ir(a, "pedindo")
           ELSE Ramificar(a, registro[p], "consultando") /\ UNCHANGED registro
        /\ SoRegistro

\* solicitarDevolucao: no token or no connection, or the PUT is under way.
Pedir(a) ==
    LET p == Pag(a)
    IN  /\ Em(a, "pedindo")
        /\ \/ /\ Ir(a, IF Pix(p) THEN "apagando" ELSE "desconhecendo")
              /\ UNCHANGED voando
           \/ /\ Ir(a, "esperando")
              /\ voando' = [voando EXCEPT ![p] = @ + 1]
        /\ UNCHANGED <<local, repasse, banco, devolucoes, avisado, falhas>>

\* What the answer to a request, or to a read, says if it says anything.
Resposta(p) ==
    CASE banco[p] = "processando" -> IF Pix(p) THEN "em_processamento+rtr" ELSE "provider_pending"
      [] banco[p] = "devolvido"   -> IF Pix(p) THEN "devolvida" ELSE "provider_succeeded"
      [] banco[p] = "recusado"    -> IF Pix(p) THEN "nao_realizada" ELSE "provider_failed"
      [] OTHER                    -> "nenhum"

\* An HTTP 400 is a rejection; any other failure of a request is ambiguous, be it under
\* way or done.
Receber(a) ==
    LET p == Pag(a)
    IN  /\ Em(a, "esperando")
        /\ \/ /\ voando[p] = 0 /\ Resposta(p) # "nenhum"
              /\ \E s \in {Resposta(p)} \cup (IF Resposta(p) = "nao_realizada" THEN {"rejeitada"}
                                              ELSE {}) : IrCom(a, "gravando", s)
           \/ IF Pix(p) THEN Sair(a) ELSE Ir(a, "desconhecendo")
        /\ SoAtor

\* deleteIfPending, of a devolucao that was definitely not sent.
ApagarDevolucao(a) ==
    LET p == Pag(a)
    IN  /\ Em(a, "apagando")
        /\ registro' = IF registro[p] = "em_processamento" THEN [registro EXCEPT ![p] = "nenhum"]
                       ELSE registro
        /\ Sair(a) /\ SoRegistro

\* consultarDevolucao of a devolucao someone else asked for.  A GET that fails, or finds
\* none, decides nothing.
Consultar(a) ==
    LET p == Pag(a)
    IN  /\ Em(a, "consultando")
        /\ \/ Resposta(p) # "nenhum" /\ IrCom(a, "gravando", Resposta(p))
           \/ Sair(a)
        /\ SoAtor

\* updateOutcome: only what is in process gets an outcome; the caller goes on from the
\* outcome that is there.
Desfecho(p, s) ==
    IF registro[p] \in {"em_processamento", "em_processamento+rtr"} THEN s ELSE registro[p]

GravarDevolucao(a) ==
    LET p == Pag(a)
        s == Desfecho(p, ator[a].saida)
    IN  /\ Em(a, "gravando") /\ Pix(p)
        /\ Gravar(p, s)
        /\ Ramificar(a, s, "livre")
        /\ SoRegistro

\* finalizarEstornoPixVerificado, for whom the provider said that the money is back.
ConfirmarDevolucao(a) ==
    LET p == Pag(a)
        s == Desfecho(p, "devolvida")
    IN  /\ Em(a, "confirmando")
        /\ Gravar(p, s)
        /\ IF s = "devolvida" THEN Ir(a, "finalizando") ELSE Sair(a)
        /\ SoRegistro

\* Mutant: a payment that is estornado needs nothing more.
FinalizarSemReparo(a) ==
    LET p == Pag(a)
    IN  /\ Em(a, "finalizando")
        /\ IF status[p] = "estornado"
           THEN Terminar(a) ELSE (UNCHANGED avisado /\ IF repasse[p] = "pago" THEN Sair(a)
                                                      ELSE Ir(a, "estornando"))
        /\ UNCHANGED <<local, repasse, externo, falhas>>
Finalizar(a) ==
    LET p == Pag(a)
    IN  /\ Em(a, "finalizando")
        /\ IF status[p] = "estornado" THEN Ir(a, "cancelando")
           ELSE IF repasse[p] = "pago" THEN Sair(a)
           ELSE Ir(a, "estornando")
        /\ SoAtor

\* updateIfStatusIn; who loses goes on if the payment is estornado.
EstornarPagamento(a) ==
    /\ Em(a, "estornando")
    /\ status' = [status EXCEPT ![Pag(a)] = "estornado"]
    /\ Ir(a, "cancelando")
    /\ UNCHANGED <<cancelado, registro, visto, repasse, externo, avisado, falhas>>

\* marcarLancamentosComoCanceladosPorPagamento
CancelarLancamentos(a) ==
    LET p == Pag(a)
    IN  /\ Em(a, "cancelando")
        /\ cancelado' = [cancelado EXCEPT ![p] = @ \/ repasse[p] # "pago"]
        /\ Terminar(a)
        /\ UNCHANGED <<status, registro, visto, repasse, externo, falhas>>

-----------------------------------------------------------------------------
(* Stripe *)

\* reserve and claimProviderStart, each with the payment locked.
Reservar(a) ==
    LET p == Pag(a)
    IN  /\ Em(a, "reservando")
        /\ IF status[p] # "aprovado" \/ Movimentado(p) THEN Sair(a) /\ UNCHANGED registro
           ELSE /\ Ir(a, "reclamando")
                /\ registro' = IF registro[p] = "nenhum" THEN [registro EXCEPT ![p] = "reserved"]
                               ELSE registro
        /\ SoRegistro

\* Mutant: the claim trusts the check that reserve made.
ReclamarSemOlhar(a) ==
    LET p == Pag(a)
    IN  /\ Em(a, "reclamando")
        /\ IF registro[p] \in {"reserved", "provider_failed"}
           THEN Gravar(p, "provider_started") /\ Ir(a, "pedindo")
           ELSE /\ IF registro[p] = "provider_succeeded" THEN Ir(a, "convergindo") ELSE Sair(a)
                /\ UNCHANGED registro
        /\ SoRegistro
Reclamar(a) ==
    LET p == Pag(a)
    IN  /\ Em(a, "reclamando")
        /\ IF registro[p] \in {"reserved", "provider_failed"}
           THEN IF Movimentado(p) THEN Sair(a) /\ UNCHANGED registro
                ELSE Gravar(p, "provider_started") /\ Ir(a, "pedindo")
           ELSE /\ IF registro[p] = "provider_succeeded" THEN Ir(a, "convergindo") ELSE Sair(a)
                /\ UNCHANGED registro
        /\ SoRegistro

\* recordOutcomeUnknown
Desconhecer(a) ==
    LET p == Pag(a)
    IN  /\ Em(a, "desconhecendo")
        /\ registro' = IF registro[p] = "provider_started"
                       THEN [registro EXCEPT ![p] = "outcome_unknown"] ELSE registro
        /\ Sair(a) /\ SoRegistro

\* recordProviderResult, which a callback may have come before.
GravarResultado(a) ==
    LET p == Pag(a)
        s == IF registro[p] = "provider_started" THEN ator[a].saida ELSE registro[p]
    IN  /\ Em(a, "gravando") /\ ~Pix(p)
        /\ Gravar(p, s)
        /\ IF s \in {"provider_failed", "provider_pending"} THEN Sair(a) ELSE Ir(a, "convergindo")
        /\ SoRegistro

\* convergeInTransaction, of an operation in state s that succeeded: the payment, its
\* rows and the operation at once.
Convergencia(p, s) ==
    LET faz == s = "provider_succeeded" /\ ~Movimentado(p)
    IN  /\ status' = IF faz THEN [status EXCEPT ![p] = "estornado"] ELSE status
        /\ cancelado' = IF faz THEN [cancelado EXCEPT ![p] = TRUE] ELSE cancelado
        /\ registro' = [registro EXCEPT ![p] = IF faz THEN "local_committed" ELSE s]

Convergir(a) ==
    /\ Em(a, "convergindo")
    /\ Convergencia(Pag(a), registro[Pag(a)])
    /\ Sair(a)
    /\ UNCHANGED <<visto, repasse, externo, avisado, falhas>>

-----------------------------------------------------------------------------
(* Callbacks *)

\* Inter tells of a devolucao as it goes on, Stripe of a refund that was made.
Avisar(h, p) ==
    /\ Em(h, "livre") /\ ~avisado[p]
    /\ banco[p] \in {"devolvido", "painel"} \cup (IF Pix(p) THEN {"processando"} ELSE {})
    /\ Comecar(h, p, IF Pix(p) THEN "verificando" ELSE "observando")
    /\ SoAtor

\* The callback of Inter is a hint: it is believed when a GET says devolvida.
Verificar(h) ==
    LET p == Pag(h)
    IN  /\ Em(h, "verificando")
        /\ IF registro[p] = "nenhum" THEN Terminar(h)
           ELSE /\ IF Resposta(p) = "devolvida" THEN Ir(h, "confirmando") ELSE Sair(h)
                /\ UNCHANGED avisado
        /\ UNCHANGED <<local, repasse, externo, falhas>>

\* observeVerifiedAndConverge: the fact is kept though a payout contradicts it, and the
\* delivery fails; its redeliveries find the fact and fail as well.
Observar(h) ==
    LET p == Pag(h)
        s == IF registro[p] = "local_committed" THEN "local_committed"
             ELSE IF Movimentado(p) THEN "outcome_unknown" ELSE "provider_succeeded"
    IN  /\ Em(h, "observando")
        /\ IF visto[p] THEN UNCHANGED <<status, cancelado, registro>> ELSE Convergencia(p, s)
        /\ visto' = [visto EXCEPT ![p] = TRUE]
        /\ IF registro'[p] = "local_committed" THEN Terminar(h)
           ELSE Sair(h) /\ UNCHANGED avisado
        /\ UNCHANGED <<repasse, externo, falhas>>

\* The process dies, or a read or a write of an actor fails: nothing is undone.
Cair(a) ==
    /\ ~Em(a, "livre") /\ falhas > 0
    /\ Sair(a)
    /\ falhas' = falhas - 1
    /\ UNCHANGED <<local, repasse, externo, avisado>>

-----------------------------------------------------------------------------
PassoDoProvedor(p) ==
    \/ \E destino \in {"processando", "recusado"} : Chegar(p, destino)
    \/ Concluir(p) \/ Desistir(p) \/ DevolverNoPainel(p)

PassoDoRepasse(p) == Prender(p) \/ Pagar(p) \/ Soltar(p)

PassoPix(a) ==
    \/ CriarDevolucao(a) \/ ApagarDevolucao(a) \/ Consultar(a) \/ GravarDevolucao(a)
    \/ ConfirmarDevolucao(a) \/ Finalizar(a) \/ EstornarPagamento(a) \/ CancelarLancamentos(a)

PassoStripe(a) ==
    \/ Reservar(a) \/ Reclamar(a) \/ Desconhecer(a) \/ GravarResultado(a) \/ Convergir(a)

PassoDoAtor(a) ==
    \/ Ler(a) \/ Pedir(a) \/ Receber(a)
    \/ PassoPix(a) \/ PassoStripe(a)
    \/ Verificar(a) \/ Observar(a)

Next ==
    /\ UNCHANGED pix
    /\ \/ \E p \in Pagamentos : PassoDoProvedor(p) \/ PassoDoRepasse(p)
       \/ \E a \in Admins, p \in Pagamentos : Iniciar(a, p)
       \/ \E h \in Avisos, p \in Pagamentos : Avisar(h, p)
       \/ \E a \in Atores : PassoDoAtor(a) \/ Cair(a)

Spec == Init /\ [][Next]_vars

\* A callback that fails is delivered again, whatever becomes of others, and who serves
\* it goes on.  Nothing is assumed of administrators, payouts or the provider.
SpecJusta ==
    /\ Spec
    /\ \A p \in Pagamentos : SF_vars(UNCHANGED pix /\ \E h \in Avisos : Avisar(h, p))
    /\ \A h \in Avisos : WF_vars(UNCHANGED pix /\ PassoDoAtor(h))

-----------------------------------------------------------------------------
(* Correctness *)

\* However many ask, give up, die and ask again, the money of a payment goes back once
\* (estornar-pagamento.ts: "issue at most one PUT").
DevolveUmaVez == \A p \in Pagamentos : devolucoes[p] <= 1

\* A payment is estornado, and its rows are cancelled, only when the provider has given
\* the money back; a devolucao is not taken for done while it is only under way.
EstornadoFoiDevolvido ==
    \A p \in Pagamentos :
        status[p] = "estornado" \/ cancelado[p] => banco[p] \in {"devolvido", "painel"}

\* Money that the platform gives back through the provider does not also go to the
\* receiver: refunds and payouts, with requests in flight, are DestinoDoCredito.
Destino(p) ==
    IF repasse[p] = "pago" THEN "recebedor"
    ELSE IF banco[p] = "devolvido" THEN "contribuinte"
    ELSE "plataforma"
Credito == INSTANCE DestinoDoCredito WITH destino <- [p \in Pagamentos |-> Destino(p)]
ImplementaDestino == Credito!Spec

\* A refund the provider made is recorded, in the payment and in its rows, although its
\* answer was lost, its sender died, or one write of two failed.
DevolvidoSeRegistra ==
    \A p \in Pagamentos :
        banco[p] = "devolvido" ~> (status[p] = "estornado" /\ cancelado[p])
=============================================================================
