------------------------ MODULE PagamentoStripeProvas ------------------------
(***************************************************************************)
(* Proofs about PagamentoStripe, for any payments, handlers and failures.  *)
(* A session that is paid or expired stays so, and a card's intent is bound*)
(* only after its session was paid: what a handler found out about a card  *)
(* is still true when it writes, although the rejection is a plain update. *)
(* That fails for the intents whose metadata name their payment, and what  *)
(* happens to those is stated and proved as well.                          *)
(***************************************************************************)
EXTENDS PagamentoStripe, TLAPS

Rejeitando == {"recusando", "rejeitando", "conferindo", "gravandoRejeitado"}

\* What the step of a handler says of its payment.
SabeDoHandler(h) ==
    LET p == Pag(h) IN
    /\ handler[h].passo # "livre" => handler[h].evento \in emitidos
    /\ handler[h].passo = "finalizando" /\ p \in cartoes => sessao[p] = "paga"
    /\ handler[h].passo \in Rejeitando /\ p \in CartoesComuns =>
          sessao[p] \in {"paga", "expirada"}
    /\ handler[h].passo = "gravandoRejeitado" /\ p \in CartoesComuns => sessao[p] = "expirada"
    /\ handler[h].passo = "processando" => p \notin cartoes
    /\ handler[h].passo \in {"gravandoAprovado", "anunciando", "lendo", "registrando"} =>
          sessao[p] = "paga"
    /\ handler[h].passo \in {"anunciando", "lendo", "registrando"} =>
          status[p] = "aprovado" \/ (p \notin CartoesComuns /\ status[p] = "rejeitado")
    /\ handler[h].passo = "anunciando" => anuncios[p] = 0

\* The winner of an approval is alone in announcing it.
AnunciaSozinho ==
    \A g, h \in Handlers :
        Em(g, "anunciando") /\ Em(h, "anunciando") /\ Pag(g) = Pag(h) => g = h

\* What was emitted, bound and decided says of a session.
SabeDoPagamento(p) ==
    /\ p \in cartoes =>
          /\ sessao[p] \in {"aberta", "paga", "expirada"}
          /\ p \in vinculado => sessao[p] = "paga"
          /\ <<"session.completed", p>> \in emitidos => sessao[p] = "paga"
          /\ <<"intent.processing", p>> \notin emitidos
    /\ p \in CartoesComuns =>
          /\ status[p] = "rejeitado" => sessao[p] = "expirada"
          /\ status[p] # "aprovado" => anuncios[p] = 0 /\ registros[p] = 0
    /\ <<"session.expired", p>> \in emitidos => sessao[p] = "expirada"
    /\ status[p] = "aprovado" \/ anuncios[p] > 0 \/ registros[p] > 0 => sessao[p] = "paga"
    /\ status[p] \in {"pendente", "processing"} => anuncios[p] = 0

IInv ==
    /\ TypeOK
    /\ \A h \in Handlers : SabeDoHandler(h)
    /\ AnunciaSozinho
    /\ \A p \in Pagamentos : SabeDoPagamento(p)

TipoDoHandler == [passo : Passos, evento : Eventos \cup {Ninguem},
                  saida : {"nenhuma", "ok", "erro"}]

-----------------------------------------------------------------------------
\* The initial states satisfy the invariant.
LEMMA IInvInicial == Init => IInv
<1> SUFFICES ASSUME Init PROVE IInv
    OBVIOUS
<1> USE DEF Init, Livre
<1>1. TypeOK
    BY SuposicaoStripe DEF TypeOK, Passos, Arq!EstadosDoArquivo, Arq!ArquivoInicial
<1>2. \A h \in Handlers : SabeDoHandler(h)
    BY DEF SabeDoHandler, Rejeitando
<1>3. AnunciaSozinho
    BY DEF AnunciaSozinho, Em
<1>4. ASSUME NEW p \in Pagamentos PROVE SabeDoPagamento(p)
    <2>1. /\ sessao[p] = "aberta" /\ status[p] = "pendente"
          /\ anuncios[p] = 0 /\ registros[p] = 0 /\ ~(0 > 0)
          /\ emitidos = {} /\ vinculado = {}
        OBVIOUS
    <2> QED BY <2>1 DEF SabeDoPagamento
<1> QED BY <1>1, <1>2, <1>3, <1>4 DEF IInv

\* A busy handler serves a payment.
LEMMA OcupadoServe ==
    ASSUME IInv, NEW h \in Handlers, handler[h].passo # "livre"
    PROVE  handler[h].evento \in Eventos /\ Pag(h) \in Pagamentos /\ Tipo(h) \in Tipos
BY DEF IInv, TypeOK, SabeDoHandler, Eventos, Pag, Tipo

\* The handler goes on with the same event.
Andou(h) ==
    /\ handler' \in [Handlers -> TipoDoHandler]
    /\ \A g \in Handlers : g # h => handler'[g] = handler[g]
    /\ handler'[h].evento = handler[h].evento

LEMMA IrAnda ==
    ASSUME TypeOK, NEW h \in Handlers, NEW x \in Passos, Ir(h, x)
    PROVE  Andou(h) /\ handler'[h].passo = x
BY DEF TypeOK, TipoDoHandler, Ir, Andou

LEMMA SairAnda ==
    ASSUME TypeOK, NEW h \in Handlers, NEW s \in {"nenhuma", "ok", "erro"}, Sair(h, s)
    PROVE  Andou(h) /\ handler'[h].passo = "encerrando"
BY DEF TypeOK, TipoDoHandler, Sair, Andou, Passos

\* A handler that changes no payment and no session keeps the invariant, if what it
\* knows at its new step holds and it is not about to announce.
LEMMA SoOHandlerAnda ==
    ASSUME IInv, NEW h \in Handlers,
           handler' \in [Handlers -> TipoDoHandler],
           \A g \in Handlers : g # h => handler'[g] = handler[g],
           SabeDoHandler(h)', handler'[h].passo # "anunciando",
           UNCHANGED <<cartoes, comMetadados, sessao, emitidos, vinculado, status, anuncios,
                       registros>>,
           arquivo' \in Arq!EstadosDoArquivo, falhas' \in 0..MaxFalhas
    PROVE  IInv'
<1>1. TypeOK'
    BY DEF IInv, TypeOK, TipoDoHandler, Arq!EstadosDoArquivo, Eventos
<1>2. \A g \in Handlers : SabeDoHandler(g)'
    <2> TAKE g \in Handlers
    <2>1. CASE g = h
        BY <2>1
    <2>2. CASE g # h
        BY <2>2 DEF CartoesComuns, IInv, TypeOK, SabeDoHandler, Pag
    <2> QED BY <2>1, <2>2
<1>3. AnunciaSozinho'
    BY DEF IInv, TypeOK, AnunciaSozinho, Em, Pag
<1>4. \A p \in Pagamentos : SabeDoPagamento(p)'
    BY DEF CartoesComuns, IInv, TypeOK, SabeDoPagamento
<1> QED BY <1>1, <1>2, <1>3, <1>4 DEF IInv

\* The steps that leave the payment alone, each with what its handler must know.
LEMMA HandlerAnda ==
    ASSUME IInv, NEW h \in Handlers, Andou(h), handler[h].passo # "livre",
           \/ handler'[h].passo \in {"encerrando", "aprovando", "cobrando"}
           \/ handler'[h].passo = "finalizando" /\ (Pag(h) \in cartoes => sessao[Pag(h)] = "paga")
           \/ handler'[h].passo = "processando" /\ Pag(h) \notin cartoes
           \/ /\ handler'[h].passo \in {"recusando", "rejeitando", "conferindo"}
              /\ Pag(h) \in CartoesComuns => sessao[Pag(h)] \in {"paga", "expirada"}
           \/ /\ handler'[h].passo = "gravandoRejeitado"
              /\ Pag(h) \in CartoesComuns => sessao[Pag(h)] = "expirada"
           \/ handler'[h].passo = "gravandoAprovado" /\ sessao[Pag(h)] = "paga"
           \/ /\ handler'[h].passo \in {"lendo", "registrando"} /\ sessao[Pag(h)] = "paga"
              /\ \/ status[Pag(h)] = "aprovado"
                 \/ Pag(h) \notin CartoesComuns /\ status[Pag(h)] = "rejeitado",
           UNCHANGED <<cartoes, comMetadados, sessao, emitidos, vinculado, status, anuncios,
                       registros>>,
           arquivo' \in Arq!EstadosDoArquivo, falhas' \in 0..MaxFalhas
    PROVE  IInv'
<1>1. SabeDoHandler(h) /\ Pag(h)' = Pag(h) /\ handler'[h].evento \in emitidos'
    BY DEF IInv, Andou, Pag, SabeDoHandler
<1>2. SabeDoHandler(h)'
    <2>1. CASE handler'[h].passo \in {"encerrando", "aprovando", "cobrando", "finalizando",
                                      "processando"}
        BY <1>1, <2>1 DEF SabeDoHandler, Rejeitando
    <2>2. CASE handler'[h].passo \in Rejeitando
        BY <1>1, <2>2 DEF CartoesComuns, SabeDoHandler, Rejeitando
    <2>3. CASE handler'[h].passo \in {"gravandoAprovado", "lendo", "registrando"}
        BY <1>1, <2>3 DEF CartoesComuns, SabeDoHandler, Rejeitando
    <2> QED BY <2>1, <2>2, <2>3 DEF Rejeitando
<1> QED BY <1>2, SoOHandlerAnda DEF Andou

\* The writes to a payment, each with the step its handler leaves and reaches.
LEMMA HandlerEscreve ==
    ASSUME IInv, NEW h \in Handlers, NEW p \in Pagamentos, Pag(h) = p, Andou(h),
           UNCHANGED <<cartoes, comMetadados, sessao, emitidos, arquivo, falhas>>,
           \/ /\ Em(h, "despachando") /\ handler[h].evento = <<"session.completed", p>>
              /\ vinculado' = vinculado \cup {p}
              /\ \/ handler'[h].passo = "finalizando"
                 \/ handler'[h].passo = "processando" /\ p \notin cartoes
              /\ UNCHANGED <<status, anuncios, registros>>
           \/ /\ Em(h, "processando") /\ handler'[h].passo = "encerrando"
              /\ status[p] = "pendente" /\ status' = [status EXCEPT ![p] = "processing"]
              /\ UNCHANGED <<vinculado, anuncios, registros>>
           \/ /\ Em(h, "gravandoAprovado") /\ handler'[h].passo = "anunciando"
              /\ status[p] \in {"pendente", "processing"}
              /\ status' = [status EXCEPT ![p] = "aprovado"]
              /\ UNCHANGED <<vinculado, anuncios, registros>>
           \/ /\ Em(h, "gravandoRejeitado") /\ handler'[h].passo = "encerrando"
              /\ status' = [status EXCEPT ![p] = "rejeitado"]
              /\ UNCHANGED <<vinculado, anuncios, registros>>
           \/ /\ Em(h, "anunciando") /\ handler'[h].passo = "lendo"
              /\ anuncios' = [anuncios EXCEPT ![p] = @ + 1]
              /\ UNCHANGED <<vinculado, status, registros>>
           \/ /\ Em(h, "registrando") /\ handler'[h].passo = "encerrando"
              /\ registros' = [registros EXCEPT ![p] = 1]
              /\ UNCHANGED <<vinculado, status, anuncios>>
    PROVE  IInv'
<1> USE DEF IInv, TypeOK, Andou, Em
<1>1. SabeDoHandler(h) /\ SabeDoPagamento(p) /\ Pag(h) = p
    OBVIOUS
<1>2. TypeOK'
    <2>1. /\ status' \in [Pagamentos -> {"pendente", "processing", "aprovado", "rejeitado"}]
          /\ anuncios' \in [Pagamentos -> {0, 1}]
          /\ registros' \in [Pagamentos -> {0, 1}]
          /\ vinculado' \subseteq Pagamentos
        BY <1>1 DEF SabeDoHandler
    <2> QED BY <2>1 DEF TipoDoHandler, Arq!EstadosDoArquivo, Eventos
<1>3. \A q \in Pagamentos : SabeDoPagamento(q)'
    <2>1. \A q \in Pagamentos : q # p => SabeDoPagamento(q)'
        BY DEF CartoesComuns, SabeDoPagamento
    <2>2. SabeDoPagamento(p)'
        <3>1. CASE Em(h, "despachando") \/ Em(h, "processando")
            BY <1>1, <3>1 DEF CartoesComuns, SabeDoPagamento, SabeDoHandler
        <3>2. CASE Em(h, "gravandoAprovado") \/ Em(h, "gravandoRejeitado")
            BY <1>1, <3>2 DEF CartoesComuns, SabeDoPagamento, SabeDoHandler
        <3>3. CASE Em(h, "anunciando") \/ Em(h, "registrando")
            BY <1>1, <3>3 DEF CartoesComuns, SabeDoPagamento, SabeDoHandler
        <3> QED BY <3>1, <3>2, <3>3
    <2> QED BY <2>1, <2>2
<1>p. Pag(h)' = p /\ handler'[h].evento \in emitidos'
    BY <1>1 DEF Pag, SabeDoHandler
<1>4. SabeDoHandler(h)'
    <2>1. CASE handler'[h].passo = "encerrando"
        BY <1>p, <2>1 DEF SabeDoHandler, Rejeitando
    <2>2. CASE Em(h, "despachando")
        BY <1>1, <1>p, <2>2 DEF SabeDoHandler, SabeDoPagamento, Rejeitando
    <2>3. CASE Em(h, "gravandoAprovado")
        BY <1>1, <1>p, <2>3 DEF SabeDoHandler, SabeDoPagamento, Rejeitando
    <2>4. CASE Em(h, "anunciando")
        BY <1>1, <1>p, <2>4 DEF CartoesComuns, SabeDoHandler, Rejeitando
    <2> QED BY <2>1, <2>2, <2>3, <2>4
<1>5. ASSUME NEW g \in Handlers, g # h PROVE SabeDoHandler(g)'
    <2>1. SabeDoHandler(g) /\ handler'[g] = handler[g] /\ Pag(g)' = Pag(g)
        BY <1>5 DEF Pag
    <2>2. CASE Pag(g) = p
        <3>1. \/ UNCHANGED <<status, anuncios>>
              \/ UNCHANGED anuncios /\ status' = [status EXCEPT ![p] = status'[p]]
                 /\ (handler[g].passo \in {"anunciando", "lendo", "registrando"} =>
                        \/ status'[p] = "aprovado"
                        \/ p \notin CartoesComuns /\ status'[p] = "rejeitado")
              \/ UNCHANGED status /\ handler[g].passo # "anunciando"
            BY <1>1, <1>5, <2>1, <2>2 DEF SabeDoHandler, SabeDoPagamento, AnunciaSozinho
        <3> QED BY <2>1, <2>2, <3>1 DEF CartoesComuns, SabeDoHandler, Rejeitando
    <2>3. CASE Pag(g) # p
        <3>1. /\ Pag(g) \in Pagamentos => status'[Pag(g)] = status[Pag(g)]
                                         /\ anuncios'[Pag(g)] = anuncios[Pag(g)]
            BY <2>3
        <3>2. handler[g].passo # "livre" => Pag(g) \in Pagamentos
            BY OcupadoServe
        <3> QED BY <2>1, <2>3, <3>1, <3>2 DEF CartoesComuns, SabeDoHandler, Rejeitando
    <2> QED BY <2>2, <2>3
<1>6. AnunciaSozinho'
    BY DEF AnunciaSozinho, SabeDoHandler, SabeDoPagamento, Pag
<1> QED BY <1>2, <1>3, <1>4, <1>5, <1>6

-----------------------------------------------------------------------------
\* A step of Stripe moves one session and emits events about it.
LEMMA StripePasso ==
    ASSUME IInv, NEW p \in Pagamentos, PassoDaStripe(p)
    PROVE  IInv'
<1> USE DEF PassoDaStripe, PagarCartao, EscanearPix, ConfirmarPix, PerderPix, FalharTentativa,
            ExpirarSessao, Sessao, PagamentoMudo
<1>1. PICK tipos \in SUBSET Tipos : emitidos' = emitidos \cup (tipos \X {p})
    <2>1. /\ {"session.completed", "charge.succeeded"} \in SUBSET Tipos
          /\ {"session.completed", "intent.processing"} \in SUBSET Tipos
          /\ {"charge.succeeded"} \in SUBSET Tipos /\ {"session.expired"} \in SUBSET Tipos
          /\ {"charge.failed", "intent.payment_failed"} \in SUBSET Tipos
        BY DEF Tipos
    <2> QED BY <2>1, Zenon
<1>2. TypeOK'
    <2>1. emitidos' \subseteq Eventos
        BY <1>1 DEF IInv, TypeOK, Eventos
    <2>2. sessao' \in [Pagamentos -> {"aberta", "confirmando", "paga", "perdida", "expirada"}]
        BY DEF IInv, TypeOK
    <2> QED BY <2>1, <2>2 DEF IInv, TypeOK, Arq!EstadosDoArquivo, Eventos
<1>3. /\ sessao'[p] # sessao[p] => sessao[p] \in {"aberta", "confirmando"}
      /\ p \in cartoes => sessao[p] = "aberta" /\ sessao'[p] \in {"aberta", "paga", "expirada"}
      /\ sessao[p] # "paga" /\ sessao[p] # "expirada"
      /\ \A q \in Pagamentos : q # p => sessao'[q] = sessao[q]
    BY DEF IInv, TypeOK, SabeDoPagamento
<1>4. \A h \in Handlers : SabeDoHandler(h)'
    <2> TAKE h \in Handlers
    <2>1. SabeDoHandler(h) /\ Pag(h)' = Pag(h)
        BY DEF IInv, Pag
    <2>2. handler[h].passo # "livre" => Pag(h) \in Pagamentos
        BY OcupadoServe
    <2> QED BY <1>1, <1>3, <2>1, <2>2 DEF CartoesComuns, SabeDoHandler, Rejeitando
<1>5. AnunciaSozinho'
    BY DEF IInv, AnunciaSozinho, Em, Pag
<1>6. ASSUME NEW q \in Pagamentos, q # p PROVE SabeDoPagamento(q)'
    <2>1. \A t \in STRING : <<t, q>> \in emitidos' => <<t, q>> \in emitidos
        BY <1>1, <1>6
    <2> QED BY <1>3, <1>6, <2>1 DEF CartoesComuns, IInv, SabeDoPagamento
<1>7. SabeDoPagamento(p)'
    BY <1>3 DEF CartoesComuns, IInv, TypeOK, SabeDoPagamento
<1> QED BY <1>2, <1>4, <1>5, <1>6, <1>7 DEF IInv

\* Every step keeps the invariant.
LEMMA IInvPasso == IInv /\ [Next]_vars => IInv'
<1> SUFFICES ASSUME IInv, [Next]_vars PROVE IInv'
    OBVIOUS
<1>t. TypeOK
    BY DEF IInv
<1>l. Livre \in TipoDoHandler /\ Livre.passo = "livre"
    BY DEF Livre, TipoDoHandler, Passos
<1>q. Arq!EstadosDoArquivo' = Arq!EstadosDoArquivo
    BY DEF Arq!EstadosDoArquivo, Eventos
<1>s. \A e \in Eventos : e = <<e[1], e[2]>> /\ e[1] \in Tipos /\ e[2] \in Pagamentos
    BY DEF Eventos
<1>1. ASSUME NEW e \in Eventos, VencerCerca(e) PROVE IInv'
    <2>1. arquivo' \in Arq!EstadosDoArquivo
        BY <1>t, <1>1 DEF TypeOK, VencerCerca, Arq!VencerCerca, Arq!EstadosDoArquivo
    <2> QED BY <1>1, <1>q, <2>1 DEF CartoesComuns, IInv, TypeOK, VencerCerca, PagamentoMudo,
               SabeDoHandler, AnunciaSozinho,
               SabeDoPagamento, Pag, Em, Eventos
<1>2. ASSUME NEW h \in Handlers, Cair(h) \/ Responder(h) PROVE IInv'
    <2>1. /\ handler' \in [Handlers -> TipoDoHandler]
          /\ \A g \in Handlers : g # h => handler'[g] = handler[g]
          /\ handler'[h].passo = "livre"
        <3>1. handler' = [handler EXCEPT ![h] = Livre]
            BY <1>2 DEF Cair, Responder
        <3> QED BY <1>t, <1>l, <3>1 DEF TypeOK, TipoDoHandler
    <2>2. SabeDoHandler(h)'
        BY <2>1 DEF SabeDoHandler, Rejeitando
    <2>3. arquivo' \in Arq!EstadosDoArquivo
        <3>0. arquivo \in Arq!EstadosDoArquivo
            BY <1>t DEF TypeOK
        <3>1. CASE Cair(h)
            BY <3>0, <3>1 DEF Cair
        <3>2. CASE Arq!Concluir(handler[h].evento, h)
            BY <3>0, <3>2 DEF Arq!Concluir, Arq!EstadosDoArquivo
        <3>3. CASE Arq!Recusar(handler[h].evento, h)
            BY <3>0, <3>3 DEF Arq!Recusar, Arq!EstadosDoArquivo
        <3> QED BY <1>2, <3>1, <3>2, <3>3 DEF Responder
    <2>4. falhas' \in 0..MaxFalhas
        BY <1>t, <1>2, SuposicaoStripe DEF Cair, Responder, TypeOK
    <2> QED BY <1>2, <2>1, <2>2, <2>3, <2>4, SoOHandlerAnda DEF Cair, Responder, PagamentoMudo
<1>3. ASSUME NEW h \in Handlers, Falhar(h) PROVE IInv'
    <2>1. Andou(h) /\ handler'[h].passo = "encerrando" /\ handler[h].passo # "livre"
        BY <1>t, <1>3, SairAnda DEF Falhar
    <2>2. falhas' \in 0..MaxFalhas
        BY <1>t, <1>3, SuposicaoStripe DEF Falhar, TypeOK
    <2> QED BY <1>t, <1>q, <1>3, <2>1, <2>2, HandlerAnda DEF Falhar, PagamentoMudo, TypeOK
<1>4. ASSUME NEW h \in Handlers, NEW e \in Eventos, Receber(h, e) PROVE IInv'
    <2>1. /\ handler' \in [Handlers -> TipoDoHandler]
          /\ \A g \in Handlers : g # h => handler'[g] = handler[g]
          /\ handler'[h].passo = "despachando" /\ handler'[h].evento = e
        BY <1>t, <1>4 DEF TypeOK, TipoDoHandler, Receber, Passos
    <2>2. SabeDoHandler(h)'
        BY <1>4, <2>1 DEF SabeDoHandler, Rejeitando, Receber
    <2>3. arquivo' \in Arq!EstadosDoArquivo
        BY <1>t, <1>4 DEF TypeOK, Receber, Arq!Reclamar, Arq!EstadosDoArquivo
    <2> QED BY <1>t, <1>4, <2>1, <2>2, <2>3, SoOHandlerAnda DEF Receber, TypeOK, PagamentoMudo
<1>5. ASSUME NEW h \in Handlers, Despachar(h) PROVE IInv'
    <2>0. handler[h].evento \in Eventos /\ Pag(h) \in Pagamentos /\ handler[h].passo = "despachando"
          /\ handler[h].evento \in emitidos /\ handler[h].evento = <<Tipo(h), Pag(h)>>
        <3>1. handler[h].passo = "despachando"
            BY <1>5 DEF Despachar, DespacharCompletada, DespacharExpirada, DespacharIntencao,
               DespacharRecusa,
               DespacharCobranca, Em
        <3> QED BY <3>1, <1>s, OcupadoServe DEF IInv, SabeDoHandler, Tipo, Pag
    <2>1. SabeDoPagamento(Pag(h))
        BY <2>0 DEF IInv
    <2>2. CASE DespacharCompletada(h)
        <3>1. Andou(h) /\ handler'[h].passo = IF Pag(h) \in cartoes THEN "finalizando"
                                                                    ELSE "processando"
            BY <1>t, <2>2, IrAnda DEF DespacharCompletada, Passos
        <3> QED BY <2>0, <2>2, <3>1, HandlerEscreve
                DEF DespacharCompletada, SoHandler, PagamentoMudo, Em
    <2>3. CASE DespacharExpirada(h)
        <3>1. Andou(h) /\ handler'[h].passo = "recusando"
            BY <1>t, <2>3, IrAnda DEF DespacharExpirada, Passos
        <3>2. sessao[Pag(h)] = "expirada"
            BY <2>0, <2>1, <2>3 DEF DespacharExpirada, SabeDoPagamento
        <3> QED BY <1>t, <1>q, <2>0, <2>3, <3>1, <3>2, HandlerAnda
                DEF DespacharExpirada, SoAnda, SoHandler, PagamentoMudo, TypeOK
    <2>4. CASE DespacharIntencao(h) \/ DespacharRecusa(h) \/ DespacharCobranca(h)
        <3>1. \/ Sair(h, "ok")
              \/ Pag(h) \in vinculado /\ \/ Ir(h, "recusando") \/ Ir(h, "finalizando")
              \/ Pag(h) \in comMetadados /\ Ir(h, "recusando")
              \/ Tipo(h) = "intent.processing" /\ Pag(h) \in vinculado /\ Ir(h, "processando")
            BY <2>4 DEF DespacharIntencao, DespacharRecusa, DespacharCobranca, SeVinculado
        <3>2. Tipo(h) = "intent.processing" => Pag(h) \notin cartoes
            BY <2>0, <2>1 DEF SabeDoPagamento
        <3>3. Andou(h) /\ \/ handler'[h].passo = "encerrando"
                          \/ /\ Pag(h) \in cartoes => sessao[Pag(h)] = "paga"
                             /\ handler'[h].passo \in {"recusando", "finalizando"}
                          \/ Pag(h) \notin CartoesComuns /\ handler'[h].passo = "recusando"
                          \/ handler'[h].passo = "processando" /\ Pag(h) \notin cartoes
            BY <1>t, <2>1, <3>1, <3>2, IrAnda, SairAnda DEF CartoesComuns, Passos, SabeDoPagamento
        <3> QED BY <1>t, <1>q, <2>0, <2>4, <3>3, HandlerAnda
                DEF CartoesComuns, DespacharIntencao, DespacharRecusa, DespacharCobranca, SoAnda,
                SoHandler, PagamentoMudo, TypeOK
    <2> QED BY <1>5, <2>2, <2>3, <2>4 DEF Despachar
<1>6. ASSUME NEW h \in Handlers, Processar(h) \/ Aprovar(h) \/ Anunciar(h) \/ Registrar(h)
                                 \/ GravarRejeitado(h)
      PROVE  IInv'
    <2>0. handler[h].passo # "livre" /\ Pag(h) \in Pagamentos /\ SabeDoHandler(h)
        <3>1. handler[h].passo # "livre"
            BY <1>6 DEF Processar, Aprovar, Anunciar, Registrar, GravarRejeitado, Em
        <3> QED BY <3>1, OcupadoServe DEF IInv
    <2>1. CASE Processar(h)
        <3>1. Andou(h) /\ handler'[h].passo = "encerrando"
            BY <1>t, <2>1, SairAnda DEF Processar
        <3>2. CASE status[Pag(h)] = "pendente"
            BY <2>0, <2>1, <3>1, <3>2, HandlerEscreve DEF Processar, SoHandler
        <3>3. CASE status[Pag(h)] # "pendente"
            BY <1>t, <1>q, <2>0, <2>1, <3>1, <3>3, HandlerAnda DEF Processar, SoHandler, TypeOK
        <3> QED BY <3>2, <3>3
    <2>2. CASE Aprovar(h)
        <3>1. CASE status[Pag(h)] \notin Terminal
            <4>1. Andou(h) /\ handler'[h].passo = "anunciando"
                BY <1>t, <2>2, <3>1, IrAnda DEF Aprovar, Passos, Terminal
            <4>2. status[Pag(h)] \in {"pendente", "processing"}
                BY <1>t, <2>0, <3>1 DEF TypeOK, Terminal
            <4> QED BY <2>0, <2>2, <3>1, <4>1, <4>2, HandlerEscreve DEF Aprovar, SoHandler, Terminal
        <3>2. CASE status[Pag(h)] \in Terminal
            <4>1. Andou(h) /\ \/ handler'[h].passo = "encerrando"
                              \/ handler'[h].passo = "lendo" /\ status[Pag(h)] = "aprovado"
                BY <1>t, <2>2, <3>2, IrAnda, SairAnda DEF Aprovar, Passos, Terminal
            <4>2. sessao[Pag(h)] = "paga"
                BY <2>0, <2>2 DEF SabeDoHandler, Aprovar, Em
            <4> QED BY <1>t, <1>q, <2>0, <2>2, <3>2, <4>1, <4>2, HandlerAnda
                    DEF Aprovar, SoHandler, TypeOK
        <3> QED BY <3>1, <3>2
    <2>3. CASE Anunciar(h)
        <3>1. Andou(h) /\ handler'[h].passo = "lendo"
            BY <1>t, <2>3, IrAnda DEF Anunciar, Passos
        <3> QED BY <2>0, <2>3, <3>1, HandlerEscreve DEF Anunciar, SoHandler
    <2>4. CASE Registrar(h)
        <3>1. Andou(h) /\ handler'[h].passo = "encerrando"
            BY <1>t, <2>4, SairAnda DEF Registrar
        <3>2. CASE registros[Pag(h)] = 0
            BY <1>t, <2>0, <2>4, <3>1, <3>2, HandlerEscreve DEF Registrar, SoHandler, TypeOK
        <3>3. CASE registros[Pag(h)] # 0
            BY <1>t, <1>q, <2>0, <2>4, <3>1, <3>3, HandlerAnda DEF Registrar, SoHandler, TypeOK
        <3> QED BY <3>2, <3>3
    <2>5. CASE GravarRejeitado(h)
        <3>1. Andou(h) /\ handler'[h].passo = "encerrando"
            BY <1>t, <2>5, SairAnda DEF GravarRejeitado
        <3> QED BY <2>0, <2>5, <3>1, HandlerEscreve DEF GravarRejeitado, SoHandler
    <2> QED BY <1>6, <2>1, <2>2, <2>3, <2>4, <2>5
<1>7. ASSUME NEW h \in Handlers,
             Finalizar(h) \/ PodeAprovar(h) \/ Cobrar(h) \/ LerLivro(h)
                \/ Recusar(h) \/ PodeRejeitar(h) \/ Conferir(h)
      PROVE  IInv'
    <2> USE DEF Finalizar, PodeAprovar, Cobrar, LerLivro, Recusar, PodeRejeitar, Conferir
    <2>0. handler[h].passo # "livre" /\ SabeDoHandler(h) /\ SoAnda
        BY <1>7 DEF IInv, Em
    <2>1. Pag(h) \in Pagamentos
        BY <2>0, OcupadoServe
    <2>2. /\ Pag(h) \in cartoes => sessao[Pag(h)] \in {"aberta", "paga", "expirada"}
          /\ status[Pag(h)] = "aprovado" => sessao[Pag(h)] = "paga"
        BY <2>1 DEF IInv, SabeDoPagamento
    <2>3. Andou(h)
          /\ \/ handler'[h].passo \in {"encerrando", "aprovando", "cobrando"}
             \/ /\ handler[h].passo \in Rejeitando
                /\ handler'[h].passo \in {"rejeitando", "conferindo"}
             \/ /\ handler[h].passo \in Rejeitando /\ sessao[Pag(h)] # "paga"
                /\ handler'[h].passo = "gravandoRejeitado"
             \/ handler'[h].passo = "gravandoAprovado" /\ sessao[Pag(h)] = "paga"
             \/ handler'[h].passo = "lendo" /\ status[Pag(h)] = "aprovado"
             \/ handler[h].passo = "lendo" /\ handler'[h].passo = "registrando"
        BY <1>t, <1>7, IrAnda, SairAnda DEF Passos, Em, Rejeitando
    <2> QED BY <1>t, <1>q, <2>0, <2>1, <2>2, <2>3, HandlerAnda
            DEF SoAnda, SoHandler, PagamentoMudo, TypeOK, SabeDoHandler
<1>8. CASE UNCHANGED vars
    BY <1>8, <1>q DEF CartoesComuns, IInv, TypeOK, SabeDoHandler, AnunciaSozinho, SabeDoPagamento,
       Pag, Em,
       Eventos, vars
<1> QED BY <1>1, <1>2, <1>3, <1>4, <1>5, <1>6, <1>7, <1>8, StripePasso
        DEF Next, PassoDoHandler, PassoDaAprovacao, PassoDaRejeicao

\* The invariant holds of every behaviour.
THEOREM InvarianteCorreto == Spec => []IInv
<1>1. Init => IInv
    BY IInvInicial
<1>2. IInv /\ [Next]_vars => IInv'
    BY IInvPasso
<1> QED BY <1>1, <1>2, PTL DEF Spec

\* Sessions, events, archive and handlers keep their types, and no approval is
\* announced twice nor registered twice, in whatever order events arrive.
THEOREM TipoCorreto == Spec => []TypeOK
<1>1. IInv => TypeOK
    BY DEF IInv
<1> QED BY <1>1, InvarianteCorreto, PTL

\* Approval, announcement and ledger rows only of a paid session.
THEOREM SoOPago == Spec => []SoOPagoProduzEfeitos
<1>1. IInv => SoOPagoProduzEfeitos
    BY DEF IInv, SabeDoPagamento, SoOPagoProduzEfeitos
<1> QED BY <1>1, InvarianteCorreto, PTL

\* Deliveries of whatever event in whatever order keep card payments on the machine
\* of pagamento.ts.
THEOREM StripeImplementaMaquina == Spec => CartoesImplementamMaquina
<1>1. Init => Maquina!Init
    BY DEF Init, Maquina!Init, DosCartoes
<1>2. IInv /\ [Next]_vars => [Maquina!Next]_Maquina!maquinaVars
    <2> SUFFICES ASSUME IInv, [Next]_vars
                 PROVE  Maquina!Next \/ UNCHANGED Maquina!maquinaVars
        OBVIOUS
    <2>0. CartoesComuns' = CartoesComuns
        BY DEF CartoesComuns, Next, vars, PassoDaStripe, PagarCartao, EscanearPix, ConfirmarPix,
           PerderPix,
           FalharTentativa, ExpirarSessao, Sessao, VencerCerca, Cair, Falhar, Receber,
           PassoDoHandler, Despachar, DespacharCompletada, DespacharExpirada, DespacharIntencao,
           DespacharRecusa,
           DespacharCobranca, SoAnda, SoHandler, Processar, PassoDaAprovacao, PassoDaRejeicao,
           Finalizar, PodeAprovar, Cobrar, Aprovar, Anunciar, LerLivro, Registrar, Recusar,
           PodeRejeitar, Conferir, GravarRejeitado, Responder
    <2>1. ASSUME PagamentoMudo PROVE UNCHANGED Maquina!maquinaVars
        BY <2>0, <2>1 DEF PagamentoMudo, Maquina!maquinaVars, DosCartoes
    <2>2. ASSUME NEW h \in Handlers, Processar(h) \/ Aprovar(h) \/ Anunciar(h) \/ Registrar(h)
                                     \/ GravarRejeitado(h)
          PROVE  Maquina!Next \/ UNCHANGED Maquina!maquinaVars
        <3>1. handler[h].passo # "livre"
            BY <2>2 DEF Processar, Aprovar, Anunciar, Registrar, GravarRejeitado, Em
        <3>2. Pag(h) \in Pagamentos /\ SabeDoHandler(h) /\ SabeDoPagamento(Pag(h))
            BY <3>1, OcupadoServe DEF IInv
        <3>3. CASE Pag(h) \notin CartoesComuns
            <4>1. /\ status' = [status EXCEPT ![Pag(h)] = status'[Pag(h)]]
                  /\ anuncios' = [anuncios EXCEPT ![Pag(h)] = anuncios'[Pag(h)]]
                  /\ registros' = [registros EXCEPT ![Pag(h)] = registros'[Pag(h)]]
                BY <2>2, <3>2 DEF IInv, TypeOK, Processar, Aprovar, Anunciar, Registrar,
                   GravarRejeitado
            <4> QED BY <2>0, <3>2, <3>3, <4>1 DEF IInv, TypeOK, Maquina!maquinaVars, DosCartoes
        <3>4. CASE Pag(h) \in CartoesComuns
            <4> DEFINE st == DosCartoes(status, "pendente")
                       an == DosCartoes(anuncios, 0)
                       re == DosCartoes(registros, 0)
                       p == Pag(h)
            <4>a. /\ st[p] = status[p] /\ an[p] = anuncios[p] /\ re[p] = registros[p]
                  /\ UNCHANGED status => UNCHANGED st
                  /\ UNCHANGED anuncios => UNCHANGED an
                  /\ UNCHANGED registros => UNCHANGED re
                BY <2>0, <3>2, <3>4 DEF DosCartoes
            <4>b. ASSUME NEW x, status' = [status EXCEPT ![p] = x]
                  PROVE  st' = [st EXCEPT ![p] = x]
                BY <2>0, <3>2, <3>4, <4>b DEF DosCartoes, IInv, TypeOK
            <4>c. ASSUME NEW x, anuncios' = [anuncios EXCEPT ![p] = x]
                  PROVE  an' = [an EXCEPT ![p] = x]
                BY <2>0, <3>2, <3>4, <4>c DEF DosCartoes, IInv, TypeOK
            <4>d. ASSUME NEW x, registros' = [registros EXCEPT ![p] = x]
                  PROVE  re' = [re EXCEPT ![p] = x]
                BY <2>0, <3>2, <3>4, <4>d DEF DosCartoes, IInv, TypeOK
            <4>e. /\ status[p] \in {"pendente", "processing", "aprovado", "rejeitado"}
                  /\ registros[p] \in {0, 1}
                BY <3>2 DEF IInv, TypeOK
            <4> HIDE DEF st, an, re
            <4>1. CASE Processar(h)
                BY <3>2, <3>4, <4>1 DEF CartoesComuns, Processar, SabeDoHandler, Em
            <4>2. CASE Aprovar(h)
                <5>1. CASE status[p] \notin Terminal
                    <6>1. /\ st[p] \in {"pendente", "processing"}
                          /\ st' = [st EXCEPT ![p] = "aprovado"] /\ UNCHANGED <<an, re>>
                        BY <4>2, <4>a, <4>b, <4>e, <5>1 DEF Aprovar, Terminal
                    <6>2. Maquina!Aprovar(p)
                        BY <6>1 DEF Maquina!Aprovar, Maquina!Mudar, st, an, re
                    <6> QED BY <3>2, <6>2 DEF Maquina!Next
                <5>2. CASE status[p] \in Terminal
                    <6>1. UNCHANGED <<st, an, re>>
                        BY <4>2, <4>a, <5>2 DEF Aprovar, Terminal
                    <6> QED BY <6>1 DEF Maquina!maquinaVars, st, an, re
                <5> QED BY <5>1, <5>2
            <4>3. CASE Anunciar(h)
                <5>0. /\ status[p] = "aprovado" /\ anuncios[p] = 0
                      /\ anuncios' = [anuncios EXCEPT ![p] = 1]
                    <6>1. handler[h].passo = "anunciando"
                          /\ anuncios' = [anuncios EXCEPT ![p] = anuncios[p] + 1]
                        BY <4>3 DEF Anunciar, Em
                    <6>2. status[p] = "aprovado" /\ anuncios[p] = 0
                        BY <3>2, <3>4, <6>1 DEF SabeDoHandler
                    <6>3. anuncios[p] + 1 = 1
                        BY <6>2
                    <6> QED BY <6>1, <6>2, <6>3
                <5>1. /\ st[p] = "aprovado" /\ an[p] = 0
                      /\ an' = [an EXCEPT ![p] = 1] /\ UNCHANGED <<st, re>>
                    BY <4>3, <4>a, <4>c, <5>0 DEF Anunciar
                <5>2. Maquina!Anunciar(p)
                    BY <5>1 DEF Maquina!Anunciar, st, an, re
                <5> QED BY <3>2, <5>2 DEF Maquina!Next
            <4>4. CASE Registrar(h)
                <5>1. CASE registros[p] = 0
                    <6>1. /\ st[p] = "aprovado" /\ re[p] = 0
                          /\ re' = [re EXCEPT ![p] = 1] /\ UNCHANGED <<st, an>>
                        BY <3>2, <3>4, <4>4, <4>a, <4>d, <5>1 DEF Registrar, SabeDoHandler, Em
                    <6>2. Maquina!Registrar(p)
                        BY <6>1 DEF Maquina!Registrar, st, an, re
                    <6> QED BY <3>2, <6>2 DEF Maquina!Next
                <5>2. CASE registros[p] # 0
                    <6>1. UNCHANGED <<st, an, re>>
                        BY <4>4, <4>a, <5>2 DEF Registrar
                    <6> QED BY <6>1 DEF Maquina!maquinaVars, st, an, re
                <5> QED BY <5>1, <5>2
            <4>5. CASE GravarRejeitado(h)
                <5>1. status[p] \in {"pendente", "processing", "rejeitado"}
                    BY <3>2, <3>4, <4>5, <4>e DEF GravarRejeitado, SabeDoHandler, SabeDoPagamento,
                       Em
                <5>2. CASE status[p] = "rejeitado"
                    <6>1. UNCHANGED <<st, an, re>>
                        <7>1. status' = status
                            BY <3>2, <4>5, <5>2 DEF GravarRejeitado, IInv, TypeOK
                        <7> QED BY <4>5, <4>a, <7>1 DEF GravarRejeitado
                    <6> QED BY <6>1 DEF Maquina!maquinaVars, st, an, re
                <5>3. CASE status[p] # "rejeitado"
                    <6>1. /\ st[p] \in {"pendente", "processing"}
                          /\ st' = [st EXCEPT ![p] = "rejeitado"] /\ UNCHANGED <<an, re>>
                        BY <4>5, <4>a, <4>b, <5>1, <5>3 DEF GravarRejeitado
                    <6>2. Maquina!Rejeitar(p)
                        BY <6>1 DEF Maquina!Rejeitar, Maquina!Mudar, st, an, re
                    <6> QED BY <3>2, <6>2 DEF Maquina!Next
                <5> QED BY <5>2, <5>3
            <4> QED BY <2>2, <4>1, <4>2, <4>3, <4>4, <4>5
        <3> QED BY <3>3, <3>4
    <2>3. \/ PagamentoMudo
          \/ \E h \in Handlers : \/ Processar(h) \/ Aprovar(h) \/ Anunciar(h) \/ Registrar(h)
                                 \/ GravarRejeitado(h)
        BY DEF Next, vars, PassoDaStripe, PagarCartao, EscanearPix, ConfirmarPix, PerderPix,
           FalharTentativa, ExpirarSessao, Sessao, VencerCerca, Cair, Falhar, Receber,
           PassoDoHandler, Despachar, DespacharCompletada, DespacharExpirada, DespacharIntencao,
           DespacharRecusa,
           DespacharCobranca, SoAnda, PassoDaAprovacao, PassoDaRejeicao,
           Finalizar, PodeAprovar, Cobrar, LerLivro, Recusar, PodeRejeitar, Conferir,
           Responder, PagamentoMudo
    <2> QED BY <2>1, <2>2, <2>3
<1> QED BY <1>1, <1>2, InvarianteCorreto, PTL DEF Spec, CartoesImplementamMaquina, Maquina!Spec

-----------------------------------------------------------------------------
(* What rejects a payment *)

\* The rejection path serves an event of a refusal.
SabeDaRecusa(h) ==
    handler[h].passo \in Rejeitando =>
        Tipo(h) \in {"session.expired", "intent.payment_failed", "charge.failed"}

\* What the events and the rejection say of each other.
RecusaTemEvento(p) ==
    /\ <<"charge.failed", p>> \in emitidos => <<"intent.payment_failed", p>> \in emitidos
    /\ status[p] = "rejeitado" =>
          sessao[p] = "expirada" \/ <<"intent.payment_failed", p>> \in emitidos

Causa ==
    /\ \A h \in Handlers : SabeDaRecusa(h)
    /\ \A p \in Pagamentos : RecusaTemEvento(p)

\* No step of a handler changes sessions or events; those that leave its payment
\* unrejected need only look at the handler.
LEMMA CausaAnda ==
    ASSUME IInv, Causa, NEW h \in Handlers,
           \A g \in Handlers : g # h => handler'[g] = handler[g],
           UNCHANGED <<sessao, emitidos>>, SabeDaRecusa(h)',
           \A p \in Pagamentos :
              status'[p] = "rejeitado" => status[p] = "rejeitado"
                  \/ sessao[p] = "expirada" \/ <<"intent.payment_failed", p>> \in emitidos
    PROVE  Causa'
<1>1. ASSUME NEW g \in Handlers, g # h PROVE SabeDaRecusa(g)'
    BY <1>1 DEF Causa, SabeDaRecusa, Tipo
<1>2. \A p \in Pagamentos : RecusaTemEvento(p)'
    BY DEF Causa, RecusaTemEvento
<1> QED BY <1>1, <1>2 DEF Causa

\* The steps of a handler between the claim of its event and its outcome.
LEMMA CausaPassoDoHandler ==
    ASSUME IInv, Causa, NEW h \in Handlers,
           Falhar(h) \/ Despachar(h) \/ Processar(h) \/ PassoDaAprovacao(h) \/ PassoDaRejeicao(h)
    PROVE  Causa'
<1> USE DEF Em
<1>t. TypeOK /\ Pag(h) \in Pagamentos /\ Tipo(h) \in Tipos
    BY OcupadoServe DEF IInv, Falhar, Despachar, DespacharCompletada, DespacharExpirada,
       DespacharIntencao, DespacharRecusa,
       DespacharCobranca, Processar, PassoDaAprovacao, PassoDaRejeicao,
       Finalizar, PodeAprovar, Cobrar, Aprovar, Anunciar, LerLivro, Registrar, Recusar,
       PodeRejeitar, Conferir, GravarRejeitado
<1>1. UNCHANGED <<cartoes, comMetadados, sessao, emitidos, arquivo>>
    BY DEF Falhar, Despachar, DespacharCompletada, DespacharExpirada, DespacharIntencao,
       DespacharRecusa,
       DespacharCobranca, SoAnda, SoHandler, Processar, PassoDaAprovacao, PassoDaRejeicao,
       Finalizar, PodeAprovar, Cobrar, Aprovar, Anunciar, LerLivro, Registrar, Recusar,
       PodeRejeitar, Conferir, GravarRejeitado
<1>2. \/ \E x \in Passos \ Rejeitando : Ir(h, x)
      \/ Sair(h, "erro") \/ Sair(h, "ok")
      \/ /\ \E x \in Rejeitando : Ir(h, x)
         /\ Tipo(h) \in {"session.expired", "intent.payment_failed", "charge.failed"}
    <2>1. CASE Falhar(h) \/ Processar(h)
        BY <2>1 DEF Falhar, Processar
    <2>2. CASE Despachar(h)
        <3>1. CASE DespacharCompletada(h)
            BY <3>1 DEF DespacharCompletada, Passos, Rejeitando
        <3>2. CASE DespacharExpirada(h)
            BY <3>2 DEF DespacharExpirada, Rejeitando
        <3>3. CASE DespacharIntencao(h) \/ DespacharRecusa(h) \/ DespacharCobranca(h)
            BY <3>3 DEF DespacharIntencao, DespacharRecusa, DespacharCobranca, SeVinculado,
               Passos, Rejeitando
        <3> QED BY <2>2, <3>1, <3>2, <3>3 DEF Despachar
    <2>3. CASE PassoDaAprovacao(h)
        BY <2>3 DEF PassoDaAprovacao, Finalizar, PodeAprovar, Cobrar, Aprovar, Anunciar, LerLivro,
           Registrar, SoAnda, Passos, Rejeitando
    <2>4. CASE PassoDaRejeicao(h)
        <3>1. Tipo(h) \in {"session.expired", "intent.payment_failed", "charge.failed"}
            BY <2>4 DEF PassoDaRejeicao, Recusar, PodeRejeitar, Conferir, GravarRejeitado, Causa,
               SabeDaRecusa, Rejeitando
        <3> QED BY <2>4, <3>1 DEF PassoDaRejeicao, Recusar, PodeRejeitar, Conferir, GravarRejeitado,
                   Rejeitando
    <2> QED BY <2>1, <2>2, <2>3, <2>4
<1>3. Andou(h) /\ SabeDaRecusa(h)'
    <2>1. Rejeitando \subseteq Passos /\ "encerrando" \notin Rejeitando
        BY DEF Rejeitando, Passos
    <2>2. CASE \E x \in Passos \ Rejeitando : Ir(h, x)
        BY <1>t, <2>2, IrAnda DEF SabeDaRecusa
    <2>3. CASE Sair(h, "erro") \/ Sair(h, "ok")
        BY <1>t, <2>1, <2>3, SairAnda DEF SabeDaRecusa
    <2>4. CASE /\ \E x \in Rejeitando : Ir(h, x)
               /\ Tipo(h) \in {"session.expired", "intent.payment_failed", "charge.failed"}
        <3>1. Andou(h)
            BY <1>t, <2>1, <2>4, IrAnda
        <3>2. Tipo(h)' = Tipo(h)
            BY <3>1 DEF Andou, Tipo
        <3> QED BY <2>4, <3>1, <3>2 DEF SabeDaRecusa
    <2> QED BY <1>2, <2>2, <2>3, <2>4
<1>4. ASSUME NEW p \in Pagamentos, status'[p] = "rejeitado", status[p] # "rejeitado"
      PROVE  sessao[p] = "expirada" \/ <<"intent.payment_failed", p>> \in emitidos
    <2>1. GravarRejeitado(h) /\ Pag(h) = p
        BY <1>t, <1>4 DEF TypeOK, Falhar, Despachar, DespacharCompletada, DespacharExpirada,
           DespacharIntencao, DespacharRecusa, DespacharCobranca, SoAnda, PagamentoMudo,
           Processar, PassoDaAprovacao,
           PassoDaRejeicao, Finalizar, PodeAprovar, Cobrar, Aprovar, Anunciar, LerLivro, Registrar,
           Recusar, PodeRejeitar, Conferir, GravarRejeitado
    <2>2. /\ Tipo(h) \in {"session.expired", "intent.payment_failed", "charge.failed"}
          /\ <<Tipo(h), p>> \in emitidos
        <3>1. handler[h].evento \in Eventos /\ handler[h].evento \in emitidos
            BY <2>1, OcupadoServe DEF IInv, SabeDoHandler, GravarRejeitado
        <3>2. handler[h].evento = <<Tipo(h), p>>
            BY <2>1, <3>1 DEF Eventos, Tipo, Pag
        <3> QED BY <2>1, <3>1, <3>2 DEF Causa, SabeDaRecusa, GravarRejeitado, Rejeitando
    <2> QED BY <2>2 DEF IInv, SabeDoPagamento, Causa, RecusaTemEvento
<1> QED BY <1>1, <1>3, <1>4, CausaAnda DEF Andou

\* Every rejection has its cause.
LEMMA CausaPasso == IInv /\ Causa /\ [Next]_vars => Causa'
<1> SUFFICES ASSUME IInv, Causa, [Next]_vars PROVE Causa'
    OBVIOUS
<1>t. TypeOK
    BY DEF IInv
<1>1. ASSUME NEW p \in Pagamentos, PassoDaStripe(p) PROVE Causa'
    <2>1. /\ UNCHANGED <<handler, status>>
          /\ emitidos \subseteq emitidos'
          /\ \A q \in Pagamentos : sessao[q] = "expirada" => sessao'[q] = "expirada"
          /\ \A q \in Pagamentos : <<"charge.failed", q>> \in emitidos' =>
                <<"charge.failed", q>> \in emitidos \/ <<"intent.payment_failed", q>> \in emitidos'
        BY <1>1, <1>t DEF PassoDaStripe, PagarCartao, EscanearPix, ConfirmarPix, PerderPix,
           FalharTentativa, ExpirarSessao, Sessao, PagamentoMudo, TypeOK
    <2>2. \A h \in Handlers : SabeDaRecusa(h)'
        BY <2>1 DEF Causa, SabeDaRecusa, Tipo
    <2>3. \A q \in Pagamentos : RecusaTemEvento(q)'
        BY <2>1 DEF Causa, RecusaTemEvento
    <2> QED BY <2>2, <2>3 DEF Causa
<1>2. ASSUME NEW h \in Handlers, NEW e \in Eventos, Receber(h, e) PROVE Causa'
    <2>1. /\ handler'[h].passo = "despachando"
          /\ \A g \in Handlers : g # h => handler'[g] = handler[g]
        BY <1>t, <1>2 DEF Receber, TypeOK
    <2> QED BY <1>2, <2>1, CausaAnda DEF Receber, PagamentoMudo, SabeDaRecusa, Rejeitando
<1>3. ASSUME NEW h \in Handlers, Cair(h) \/ Responder(h) PROVE Causa'
    <2>1. /\ handler'[h].passo = "livre"
          /\ \A g \in Handlers : g # h => handler'[g] = handler[g]
        BY <1>t, <1>3 DEF Cair, Responder, TypeOK, Livre
    <2> QED BY <1>3, <2>1, CausaAnda DEF Cair, Responder, PagamentoMudo, SabeDaRecusa, Rejeitando
<1>4. CASE UNCHANGED vars \/ \E e \in Eventos : VencerCerca(e)
    BY <1>4 DEF vars, VencerCerca, PagamentoMudo, Causa, SabeDaRecusa, Tipo, RecusaTemEvento
<1> QED BY <1>1, <1>2, <1>3, <1>4, CausaPassoDoHandler DEF Next, PassoDoHandler

\* A rejected payment's session expired, or an attempt at it was refused.
RejeicaoTeveRecusa ==
    \A p \in Pagamentos : status[p] = "rejeitado" =>
        sessao[p] = "expirada" \/ <<"intent.payment_failed", p>> \in emitidos

\* Nothing is rejected that was not refused: a payment whose session did not expire is
\* rejected only after a declined attempt was reported, never by the order of its other
\* events (rejeitarPagamento is a plain update, and rejects whatever is not paid at that
\* moment).
THEOREM RejeitadoFoiRecusado == Spec => []RejeicaoTeveRecusa
<1>1. Init => Causa
    BY DEF Init, Livre, Causa, SabeDaRecusa, RecusaTemEvento, Rejeitando
<1>2. IInv /\ Causa /\ [Next]_vars => Causa'
    BY CausaPasso
<1>3. Causa => RejeicaoTeveRecusa
    BY DEF Causa, RecusaTemEvento, RejeicaoTeveRecusa
<1> QED BY <1>1, <1>2, <1>3, InvarianteCorreto, PTL DEF Spec

\* A rejected card payment is one whose session expired unpaid, unless its intent carried
\* its id in the metadata and a declined attempt was reported: the one exception is the
\* fallback of payment_intent.payment_failed.
THEOREM RejeicaoDeCartao == Spec => []CartaoPagoNaoERejeitado
<1>1. IInv /\ RejeicaoTeveRecusa => CartaoPagoNaoERejeitado
    BY DEF IInv, TypeOK, SabeDoPagamento, RejeicaoTeveRecusa, CartaoPagoNaoERejeitado,
       RejeitavelPelosMetadados, CartoesComuns
<1> QED BY <1>1, InvarianteCorreto, RejeitadoFoiRecusado, PTL

-----------------------------------------------------------------------------
(* No charged card is lost *)

Completada(p) == <<"session.completed", p>>

\* The handler serves the completed session of a card.
NaCompletada(h) ==
    handler[h].passo # "livre" /\ Tipo(h) = "session.completed" /\ Pag(h) \in cartoes

CaminhoDaCompletada == {"despachando", "finalizando", "aprovando", "cobrando",
                        "gravandoAprovado", "anunciando", "lendo", "registrando"}

\* It is on the way to the ledger, failed, or has found the rows or inserted them.
SabeDaCompletada(h) ==
    NaCompletada(h) => \/ handler[h].passo \in CaminhoDaCompletada
                       \/ handler[h].passo = "encerrando"
                          /\ (handler[h].saida = "ok" => registros[Pag(h)] = 1)

\* The event of a charged card exists, and is recorded as processed only once the
\* payment has its rows.
EventoNaoSePerde(p) ==
    /\ sessao[p] = "paga" => Completada(p) \in emitidos
    /\ arquivo[Completada(p)].processado => registros[p] = 1

Reconhecido ==
    /\ \A h \in Handlers : SabeDaCompletada(h)
    /\ \A p \in cartoes : EventoNaoSePerde(p)

\* A step of a handler on the same event, or one that ends it.
LEMMA ReconhecidoAnda ==
    ASSUME IInv, Reconhecido, NEW h \in Handlers,
           \A g \in Handlers : g # h => handler'[g] = handler[g],
           \A p \in Pagamentos : registros[p] = 1 => registros'[p] = 1,
           UNCHANGED <<cartoes, comMetadados, sessao, emitidos>>, SabeDaCompletada(h)',
           \A p \in cartoes :
              arquivo'[Completada(p)].processado =>
                 arquivo[Completada(p)].processado \/ registros[p] = 1
    PROVE  Reconhecido'
<1>1. cartoes \subseteq Pagamentos
    BY DEF IInv, TypeOK
<1>2. ASSUME NEW g \in Handlers, g # h PROVE SabeDaCompletada(g)'
    BY <1>1, <1>2 DEF Reconhecido, SabeDaCompletada, NaCompletada, Tipo, Pag
<1>3. \A p \in cartoes : EventoNaoSePerde(p)'
    BY <1>1 DEF Reconhecido, EventoNaoSePerde, Completada
<1> QED BY <1>2, <1>3 DEF Reconhecido

LEMMA SairDiz ==
    ASSUME TypeOK, NEW h \in Handlers, NEW s \in {"nenhuma", "ok", "erro"}, Sair(h, s)
    PROVE  handler'[h].saida = s
<1> DEFINE r == [handler[h] EXCEPT !.passo = "encerrando"]
           q == [r EXCEPT !.saida = s]
<1>1. handler \in [Handlers -> TipoDoHandler]
    BY DEF TypeOK, TipoDoHandler
<1>2. handler' = [handler EXCEPT ![h] = q]
    BY <1>1 DEF Sair
<1>3. q.saida = s
    BY <1>1 DEF TipoDoHandler
<1> HIDE DEF q
<1> QED BY <1>1, <1>2, <1>3

\* The steps of a handler between the claim of its event and its outcome.
LEMMA ReconhecidoPassoDoHandler ==
    ASSUME IInv, Reconhecido, NEW h \in Handlers,
           Falhar(h) \/ Despachar(h) \/ Processar(h) \/ PassoDaAprovacao(h) \/ PassoDaRejeicao(h)
    PROVE  Reconhecido'
<1> USE DEF Em
<1>t. TypeOK /\ \A p \in Pagamentos : registros[p] \in {0, 1}
    BY DEF IInv, TypeOK
<1>1. /\ UNCHANGED <<cartoes, comMetadados, sessao, emitidos, arquivo>>
      /\ handler[h].passo \notin {"livre", "encerrando"}
    BY DEF Falhar, Despachar, DespacharCompletada, DespacharExpirada, DespacharIntencao,
       DespacharRecusa,
       DespacharCobranca, SoAnda, SoHandler, Processar, PassoDaAprovacao, PassoDaRejeicao,
       Finalizar, PodeAprovar, Cobrar, Aprovar, Anunciar, LerLivro, Registrar, Recusar,
       PodeRejeitar, Conferir, GravarRejeitado
<1>2. Pag(h) \in Pagamentos /\ SabeDaCompletada(h)
    BY <1>1, OcupadoServe DEF Reconhecido
<1>3. \A p \in Pagamentos : registros[p] = 1 => registros'[p] = 1
    BY <1>t, <1>2 DEF Falhar, Despachar, DespacharCompletada, DespacharExpirada,
       DespacharIntencao, DespacharRecusa, DespacharCobranca, SoAnda, PagamentoMudo, Processar,
       PassoDaAprovacao,
       PassoDaRejeicao, Finalizar, PodeAprovar, Cobrar, Aprovar, Anunciar, LerLivro, Registrar,
       Recusar, PodeRejeitar, Conferir, GravarRejeitado, TypeOK
<1>4. \/ NaCompletada(h) /\ \E x \in CaminhoDaCompletada : Ir(h, x)
      \/ ~NaCompletada(h) /\ \E x \in Passos : Ir(h, x)
      \/ Sair(h, "erro")
      \/ Sair(h, "ok") /\ (NaCompletada(h) => registros'[Pag(h)] = 1)
    <2>1. CASE Falhar(h)
        BY <2>1 DEF Falhar
    <2>2. CASE Despachar(h)
        <3>1. CASE DespacharCompletada(h)
            BY <1>1, <3>1 DEF DespacharCompletada, NaCompletada, CaminhoDaCompletada, Passos
        <3>2. CASE DespacharExpirada(h)
            BY <3>2 DEF DespacharExpirada, NaCompletada, Passos
        <3>3. CASE DespacharIntencao(h) \/ DespacharRecusa(h) \/ DespacharCobranca(h)
            BY <3>3 DEF DespacharIntencao, DespacharRecusa, DespacharCobranca, SeVinculado,
               NaCompletada, Passos
        <3> QED BY <2>2, <3>1, <3>2, <3>3 DEF Despachar
    <2>3. CASE Processar(h) \/ PassoDaRejeicao(h)
        <3>1. handler[h].passo \notin CaminhoDaCompletada \cup {"encerrando"}
            BY <2>3 DEF Processar, PassoDaRejeicao, Recusar, PodeRejeitar, Conferir,
               GravarRejeitado, CaminhoDaCompletada
        <3>2. ~NaCompletada(h)
            BY <1>2, <3>1 DEF SabeDaCompletada
        <3>3. \/ \E x \in Passos : Ir(h, x)
              \/ Sair(h, "erro") \/ Sair(h, "ok")
            BY <2>3 DEF Processar, PassoDaRejeicao, Recusar, PodeRejeitar, Conferir,
               GravarRejeitado, Passos
        <3> QED BY <3>2, <3>3
    <2>4. CASE PassoDaAprovacao(h)
        <3>1. \/ \E x \in CaminhoDaCompletada : Ir(h, x)
              \/ Sair(h, "erro")
              \/ Sair(h, "ok") /\ registros'[Pag(h)] = 1
            <4>1. CASE LerLivro(h)
                BY <1>t, <1>2, <4>1 DEF LerLivro, SoAnda, PagamentoMudo, CaminhoDaCompletada
            <4>2. CASE Registrar(h)
                BY <1>t, <1>2, <4>2 DEF Registrar, TypeOK
            <4>3. CASE Finalizar(h) \/ PodeAprovar(h) \/ Cobrar(h) \/ Aprovar(h) \/ Anunciar(h)
                <5>1. status[Pag(h)] = "aprovado" \/ status[Pag(h)] # "aprovado"
                    OBVIOUS
                <5> QED BY <1>t, <1>2, <4>3 DEF Finalizar, PodeAprovar, Cobrar, Aprovar, Anunciar,
                           CaminhoDaCompletada
            <4> QED BY <2>4, <4>1, <4>2, <4>3 DEF PassoDaAprovacao
        <3>2. CaminhoDaCompletada \subseteq Passos
            BY DEF CaminhoDaCompletada, Passos
        <3> QED BY <3>1, <3>2
    <2> QED BY <2>1, <2>2, <2>3, <2>4
<1>5. Andou(h) /\ (NaCompletada(h)' => NaCompletada(h)) /\ Pag(h)' = Pag(h)
    <2>1. Andou(h)
        <3>1. CaminhoDaCompletada \subseteq Passos
            BY DEF CaminhoDaCompletada, Passos
        <3> QED BY <1>t, <1>4, <3>1, IrAnda, SairAnda
    <2> QED BY <1>1, <2>1 DEF Andou, NaCompletada, Tipo, Pag
<1>6. SabeDaCompletada(h)'
    <2>1. CASE NaCompletada(h) /\ \E x \in CaminhoDaCompletada : Ir(h, x)
        BY <1>t, <2>1, IrAnda DEF SabeDaCompletada, CaminhoDaCompletada, Passos
    <2>2. CASE ~NaCompletada(h)
        BY <1>5, <2>2 DEF SabeDaCompletada
    <2>3. CASE Sair(h, "erro")
        BY <1>t, <2>3, SairAnda, SairDiz DEF SabeDaCompletada
    <2>4. CASE Sair(h, "ok") /\ (NaCompletada(h) => registros'[Pag(h)] = 1)
        BY <1>t, <1>5, <2>4, SairAnda DEF SabeDaCompletada
    <2> QED BY <1>4, <2>1, <2>2, <2>3, <2>4
<1> QED BY <1>1, <1>3, <1>5, <1>6, ReconhecidoAnda DEF Andou

\* Every step keeps track of the events of charged cards.
LEMMA ReconhecidoPasso == IInv /\ Reconhecido /\ [Next]_vars => Reconhecido'
<1> SUFFICES ASSUME IInv, Reconhecido, [Next]_vars PROVE Reconhecido'
    OBVIOUS
<1>t. TypeOK /\ cartoes \subseteq Pagamentos
    BY DEF IInv, TypeOK
<1>e. \A p \in Pagamentos : Completada(p) \in Eventos
    BY DEF Completada, Eventos, Tipos
<1>1. ASSUME NEW p \in Pagamentos, PassoDaStripe(p) PROVE Reconhecido'
    <2>1. /\ UNCHANGED <<cartoes, comMetadados, handler, arquivo, registros>>
          /\ emitidos \subseteq emitidos'
          /\ \A q \in Pagamentos : q # p => sessao'[q] = sessao[q]
          /\ p \in cartoes /\ sessao'[p] = "paga" =>
                sessao[p] = "paga" \/ Completada(p) \in emitidos'
        <3>1. p \in cartoes => sessao[p] # "confirmando"
            BY DEF IInv, SabeDoPagamento
        <3> QED BY <1>1, <1>t, <3>1 DEF PassoDaStripe, PagarCartao, EscanearPix, ConfirmarPix,
                   PerderPix,
                   FalharTentativa, ExpirarSessao, Sessao, PagamentoMudo, TypeOK, Completada
    <2>2. \A h \in Handlers : SabeDaCompletada(h)'
        BY <2>1 DEF Reconhecido, SabeDaCompletada, NaCompletada, Tipo, Pag
    <2>3. ASSUME NEW q \in cartoes PROVE EventoNaoSePerde(q)'
        BY <1>t, <2>1 DEF Reconhecido, EventoNaoSePerde, Completada
    <2> QED BY <2>1, <2>2, <2>3 DEF Reconhecido
<1>2. ASSUME NEW e \in Eventos, VencerCerca(e) PROVE Reconhecido'
    <2>1. \A d \in Eventos : arquivo'[d].processado = arquivo[d].processado
        BY <1>t, <1>2 DEF VencerCerca, Arq!VencerCerca, TypeOK, Arq!EstadosDoArquivo
    <2> QED BY <1>2, <1>t, <1>e, <2>1
            DEF VencerCerca, PagamentoMudo, Reconhecido, SabeDaCompletada, NaCompletada, Tipo, Pag,
                EventoNaoSePerde, Completada
<1>3. ASSUME NEW h \in Handlers, NEW e \in Eventos, Receber(h, e) PROVE Reconhecido'
    <2>1. /\ handler'[h].passo = "despachando"
          /\ \A g \in Handlers : g # h => handler'[g] = handler[g]
        BY <1>t, <1>3 DEF Receber, TypeOK
    <2>2. SabeDaCompletada(h)'
        BY <2>1 DEF SabeDaCompletada, CaminhoDaCompletada
    <2>3. \A d \in Eventos : arquivo'[d].processado = arquivo[d].processado
        BY <1>t, <1>3 DEF Receber, Arq!Reclamar, TypeOK, Arq!EstadosDoArquivo
    <2> QED BY <1>3, <1>t, <1>e, <2>1, <2>2, <2>3, ReconhecidoAnda DEF Receber, PagamentoMudo
<1>4. ASSUME NEW h \in Handlers, Cair(h) \/ Responder(h) PROVE Reconhecido'
    <2>1. /\ handler'[h].passo = "livre"
          /\ \A g \in Handlers : g # h => handler'[g] = handler[g]
        BY <1>t, <1>4 DEF Cair, Responder, TypeOK, Livre
    <2>2. SabeDaCompletada(h)'
        BY <2>1 DEF SabeDaCompletada, NaCompletada
    <2>3. ASSUME NEW p \in cartoes, arquivo'[Completada(p)].processado,
                 ~arquivo[Completada(p)].processado
          PROVE  registros[p] = 1
        <3>0. Completada(p) \in Eventos /\ arquivo \in Arq!EstadosDoArquivo
            BY <1>t, <1>e DEF TypeOK
        <3>1. /\ Em(h, "encerrando") /\ handler[h].saida = "ok"
              /\ handler[h].evento = Completada(p)
            <4>1. Responder(h)
                BY <1>4, <2>3 DEF Cair
            <4>2. ~Arq!Recusar(handler[h].evento, h)
                BY <2>3, <3>0 DEF Arq!Recusar, Arq!EstadosDoArquivo
            <4>3. Arq!Concluir(handler[h].evento, h) => handler[h].evento = Completada(p)
                BY <2>3, <3>0 DEF Arq!Concluir, Arq!EstadosDoArquivo
            <4> QED BY <4>1, <4>2, <4>3 DEF Responder
        <3>2. NaCompletada(h) /\ Pag(h) = p
            BY <3>1 DEF NaCompletada, Em, Tipo, Pag, Completada
        <3> QED BY <3>1, <3>2 DEF Reconhecido, SabeDaCompletada, CaminhoDaCompletada, Em
    <2> QED BY <1>4, <2>1, <2>2, <2>3, ReconhecidoAnda DEF Cair, Responder, PagamentoMudo
<1>5. CASE UNCHANGED vars
    BY <1>5 DEF vars, Reconhecido, SabeDaCompletada, NaCompletada, Tipo, Pag, EventoNaoSePerde,
       Completada
<1> QED BY <1>1, <1>2, <1>3, <1>4, <1>5, ReconhecidoPassoDoHandler DEF Next, PassoDoHandler

\* A charged card is in the ledger, or Stripe still has its event to deliver and the
\* payment can still be approved, unless the metadata fallback may have rejected it.
CartaoNaoSePerde ==
    \A p \in cartoes : sessao[p] = "paga" =>
        \/ registros[p] = 1
        \/ /\ Completada(p) \in emitidos /\ ~arquivo[Completada(p)].processado
           /\ status[p] = "rejeitado" => RejeitavelPelosMetadados(p)

\* What CartaoPagoSeRegistra needs of every state: checkout.session.completed of a
\* charged card is answered 200 only after its rows are in the ledger, whatever
\* failed, died, expired or was delivered at the same time, and until then nothing but
\* the metadata fallback has rejected the payment.
THEOREM CartaoNuncaSePerde == Spec => []CartaoNaoSePerde
<1>1. Init => Reconhecido
    <2> SUFFICES ASSUME Init PROVE Reconhecido
        OBVIOUS
    <2>1. \A h \in Handlers : handler[h].passo = "livre"
        BY DEF Init, Livre
    <2>2. \A p \in Pagamentos : /\ sessao[p] = "aberta"
                                /\ ~arquivo[Completada(p)].processado
        BY DEF Init, Arq!ArquivoInicial, Eventos, Tipos, Completada
    <2>3. cartoes \subseteq Pagamentos
        BY DEF Init
    <2> QED BY <2>1, <2>2, <2>3 DEF Reconhecido, SabeDaCompletada, NaCompletada, EventoNaoSePerde
<1>2. IInv /\ Reconhecido /\ [Next]_vars => Reconhecido'
    BY ReconhecidoPasso
<1>3. Reconhecido /\ CartaoPagoNaoERejeitado => CartaoNaoSePerde
    BY DEF Reconhecido, EventoNaoSePerde, CartaoNaoSePerde, CartaoPagoNaoERejeitado
<1> QED BY <1>1, <1>2, <1>3, InvarianteCorreto, RejeicaoDeCartao, PTL DEF Spec

-----------------------------------------------------------------------------
(* A confirmed PIX whose charge finds it *)

Cobrada(p) == <<"charge.succeeded", p>>

\* Every charge.succeeded of a PIX is looked up after its session was bound: the order
\* the handlers count on and Stripe does not promise.
CobrancaEncontra ==
    \A h \in Handlers :
        Em(h, "despachando") /\ Tipo(h) = "charge.succeeded" /\ Pag(h) \notin cartoes =>
            Pag(h) \in vinculado

\* The handler serves the charge of a PIX.
NaCobrada(h) ==
    handler[h].passo # "livre" /\ Tipo(h) = "charge.succeeded" /\ Pag(h) \notin cartoes

AntesDeDecidir == {"despachando", "finalizando", "aprovando", "cobrando", "gravandoAprovado"}
DepoisDeDecidir == {"anunciando", "lendo", "registrando"}

\* It is on the way to the approval, failed, or its payment is decided.
SabeDaCobrada(h) ==
    NaCobrada(h) => \/ handler[h].passo \in AntesDeDecidir
                    \/ handler[h].passo \in DepoisDeDecidir /\ status[Pag(h)] \in Terminal
                    \/ handler[h].passo = "encerrando"
                       /\ (handler[h].saida = "ok" => status[Pag(h)] \in Terminal)

\* The charge of a confirmed PIX exists, and is recorded as processed only once the
\* payment is decided.
CobrancaNaoSePerde(p) ==
    /\ sessao[p] = "paga" => Cobrada(p) \in emitidos
    /\ arquivo[Cobrada(p)].processado => status[p] \in Terminal

Cobrado ==
    /\ \A h \in Handlers : SabeDaCobrada(h)
    /\ \A p \in Pagamentos \ cartoes : CobrancaNaoSePerde(p)

\* A step of a handler on the same event, or one that ends it.
LEMMA CobradoAnda ==
    ASSUME IInv, Cobrado, NEW h \in Handlers,
           \A g \in Handlers : g # h => handler'[g] = handler[g],
           \A p \in Pagamentos : status[p] \in Terminal => status'[p] \in Terminal,
           UNCHANGED <<cartoes, comMetadados, sessao, emitidos>>, SabeDaCobrada(h)',
           \A p \in Pagamentos \ cartoes :
              arquivo'[Cobrada(p)].processado =>
                 arquivo[Cobrada(p)].processado \/ status[p] \in Terminal
    PROVE  Cobrado'
<1>1. ASSUME NEW g \in Handlers, g # h PROVE SabeDaCobrada(g)'
    <2>1. NaCobrada(g) => Pag(g) \in Pagamentos
        BY OcupadoServe DEF NaCobrada
    <2> QED BY <1>1, <2>1 DEF Cobrado, SabeDaCobrada, NaCobrada, Tipo, Pag
<1>2. \A p \in Pagamentos \ cartoes : CobrancaNaoSePerde(p)'
    BY DEF Cobrado, CobrancaNaoSePerde, Cobrada
<1> QED BY <1>1, <1>2 DEF Cobrado

\* The steps of a handler between the claim of its event and its outcome.
LEMMA CobradoPassoDoHandler ==
    ASSUME IInv, Cobrado, CobrancaEncontra, NEW h \in Handlers,
           Falhar(h) \/ Despachar(h) \/ Processar(h) \/ PassoDaAprovacao(h) \/ PassoDaRejeicao(h)
    PROVE  Cobrado'
<1> USE DEF Em
<1>1. /\ UNCHANGED <<cartoes, comMetadados, sessao, emitidos, arquivo>>
      /\ handler[h].passo \notin {"livre", "encerrando"}
    BY DEF Falhar, Despachar, DespacharCompletada, DespacharExpirada, DespacharIntencao,
       DespacharRecusa,
       DespacharCobranca, SoAnda, SoHandler, Processar, PassoDaAprovacao, PassoDaRejeicao,
       Finalizar, PodeAprovar, Cobrar, Aprovar, Anunciar, LerLivro, Registrar, Recusar,
       PodeRejeitar, Conferir, GravarRejeitado
<1>t. TypeOK /\ Pag(h) \in Pagamentos /\ SabeDaCobrada(h)
    BY <1>1, OcupadoServe DEF IInv, Cobrado
<1>2. \A p \in Pagamentos : status[p] \in Terminal => status'[p] \in Terminal
    BY <1>t DEF Falhar, Despachar, DespacharCompletada, DespacharExpirada,
       DespacharIntencao, DespacharRecusa, DespacharCobranca, SoAnda, PagamentoMudo, Processar,
       PassoDaAprovacao,
       PassoDaRejeicao, Finalizar, PodeAprovar, Cobrar, Aprovar, Anunciar, LerLivro, Registrar,
       Recusar, PodeRejeitar, Conferir, GravarRejeitado, TypeOK, Terminal
<1>3. \/ NaCobrada(h) /\ \E x \in AntesDeDecidir : Ir(h, x)
      \/ NaCobrada(h) /\ status'[Pag(h)] \in Terminal /\ \E x \in DepoisDeDecidir : Ir(h, x)
      \/ ~NaCobrada(h) /\ \E x \in Passos : Ir(h, x)
      \/ Sair(h, "erro")
      \/ Sair(h, "ok") /\ (NaCobrada(h) => status'[Pag(h)] \in Terminal)
    <2>1. CASE Falhar(h)
        BY <2>1 DEF Falhar
    <2>2. CASE Despachar(h)
        <3>1. CASE DespacharCompletada(h)
            BY <3>1 DEF DespacharCompletada, NaCobrada, Passos
        <3>2. CASE DespacharExpirada(h)
            BY <3>2 DEF DespacharExpirada, NaCobrada, Passos
        <3>3. CASE DespacharIntencao(h) \/ DespacharRecusa(h)
            BY <3>3 DEF DespacharIntencao, DespacharRecusa, SeVinculado, NaCobrada, Passos
        <3>4. CASE DespacharCobranca(h)
            <4>1. CASE NaCobrada(h)
                <5>1. status[Pag(h)] \notin Terminal => Pag(h) \in vinculado
                    BY <3>4, <4>1 DEF CobrancaEncontra, DespacharCobranca, NaCobrada
                <5> QED BY <1>2, <1>t, <3>4, <4>1, <5>1
                        DEF DespacharCobranca, SeVinculado, NaCobrada, AntesDeDecidir
            <4>2. CASE ~NaCobrada(h)
                BY <3>4, <4>2 DEF DespacharCobranca, SeVinculado, Passos
            <4> QED BY <4>1, <4>2
        <3> QED BY <2>2, <3>1, <3>2, <3>3, <3>4 DEF Despachar
    <2>3. CASE Processar(h) \/ PassoDaRejeicao(h)
        <3>1. handler[h].passo \notin AntesDeDecidir \cup DepoisDeDecidir \cup {"encerrando"}
            BY <2>3 DEF Processar, PassoDaRejeicao, Recusar, PodeRejeitar, Conferir,
               GravarRejeitado, AntesDeDecidir, DepoisDeDecidir
        <3>2. ~NaCobrada(h)
            BY <1>t, <3>1 DEF SabeDaCobrada
        <3>3. \/ \E x \in Passos : Ir(h, x)
              \/ Sair(h, "erro") \/ Sair(h, "ok")
            BY <2>3 DEF Processar, PassoDaRejeicao, Recusar, PodeRejeitar, Conferir,
               GravarRejeitado, Passos
        <3> QED BY <3>2, <3>3
    <2>4. CASE PassoDaAprovacao(h)
        <3>1. \/ \E x \in AntesDeDecidir : Ir(h, x)
              \/ Sair(h, "erro")
              \/ /\ (NaCobrada(h) => status'[Pag(h)] \in Terminal)
                 /\ Sair(h, "ok") \/ \E x \in DepoisDeDecidir : Ir(h, x)
            <4>1. CASE Anunciar(h) \/ LerLivro(h) \/ Registrar(h)
                BY <1>t, <4>1 DEF Anunciar, LerLivro, Registrar, SoAnda, PagamentoMudo,
                   AntesDeDecidir, DepoisDeDecidir, SabeDaCobrada
            <4>2. CASE Finalizar(h)
                BY <4>2 DEF Finalizar, SoAnda, PagamentoMudo, AntesDeDecidir, DepoisDeDecidir,
                   Terminal
            <4>3. CASE PodeAprovar(h) \/ Cobrar(h)
                BY <4>3 DEF PodeAprovar, Cobrar, AntesDeDecidir
            <4>4. CASE Aprovar(h)
                BY <1>t, <4>4 DEF Aprovar, TypeOK, Terminal, DepoisDeDecidir
            <4> QED BY <2>4, <4>1, <4>2, <4>3, <4>4 DEF PassoDaAprovacao
        <3>2. AntesDeDecidir \cup DepoisDeDecidir \subseteq Passos
            BY DEF AntesDeDecidir, DepoisDeDecidir, Passos
        <3> QED BY <3>1, <3>2
    <2> QED BY <2>1, <2>2, <2>3, <2>4
<1>4. Andou(h) /\ (NaCobrada(h)' => NaCobrada(h)) /\ Pag(h)' = Pag(h)
    <2>1. Andou(h)
        <3>1. AntesDeDecidir \cup DepoisDeDecidir \subseteq Passos
            BY DEF AntesDeDecidir, DepoisDeDecidir, Passos
        <3> QED BY <1>t, <1>3, <3>1, IrAnda, SairAnda
    <2> QED BY <1>1, <2>1 DEF Andou, NaCobrada, Tipo, Pag
<1>5. SabeDaCobrada(h)'
    <2>1. CASE NaCobrada(h) /\ \E x \in AntesDeDecidir : Ir(h, x)
        BY <1>t, <2>1, IrAnda DEF SabeDaCobrada, AntesDeDecidir, Passos
    <2>2. CASE NaCobrada(h) /\ status'[Pag(h)] \in Terminal /\ \E x \in DepoisDeDecidir : Ir(h, x)
        <3>1. handler'[h].passo \in DepoisDeDecidir
            BY <1>t, <2>2, IrAnda DEF DepoisDeDecidir, Passos
        <3> QED BY <1>4, <2>2, <3>1 DEF SabeDaCobrada, Terminal
    <2>3. CASE ~NaCobrada(h)
        BY <1>4, <2>3 DEF SabeDaCobrada
    <2>4. CASE Sair(h, "erro")
        BY <1>t, <2>4, SairAnda, SairDiz DEF SabeDaCobrada
    <2>5. CASE Sair(h, "ok") /\ (NaCobrada(h) => status'[Pag(h)] \in Terminal)
        BY <1>t, <1>4, <2>5, SairAnda DEF SabeDaCobrada, Terminal
    <2> QED BY <1>3, <2>1, <2>2, <2>3, <2>4, <2>5
<1> QED BY <1>1, <1>2, <1>4, <1>5, CobradoAnda DEF Andou

\* Every step keeps track of the charges of confirmed PIX payments.
LEMMA CobradoPasso == IInv /\ Cobrado /\ CobrancaEncontra /\ [Next]_vars => Cobrado'
<1> SUFFICES ASSUME IInv, Cobrado, CobrancaEncontra, [Next]_vars PROVE Cobrado'
    OBVIOUS
<1>t. TypeOK
    BY DEF IInv
<1>e. \A p \in Pagamentos : Cobrada(p) \in Eventos
    BY DEF Cobrada, Eventos, Tipos
<1>1. ASSUME NEW p \in Pagamentos, PassoDaStripe(p) PROVE Cobrado'
    <2>1. /\ UNCHANGED <<cartoes, comMetadados, handler, arquivo, status>>
          /\ emitidos \subseteq emitidos'
          /\ \A q \in Pagamentos : q # p => sessao'[q] = sessao[q]
          /\ p \notin cartoes /\ sessao'[p] = "paga" =>
                sessao[p] = "paga" \/ Cobrada(p) \in emitidos'
        BY <1>1, <1>t DEF PassoDaStripe, PagarCartao, EscanearPix, ConfirmarPix, PerderPix,
           FalharTentativa, ExpirarSessao, Sessao, PagamentoMudo, TypeOK, Cobrada
    <2>2. \A h \in Handlers : SabeDaCobrada(h)'
        BY <2>1 DEF Cobrado, SabeDaCobrada, NaCobrada, Tipo, Pag
    <2>3. ASSUME NEW q \in Pagamentos, q \notin cartoes PROVE CobrancaNaoSePerde(q)'
        BY <1>t, <2>1, <2>3 DEF Cobrado, CobrancaNaoSePerde, Cobrada
    <2> QED BY <2>1, <2>2, <2>3 DEF Cobrado
<1>2. ASSUME NEW e \in Eventos, VencerCerca(e) PROVE Cobrado'
    <2>1. \A d \in Eventos : arquivo'[d].processado = arquivo[d].processado
        BY <1>t, <1>2 DEF VencerCerca, Arq!VencerCerca, TypeOK, Arq!EstadosDoArquivo
    <2> QED BY <1>2, <1>t, <1>e, <2>1
            DEF VencerCerca, PagamentoMudo, Cobrado, SabeDaCobrada, NaCobrada, Tipo, Pag,
                CobrancaNaoSePerde, Cobrada
<1>3. ASSUME NEW h \in Handlers, NEW e \in Eventos, Receber(h, e) PROVE Cobrado'
    <2>1. /\ handler'[h].passo = "despachando"
          /\ \A g \in Handlers : g # h => handler'[g] = handler[g]
        BY <1>t, <1>3 DEF Receber, TypeOK
    <2>2. SabeDaCobrada(h)'
        BY <2>1 DEF SabeDaCobrada, AntesDeDecidir
    <2>3. \A d \in Eventos : arquivo'[d].processado = arquivo[d].processado
        BY <1>t, <1>3 DEF Receber, Arq!Reclamar, TypeOK, Arq!EstadosDoArquivo
    <2> QED BY <1>3, <1>t, <1>e, <2>1, <2>2, <2>3, CobradoAnda DEF Receber, PagamentoMudo
<1>4. ASSUME NEW h \in Handlers, Cair(h) \/ Responder(h) PROVE Cobrado'
    <2>1. /\ handler'[h].passo = "livre"
          /\ \A g \in Handlers : g # h => handler'[g] = handler[g]
        BY <1>t, <1>4 DEF Cair, Responder, TypeOK, Livre
    <2>2. SabeDaCobrada(h)'
        BY <2>1 DEF SabeDaCobrada, NaCobrada
    <2>3. ASSUME NEW p \in Pagamentos \ cartoes, arquivo'[Cobrada(p)].processado,
                 ~arquivo[Cobrada(p)].processado
          PROVE  status[p] \in Terminal
        <3>0. Cobrada(p) \in Eventos /\ arquivo \in Arq!EstadosDoArquivo
            BY <1>t, <1>e DEF TypeOK
        <3>1. /\ Em(h, "encerrando") /\ handler[h].saida = "ok"
              /\ handler[h].evento = Cobrada(p)
            <4>1. Responder(h)
                BY <1>4, <2>3 DEF Cair
            <4>2. ~Arq!Recusar(handler[h].evento, h)
                BY <2>3, <3>0 DEF Arq!Recusar, Arq!EstadosDoArquivo
            <4>3. Arq!Concluir(handler[h].evento, h) => handler[h].evento = Cobrada(p)
                BY <2>3, <3>0 DEF Arq!Concluir, Arq!EstadosDoArquivo
            <4> QED BY <4>1, <4>2, <4>3 DEF Responder
        <3>2. NaCobrada(h) /\ Pag(h) = p
            BY <3>1 DEF NaCobrada, Em, Tipo, Pag, Cobrada
        <3> QED BY <3>1, <3>2 DEF Cobrado, SabeDaCobrada, AntesDeDecidir, DepoisDeDecidir, Em
    <2> QED BY <1>4, <2>1, <2>2, <2>3, CobradoAnda DEF Cair, Responder, PagamentoMudo
<1>5. CASE UNCHANGED vars
    BY <1>5 DEF vars, Cobrado, SabeDaCobrada, NaCobrada, Tipo, Pag, CobrancaNaoSePerde,
       Cobrada
<1> QED BY <1>1, <1>2, <1>3, <1>4, <1>5, CobradoPassoDoHandler DEF Next, PassoDoHandler

\* A confirmed PIX is approved, or Stripe still has its charge to deliver, or an attempt
\* at it was declined before and its report rejected the payment.
PixNaoSePerde ==
    \A p \in Pagamentos \ cartoes : sessao[p] = "paga" =>
        \/ status[p] = "aprovado"
        \/ Cobrada(p) \in emitidos /\ ~arquivo[Cobrada(p)].processado
        \/ status[p] = "rejeitado" /\ <<"intent.payment_failed", p>> \in emitidos

\* The promise PixPagoSeAprova breaks, under the order it silently relies on: if no
\* charge.succeeded is looked up before its session is bound, a PIX the bank confirmed is
\* not forgotten, unless a declined attempt had it rejected (stripe-webhook.ts, the
\* session completed unpaid).
THEOREM PixSoSePerdeForaDeOrdem == Spec /\ []CobrancaEncontra => []PixNaoSePerde
<1>1. Init => Cobrado
    <2> SUFFICES ASSUME Init PROVE Cobrado
        OBVIOUS
    <2>1. \A h \in Handlers : handler[h].passo = "livre"
        BY DEF Init, Livre
    <2>2. \A p \in Pagamentos : /\ sessao[p] = "aberta"
                                /\ ~arquivo[Cobrada(p)].processado
        BY DEF Init, Arq!ArquivoInicial, Eventos, Tipos, Cobrada
    <2> QED BY <2>1, <2>2 DEF Cobrado, SabeDaCobrada, NaCobrada, CobrancaNaoSePerde
<1>2. IInv /\ Cobrado /\ CobrancaEncontra /\ [Next]_vars => Cobrado'
    BY CobradoPasso
<1>3. IInv /\ Cobrado /\ RejeicaoTeveRecusa => PixNaoSePerde
    BY DEF IInv, TypeOK, Cobrado, CobrancaNaoSePerde, RejeicaoTeveRecusa, PixNaoSePerde, Terminal
<1> QED BY <1>1, <1>2, <1>3, InvarianteCorreto, RejeitadoFoiRecusado, PTL DEF Spec

-----------------------------------------------------------------------------
(* A PIX decided without its ledger rows *)

Aprovando == {"finalizando", "aprovando", "cobrando", "gravandoAprovado"} \cup DepoisDeDecidir

\* The payment is decided, its credits were never written, and no handler is on the
\* way to writing them.
SemLivro(p) ==
    /\ p \notin cartoes /\ status[p] \in Terminal /\ registros[p] = 0
    /\ \A h \in Handlers : handler[h].passo \in Aprovando => Pag(h) # p

\* What no step does to it: its credits are not written by any later event.
SemLivroNaoVolta == [][\A p \in Pagamentos : SemLivro(p) => SemLivro(p)']_vars

\* A handler that moved without entering the approval of this payment.
LEMMA SemLivroFica ==
    ASSUME NEW p \in Pagamentos, SemLivro(p), NEW h \in Handlers,
           \A g \in Handlers : g # h => handler'[g] = handler[g],
           handler'[h].passo \in Aprovando => handler'[h].evento[2] # p,
           cartoes' = cartoes, registros'[p] = registros[p], status'[p] \in Terminal
    PROVE  SemLivro(p)'
BY DEF SemLivro, Pag

\* The steps of a handler between the claim of its event and its outcome.
LEMMA SemLivroPassoDoHandler ==
    ASSUME IInv, NEW p \in Pagamentos, SemLivro(p), NEW h \in Handlers,
           Falhar(h) \/ Despachar(h) \/ Processar(h) \/ PassoDaAprovacao(h) \/ PassoDaRejeicao(h)
    PROVE  SemLivro(p)'
<1> USE DEF Em
<1>1. cartoes' = cartoes /\ handler[h].passo # "livre"
    BY DEF Falhar, Despachar, DespacharCompletada, DespacharExpirada, DespacharIntencao,
       DespacharRecusa,
       DespacharCobranca, SoAnda, SoHandler, Processar, PassoDaAprovacao, PassoDaRejeicao,
       Finalizar, PodeAprovar, Cobrar, Aprovar, Anunciar, LerLivro, Registrar, Recusar,
       PodeRejeitar, Conferir, GravarRejeitado
<1>t. TypeOK /\ Pag(h) \in Pagamentos
    BY <1>1, OcupadoServe DEF IInv
<1>2. \/ \E x \in Passos : Ir(h, x)
      \/ \E s \in {"ok", "erro"} : Sair(h, s)
    BY DEF Falhar, Despachar, DespacharCompletada, DespacharExpirada, DespacharIntencao,
       DespacharRecusa,
       DespacharCobranca, SeVinculado, Processar, PassoDaAprovacao, PassoDaRejeicao,
       Finalizar, PodeAprovar, Cobrar, Aprovar, Anunciar, LerLivro, Registrar, Recusar,
       PodeRejeitar, Conferir, GravarRejeitado, Passos
<1>3. Andou(h)
    BY <1>t, <1>2, IrAnda, SairAnda
<1>4. CASE Pag(h) # p
    <2>1. status'[p] = status[p] /\ registros'[p] = registros[p]
        BY <1>t, <1>4 DEF Falhar, Despachar, DespacharCompletada, DespacharExpirada,
           DespacharIntencao, DespacharRecusa, DespacharCobranca, SoAnda, PagamentoMudo, Processar,
           PassoDaAprovacao, PassoDaRejeicao, Finalizar, PodeAprovar, Cobrar, Aprovar, Anunciar,
           LerLivro, Registrar, Recusar, PodeRejeitar, Conferir, GravarRejeitado, TypeOK
    <2> QED BY <1>1, <1>3, <1>4, <2>1, SemLivroFica DEF Andou, SemLivro, Pag
<1>5. CASE Pag(h) = p
    <2>1. /\ p \notin cartoes /\ status[p] \in Terminal
          /\ handler[h].passo \notin Aprovando
        BY <1>5 DEF SemLivro
    <2>2. \/ \E x \in {"processando", "recusando", "rejeitando", "conferindo",
                      "gravandoRejeitado"} : Ir(h, x)
          \/ \E s \in {"ok", "erro"} : Sair(h, s)
        BY <1>5, <2>1 DEF Falhar, Despachar, DespacharCompletada, DespacharExpirada,
           DespacharIntencao, DespacharRecusa, DespacharCobranca, SeVinculado, Processar,
           PassoDaAprovacao,
           PassoDaRejeicao, Finalizar, PodeAprovar, Cobrar, Aprovar, Anunciar, LerLivro,
           Registrar, Recusar, PodeRejeitar, Conferir, GravarRejeitado, Aprovando,
           DepoisDeDecidir
    <2>3. handler'[h].passo \notin Aprovando
        <3>1. CASE \E x \in {"processando", "recusando", "rejeitando", "conferindo",
                             "gravandoRejeitado"} : Ir(h, x)
            BY <1>t, <3>1, IrAnda DEF Aprovando, DepoisDeDecidir, Passos
        <3>2. CASE \E s \in {"ok", "erro"} : Sair(h, s)
            BY <1>t, <3>2, SairAnda DEF Aprovando, DepoisDeDecidir
        <3> QED BY <2>2, <3>1, <3>2
    <2>4. status'[p] \in Terminal /\ registros'[p] = registros[p]
        BY <1>t, <1>5, <2>1 DEF Falhar, Despachar, DespacharCompletada, DespacharExpirada,
           DespacharIntencao, DespacharRecusa, DespacharCobranca, SoAnda, PagamentoMudo, Processar,
           PassoDaAprovacao, PassoDaRejeicao, Finalizar, PodeAprovar, Cobrar, Aprovar, Anunciar,
           LerLivro, Registrar, Recusar, PodeRejeitar, Conferir, GravarRejeitado, TypeOK,
           Terminal, Aprovando, DepoisDeDecidir
    <2> QED BY <1>1, <1>3, <2>3, <2>4, SemLivroFica DEF Andou
<1> QED BY <1>4, <1>5

\* A PIX whose approval was committed and whose credits were not written before its
\* handler failed or died never gets them: no event of Stripe, however often it is
\* delivered, leads to the ledger of a decided PIX any more (stripe-webhook.ts: a
\* redelivered charge.succeeded finds the payment terminal and is skipped, and
\* session.completed only moves a PIX to processing).
THEOREM LivroDoPixPerdido == Spec => SemLivroNaoVolta
<1>1. ASSUME IInv, [Next]_vars
      PROVE  [\A p \in Pagamentos : SemLivro(p) => SemLivro(p)']_vars
    <2> SUFFICES ASSUME Next, NEW p \in Pagamentos, SemLivro(p) PROVE SemLivro(p)'
        BY <1>1
    <2>t. TypeOK
        BY <1>1 DEF IInv
    <2>1. CASE \E q \in Pagamentos : PassoDaStripe(q)
        <3>1. UNCHANGED <<cartoes, comMetadados, handler>> /\ PagamentoMudo
            BY <2>1 DEF PassoDaStripe, PagarCartao, EscanearPix, ConfirmarPix, PerderPix,
               FalharTentativa, ExpirarSessao, Sessao
        <3> QED BY <3>1 DEF SemLivro, PagamentoMudo, Pag
    <2>2. CASE \E e \in Eventos : VencerCerca(e)
        BY <2>2 DEF VencerCerca, SemLivro, PagamentoMudo, Pag
    <2>3. ASSUME NEW h \in Handlers, Cair(h) \/ Responder(h) PROVE SemLivro(p)'
        <3>1. handler'[h].passo = "livre" /\ \A g \in Handlers : g # h => handler'[g] = handler[g]
            BY <2>t, <2>3 DEF Cair, Responder, TypeOK, Livre
        <3> QED BY <2>3, <3>1, SemLivroFica
                DEF Cair, Responder, PagamentoMudo, SemLivro, Aprovando, DepoisDeDecidir
    <2>4. ASSUME NEW h \in Handlers, NEW e \in Eventos, Receber(h, e) PROVE SemLivro(p)'
        <3>1. /\ handler'[h].passo = "despachando"
              /\ \A g \in Handlers : g # h => handler'[g] = handler[g]
            BY <2>t, <2>4 DEF Receber, TypeOK
        <3> QED BY <2>4, <3>1, SemLivroFica
                DEF Receber, PagamentoMudo, SemLivro, Aprovando, DepoisDeDecidir
    <2> QED BY <1>1, <2>1, <2>2, <2>3, <2>4, SemLivroPassoDoHandler DEF Next, PassoDoHandler
<1> QED BY <1>1, InvarianteCorreto, PTL DEF Spec, SemLivroNaoVolta

-----------------------------------------------------------------------------
(* A rejected payment is never registered *)

\* The payment is rejected, and no handler that found it approved is still on its way
\* to the ledger.
RejeitadoSemLivro(p) ==
    /\ status[p] = "rejeitado" /\ registros[p] = 0
    /\ \A h \in Handlers : handler[h].passo \in DepoisDeDecidir => Pag(h) # p

\* What no step does to it, whether the session of the payment is paid later or not.
RejeitadoNaoVolta ==
    [][\A p \in Pagamentos : RejeitadoSemLivro(p) => RejeitadoSemLivro(p)']_vars

\* The steps of a handler between the claim of its event and its outcome.
LEMMA RejeitadoPassoDoHandler ==
    ASSUME IInv, NEW p \in Pagamentos, RejeitadoSemLivro(p), NEW h \in Handlers,
           Falhar(h) \/ Despachar(h) \/ Processar(h) \/ PassoDaAprovacao(h) \/ PassoDaRejeicao(h)
    PROVE  RejeitadoSemLivro(p)'
<1> USE DEF Em
<1>1. handler[h].passo # "livre"
    BY DEF Falhar, Despachar, DespacharCompletada, DespacharExpirada, DespacharIntencao,
       DespacharRecusa, DespacharCobranca, Processar, PassoDaAprovacao, PassoDaRejeicao,
       Finalizar, PodeAprovar, Cobrar, Aprovar, Anunciar, LerLivro, Registrar, Recusar,
       PodeRejeitar, Conferir, GravarRejeitado
<1>t. TypeOK /\ Pag(h) \in Pagamentos
    BY <1>1, OcupadoServe DEF IInv
<1>2. \/ \E x \in Passos : Ir(h, x)
      \/ \E s \in {"ok", "erro"} : Sair(h, s)
    BY DEF Falhar, Despachar, DespacharCompletada, DespacharExpirada, DespacharIntencao,
       DespacharRecusa, DespacharCobranca, SeVinculado, Processar, PassoDaAprovacao,
       PassoDaRejeicao, Finalizar, PodeAprovar, Cobrar, Aprovar, Anunciar, LerLivro, Registrar,
       Recusar, PodeRejeitar, Conferir, GravarRejeitado, Passos
<1>3. Andou(h)
    BY <1>t, <1>2, IrAnda, SairAnda
<1>4. status'[p] = "rejeitado" /\ registros'[p] = 0
    BY <1>t DEF RejeitadoSemLivro, Falhar, Despachar, DespacharCompletada, DespacharExpirada,
       DespacharIntencao, DespacharRecusa, DespacharCobranca, SoAnda, PagamentoMudo, Processar,
       PassoDaAprovacao, PassoDaRejeicao, Finalizar, PodeAprovar, Cobrar, Aprovar, Anunciar,
       LerLivro, Registrar, Recusar, PodeRejeitar, Conferir, GravarRejeitado, TypeOK, Terminal,
       DepoisDeDecidir
<1>5. CASE Pag(h) = p
    <2>1. handler[h].passo \notin DepoisDeDecidir
        BY <1>5 DEF RejeitadoSemLivro
    <2>2. \/ \E x \in Passos \ DepoisDeDecidir : Ir(h, x)
          \/ \E s \in {"ok", "erro"} : Sair(h, s)
        BY <1>5, <2>1 DEF RejeitadoSemLivro, Falhar, Despachar, DespacharCompletada,
           DespacharExpirada, DespacharIntencao, DespacharRecusa, DespacharCobranca, SeVinculado,
           Processar, PassoDaAprovacao, PassoDaRejeicao, Finalizar, PodeAprovar, Cobrar, Aprovar,
           Anunciar, LerLivro, Registrar, Recusar, PodeRejeitar, Conferir, GravarRejeitado,
           Passos, DepoisDeDecidir, Terminal
    <2>3. handler'[h].passo \notin DepoisDeDecidir
        BY <1>t, <2>2, IrAnda, SairAnda DEF DepoisDeDecidir
    <2> QED BY <1>3, <1>4, <2>3 DEF RejeitadoSemLivro, Andou, Pag
<1>6. CASE Pag(h) # p
    BY <1>3, <1>4, <1>6 DEF RejeitadoSemLivro, Andou, Pag
<1> QED BY <1>5, <1>6

\* A rejected payment stays rejected and without credits, although its session may still
\* be paid: what a declined attempt, reported through the metadata of an open session's
\* intent, does to a card that is charged afterwards is never undone, however often
\* checkout.session.completed is delivered (finalizarPagamentoAprovado throws).
THEOREM RejeicaoNaoSeDesfaz == Spec => RejeitadoNaoVolta
<1>1. ASSUME IInv, [Next]_vars
      PROVE  [\A p \in Pagamentos : RejeitadoSemLivro(p) => RejeitadoSemLivro(p)']_vars
    <2> SUFFICES ASSUME Next, NEW p \in Pagamentos, RejeitadoSemLivro(p)
                 PROVE  RejeitadoSemLivro(p)'
        BY <1>1
    <2>t. TypeOK
        BY <1>1 DEF IInv
    <2>1. CASE \/ \E q \in Pagamentos : PassoDaStripe(q)
               \/ \E e \in Eventos : VencerCerca(e)
        <3>1. UNCHANGED handler /\ PagamentoMudo
            BY <2>1 DEF PassoDaStripe, PagarCartao, EscanearPix, ConfirmarPix, PerderPix,
               FalharTentativa, ExpirarSessao, Sessao, VencerCerca
        <3> QED BY <3>1 DEF RejeitadoSemLivro, PagamentoMudo, Pag
    <2>2. ASSUME NEW h \in Handlers,
                 Cair(h) \/ Responder(h) \/ \E e \in Eventos : Receber(h, e)
          PROVE  RejeitadoSemLivro(p)'
        <3>1. /\ handler'[h].passo \notin DepoisDeDecidir
              /\ \A g \in Handlers : g # h => handler'[g] = handler[g]
            BY <2>t, <2>2 DEF Cair, Responder, Receber, TypeOK, Livre, DepoisDeDecidir
        <3> QED BY <2>2, <3>1
                DEF Cair, Responder, Receber, PagamentoMudo, RejeitadoSemLivro, Pag
    <2> QED BY <1>1, <2>1, <2>2, RejeitadoPassoDoHandler DEF Next, PassoDoHandler
<1> QED BY <1>1, InvarianteCorreto, PTL DEF Spec, RejeitadoNaoVolta

=============================================================================
