-------------------------- MODULE CobrancaPixProvas --------------------------
(***************************************************************************)
(* Proofs about CobrancaPix, for any payments, handlers, sweeps and        *)
(* failures.  What an actor read is still true when it acts on it, because *)
(* charges and decisions are final; that is the inductive invariant.       *)
(***************************************************************************)
EXTENDS CobrancaPix, FiniteSetTheorems, TLAPS

\* What the step of an actor says of its payment.
SabeDoAtor(a) ==
    LET p == ator[a].p IN
    /\ ator[a].passo # "livre" => p \in Pagamentos
    /\ a \in Varreduras /\ ator[a].passo # "livre" =>
          p \in vencida /\ ator[a].fila \subseteq vencida
    /\ ator[a].passo = "aprovando" => cobranca[p] = "concluida"
    /\ ator[a].passo = "rejeitando" =>
          a \in Varreduras /\ (p \in PagaDepois \/ cobranca[p] # "concluida")
    /\ ator[a].passo \in {"anunciando", "lendo", "registrando"} => status[p] = "aprovado"
    /\ ator[a].passo = "anunciando" => anuncios[p] = 0

\* The winner of the approval is alone in announcing it.
AnunciaSozinho ==
    \A a, b \in Atores :
        ator[a].passo = "anunciando" /\ ator[b].passo = "anunciando" /\ ator[a].p = ator[b].p
            => a = b

\* What the status of a payment says of its charge and of its effects.
SabeDoPagamento(p) ==
    /\ status[p] = "aprovado" => cobranca[p] = "concluida"
    /\ status[p] = "rejeitado" =>
          p \in vencida /\ (p \in PagaDepois \/ cobranca[p] # "concluida")
    /\ status[p] # "aprovado" => anuncios[p] = 0 /\ registros[p] = 0

IInv ==
    /\ TypeOK
    /\ \A a \in Atores : SabeDoAtor(a)
    /\ AnunciaSozinho
    /\ \A p \in Pagamentos : SabeDoPagamento(p)

-----------------------------------------------------------------------------
\* The initial states satisfy the invariant.
LEMMA IInvInicial == Init => IInv
<1> SUFFICES ASSUME Init PROVE IInv
    OBVIOUS
<1> USE DEF Init, Livre
<1>1. TypeOK
    BY SuposicaoCobranca DEF TypeOK, Passos, Arq!EstadosDoArquivo, Arq!ArquivoInicial
<1>2. \A a \in Atores : SabeDoAtor(a)
    BY DEF SabeDoAtor
<1>3. AnunciaSozinho
    BY DEF AnunciaSozinho
<1>4. \A p \in Pagamentos : SabeDoPagamento(p)
    BY DEF SabeDoPagamento
<1> QED BY <1>1, <1>2, <1>3, <1>4 DEF IInv

TipoDoAtor == [passo : Passos, p : Pagamentos \cup {Ninguem}, e2e : BOOLEAN,
               fila : SUBSET Pagamentos, saida : {"nenhuma", "ok", "erro"}]

\* An actor that changes no payment and no charge keeps the invariant, if what it
\* knows at its new step holds and it is not about to announce.
LEMMA SoOAtorAnda ==
    ASSUME IInv, NEW a \in Atores,
           ator' \in [Atores -> TipoDoAtor], \A b \in Atores : b # a => ator'[b] = ator[b],
           SabeDoAtor(a)', ator'[a].passo # "anunciando",
           UNCHANGED <<cobranca, vencida, status, anuncios, registros>>,
           reserva' \in [Pagamentos -> Atores \cup {Ninguem}],
           arquivo' \in Arq!EstadosDoArquivo, falhas' \in 0..MaxFalhas
    PROVE  IInv'
<1>1. TypeOK'
    BY DEF IInv, TypeOK, TipoDoAtor, Arq!EstadosDoArquivo
<1>2. \A b \in Atores : SabeDoAtor(b)'
    <2> TAKE b \in Atores
    <2>1. CASE b = a
        BY <2>1
    <2>2. CASE b # a
        BY <2>2 DEF IInv, TypeOK, SabeDoAtor
    <2> QED BY <2>1, <2>2
<1>3. AnunciaSozinho'
    BY DEF IInv, TypeOK, AnunciaSozinho
<1>4. \A p \in Pagamentos : SabeDoPagamento(p)'
    BY DEF IInv, TypeOK, SabeDoPagamento
<1> QED BY <1>1, <1>2, <1>3, <1>4 DEF IInv

\* The actor goes on with the same payment and the same batch.
Andou(a) ==
    /\ ator' \in [Atores -> TipoDoAtor] /\ \A b \in Atores : b # a => ator'[b] = ator[b]
    /\ ator'[a].p = ator[a].p /\ ator'[a].fila = ator[a].fila

LEMMA IrAnda ==
    ASSUME TypeOK, NEW a \in Atores, NEW x \in Passos, Ir(a, x)
    PROVE  Andou(a) /\ ator'[a].passo = x
BY DEF TypeOK, TipoDoAtor, Ir, Andou

LEMMA SairAnda ==
    ASSUME TypeOK, NEW a \in Atores, NEW s \in {"nenhuma", "ok", "erro"}, Sair(a, s)
    PROVE  Andou(a) /\ ator'[a].passo = "encerrando"
BY DEF TypeOK, TipoDoAtor, Sair, Andou, Passos

\* The steps that leave the payment alone, each with what its actor must know.
LEMMA AtorAnda ==
    ASSUME IInv, NEW a \in Atores, Andou(a), ator[a].passo # "livre",
           \/ ator'[a].passo = "encerrando"
           \/ ator'[a].passo = "aprovando" /\ cobranca[ator[a].p] = "concluida"
           \/ /\ ator'[a].passo = "rejeitando" /\ a \in Varreduras
              /\ cobranca[ator[a].p] # "concluida"
           \/ ator'[a].passo = "consultando"
           \/ ator'[a].passo \in {"lendo", "registrando"} /\ status[ator[a].p] = "aprovado",
           UNCHANGED <<cobranca, vencida, status, anuncios, registros>>,
           reserva' \in [Pagamentos -> Atores \cup {Ninguem}],
           arquivo' \in Arq!EstadosDoArquivo, falhas' \in 0..MaxFalhas
    PROVE  IInv'
<1>1. SabeDoAtor(a)
    BY DEF IInv
<1>2. SabeDoAtor(a)'
    BY <1>1 DEF SabeDoAtor, Andou
<1> QED BY <1>2, SoOAtorAnda DEF Andou

\* The four writes to a payment, each with the step its actor leaves and reaches.
LEMMA AtorEscreve ==
    ASSUME IInv, NEW a \in Atores, NEW p \in Pagamentos, ator[a].p = p,
           Andou(a), UNCHANGED <<cobranca, vencida, reserva, arquivo, falhas>>,
           \/ /\ ator[a].passo = "aprovando" /\ ator'[a].passo = "anunciando"
              /\ status[p] = "pendente" /\ status' = [status EXCEPT ![p] = "aprovado"]
              /\ UNCHANGED <<anuncios, registros>>
           \/ /\ ator[a].passo = "rejeitando" /\ ator'[a].passo = "encerrando"
              /\ status[p] = "pendente" /\ status' = [status EXCEPT ![p] = "rejeitado"]
              /\ UNCHANGED <<anuncios, registros>>
           \/ /\ ator[a].passo = "anunciando" /\ ator'[a].passo = "lendo"
              /\ anuncios' = [anuncios EXCEPT ![p] = @ + 1] /\ UNCHANGED <<status, registros>>
           \/ /\ ator[a].passo = "registrando" /\ ator'[a].passo = "encerrando"
              /\ registros' = [registros EXCEPT ![p] = 1] /\ UNCHANGED <<status, anuncios>>
    PROVE  IInv'
<1> USE DEF IInv, TypeOK, Andou
<1>1. TypeOK'
    <2>1. /\ status' \in [Pagamentos -> {"pendente", "aprovado", "rejeitado"}]
          /\ anuncios' \in [Pagamentos -> {0, 1}]
          /\ registros' \in [Pagamentos -> {0, 1}]
        BY DEF SabeDoAtor
    <2> QED BY <2>1 DEF TipoDoAtor, Arq!EstadosDoArquivo
<1>2. \A b \in Atores : SabeDoAtor(b)'
    <2>1. SabeDoAtor(a)
        OBVIOUS
    <2>2. SabeDoAtor(a)'
        <3>1. CASE ator'[a].passo = "encerrando"
            BY <2>1, <3>1 DEF SabeDoAtor
        <3>2. CASE ator[a].passo = "aprovando"
            BY <2>1, <3>2 DEF SabeDoAtor, SabeDoPagamento
        <3>3. CASE ator[a].passo = "anunciando"
            BY <2>1, <3>3 DEF SabeDoAtor
        <3> QED BY <3>1, <3>2, <3>3
    <2>3. ASSUME NEW b \in Atores, b # a PROVE SabeDoAtor(b)'
        BY <2>1, <2>3 DEF SabeDoAtor, AnunciaSozinho, SabeDoPagamento
    <2> QED BY <2>2, <2>3
<1>3. AnunciaSozinho'
    BY DEF AnunciaSozinho, SabeDoAtor
<1>4. \A q \in Pagamentos : SabeDoPagamento(q)'
    BY DEF SabeDoPagamento, SabeDoAtor
<1> QED BY <1>1, <1>2, <1>3, <1>4

-----------------------------------------------------------------------------
\* Every step keeps the invariant.
LEMMA IInvPasso == IInv /\ [Next]_vars => IInv'
<1> SUFFICES ASSUME IInv, [Next]_vars PROVE IInv'
    OBVIOUS
<1>t. TypeOK
    BY DEF IInv
<1>l. Livre \in TipoDoAtor /\ Livre.passo = "livre"
    BY DEF Livre, TipoDoAtor, Passos
<1>q. Arq!EstadosDoArquivo' = Arq!EstadosDoArquivo
    BY DEF Arq!EstadosDoArquivo
<1>1. ASSUME NEW p \in Pagamentos,
             Pagar(p) \/ Remover(p) \/ Expirar(p) \/ VencerReserva(p) \/ VencerCerca(p)
      PROVE  IInv'
    <2>1. TypeOK'
        <3>1. CASE VencerCerca(p)
            BY <1>t, <3>1 DEF TypeOK, VencerCerca, Arq!VencerCerca, Arq!EstadosDoArquivo,
               PagamentoMudo
        <3>2. CASE Pagar(p) \/ Remover(p) \/ Expirar(p) \/ VencerReserva(p)
            BY <1>t, <1>q, <3>2 DEF TypeOK, Pagar, Remover, Expirar, VencerReserva, PagamentoMudo
        <3> QED BY <1>1, <3>1, <3>2
    <2>2. /\ \A a \in Atores : SabeDoAtor(a)'
          /\ AnunciaSozinho'
          /\ \A q \in Pagamentos : SabeDoPagamento(q)'
        <3>1. CASE Pagar(p)
            BY <3>1 DEF IInv, TypeOK, Pagar, PagamentoMudo, SabeDoAtor, AnunciaSozinho,
               SabeDoPagamento
        <3>2. CASE Remover(p)
            BY <3>2 DEF IInv, TypeOK, Remover, PagamentoMudo, SabeDoAtor, AnunciaSozinho,
               SabeDoPagamento
        <3>3. CASE Expirar(p) \/ VencerReserva(p) \/ VencerCerca(p)
            BY <3>3 DEF IInv, TypeOK, Expirar, VencerReserva, VencerCerca, PagamentoMudo,
               SabeDoAtor, AnunciaSozinho, SabeDoPagamento
        <3> QED BY <1>1, <3>1, <3>2, <3>3
    <2> QED BY <2>1, <2>2 DEF IInv
<1>2. ASSUME NEW a \in Atores, Cair(a) \/ Falhar(a) PROVE IInv'
    <2>1. CASE Cair(a)
        <3>1. /\ ator' \in [Atores -> TipoDoAtor] /\ \A b \in Atores : b # a => ator'[b] = ator[b]
              /\ ator'[a].passo = "livre"
            BY <1>t, <2>1 DEF TypeOK, TipoDoAtor, Cair, Livre, Passos
        <3>2. SabeDoAtor(a)'
            BY <3>1 DEF SabeDoAtor
        <3>3. falhas' \in 0..MaxFalhas
            BY <1>t, <2>1, SuposicaoCobranca DEF Cair, TypeOK
        <3> QED BY <1>t, <1>q, <2>1, <3>1, <3>2, <3>3, SoOAtorAnda DEF Cair, TypeOK, PagamentoMudo
    <2>2. CASE Falhar(a)
        <3>1. Andou(a) /\ ator'[a].passo = "encerrando" /\ ator[a].passo # "livre"
            BY <1>t, <2>2, SairAnda DEF Falhar
        <3>2. falhas' \in 0..MaxFalhas
            BY <1>t, <2>2, SuposicaoCobranca DEF Falhar, TypeOK
        <3> QED BY <1>t, <1>q, <2>2, <3>1, <3>2, AtorAnda DEF Falhar, TypeOK, PagamentoMudo
    <2> QED BY <1>2, <2>1, <2>2
<1>3. ASSUME NEW w \in Webhooks, NEW p \in Pagamentos, Receber(w, p) PROVE IInv'
    <2>1. /\ ator' \in [Atores -> TipoDoAtor] /\ \A b \in Atores : b # w => ator'[b] = ator[b]
          /\ ator'[w].passo = "vinculando" /\ ator'[w].p = p /\ w \in Atores \ Varreduras
        BY <1>t, <1>3, SuposicaoCobranca DEF TypeOK, TipoDoAtor, Receber, Livre, Passos, Atores
    <2>2. SabeDoAtor(w)'
        BY <2>1 DEF SabeDoAtor
    <2>3. arquivo' \in Arq!EstadosDoArquivo
        BY <1>t, <1>3 DEF TypeOK, Receber, Arq!Reclamar, Arq!EstadosDoArquivo
    <2> QED BY <1>t, <1>3, <2>1, <2>2, <2>3, SoOAtorAnda DEF Receber, TypeOK, PagamentoMudo
<1>f. ASSUME NEW w \in Webhooks, NEW p \in Pagamentos, ReceberForjada(w, p) PROVE IInv'
    <2>1. /\ ator' \in [Atores -> TipoDoAtor] /\ \A b \in Atores : b # w => ator'[b] = ator[b]
          /\ ator'[w].passo = "vinculando" /\ ator'[w].p = p /\ w \in Atores \ Varreduras
        BY <1>t, <1>f, SuposicaoCobranca
           DEF TypeOK, TipoDoAtor, ReceberForjada, Livre, Passos, Atores
    <2>2. SabeDoAtor(w)'
        BY <2>1 DEF SabeDoAtor
    <2>3. falhas' \in 0..MaxFalhas
        BY <1>t, <1>f, SuposicaoCobranca DEF ReceberForjada, TypeOK
    <2> QED BY <1>t, <1>q, <1>f, <2>1, <2>2, <2>3, SoOAtorAnda
            DEF ReceberForjada, TypeOK, PagamentoMudo
<1>4. ASSUME NEW v \in Varreduras, Varrer(v) PROVE IInv'
    <2>1. PICK p \in Candidatas :
             ator' = [ator EXCEPT ![v] = [Livre EXCEPT !.passo = "consultando", !.p = p,
                                                       !.fila = Candidatas \ {p}]]
        BY <1>4 DEF Varrer
    <2>2. /\ ator' \in [Atores -> TipoDoAtor] /\ \A b \in Atores : b # v => ator'[b] = ator[b]
          /\ ator'[v].passo = "consultando" /\ ator'[v].p = p
          /\ ator'[v].fila = Candidatas \ {p} /\ v \in Atores
        BY <1>t, <2>1 DEF TypeOK, TipoDoAtor, Livre, Passos, Atores, Candidatas
    <2>3. SabeDoAtor(v)'
        BY <1>4, <2>2 DEF SabeDoAtor, Candidatas, Varrer
    <2>4. reserva' \in [Pagamentos -> Atores \cup {Ninguem}]
        BY <1>t, <1>4 DEF TypeOK, Varrer, Atores
    <2> QED BY <1>t, <1>4, <2>2, <2>3, <2>4, SoOAtorAnda DEF Varrer, TypeOK, PagamentoMudo
<1>5. ASSUME NEW a \in Atores, PassoComum(a) PROVE IInv'
    <2>0. SabeDoAtor(a) /\ "encerrando" \in Passos
        BY DEF IInv, Passos
    <2>1. CASE Consultar(a)
        <3>1. Andou(a) /\ ator[a].passo # "livre"
              /\ \/ ator'[a].passo = "aprovando" /\ cobranca[ator[a].p] = "concluida"
                 \/ /\ ator'[a].passo = "rejeitando" /\ a \in Varreduras
                    /\ cobranca[ator[a].p] # "concluida"
                 \/ ator'[a].passo = "encerrando"
            BY <1>t, <2>1, IrAnda, SairAnda DEF Consultar, Em, Passos
        <3> QED BY <1>t, <1>q, <2>1, <3>1, AtorAnda DEF Consultar, SoAtor, PagamentoMudo, TypeOK
    <2>2. CASE Aprovar(a)
        <3>1. CASE status[ator[a].p] = "pendente"
            <4>1. Andou(a) /\ ator'[a].passo = "anunciando" /\ ator[a].p \in Pagamentos
                BY <1>t, <2>0, <2>2, <3>1, IrAnda DEF Aprovar, Em, Passos, SabeDoAtor
            <4> QED BY <2>2, <3>1, <4>1, AtorEscreve DEF Aprovar, SoAtor, Em
        <3>2. CASE status[ator[a].p] # "pendente"
            <4>1. Andou(a) /\ ator[a].passo # "livre"
                  /\ \/ ator'[a].passo = "encerrando"
                     \/ ator'[a].passo = "lendo" /\ status[ator[a].p] = "aprovado"
                BY <1>t, <2>2, <3>2, IrAnda, SairAnda DEF Aprovar, Em, Passos
            <4> QED BY <1>t, <1>q, <2>2, <3>2, <4>1, AtorAnda DEF Aprovar, SoAtor, TypeOK
        <3> QED BY <3>1, <3>2
    <2>3. CASE Anunciar(a)
        <3>1. Andou(a) /\ ator'[a].passo = "lendo" /\ ator[a].p \in Pagamentos
            BY <1>t, <2>0, <2>3, IrAnda DEF Anunciar, Em, Passos, SabeDoAtor
        <3> QED BY <2>3, <3>1, AtorEscreve DEF Anunciar, SoAtor, Em
    <2>4. CASE LerLivro(a)
        <3>1. Andou(a) /\ ator[a].passo # "livre" /\ status[ator[a].p] = "aprovado"
              /\ ator'[a].passo \in {"encerrando", "registrando"}
            BY <1>t, <2>0, <2>4, IrAnda, SairAnda DEF LerLivro, Em, Passos, SabeDoAtor
        <3> QED BY <1>t, <1>q, <2>4, <3>1, AtorAnda DEF LerLivro, SoAtor, PagamentoMudo, TypeOK
    <2>5. CASE Registrar(a)
        <3>1. Andou(a) /\ ator'[a].passo = "encerrando" /\ ator[a].p \in Pagamentos
              /\ ator[a].passo = "registrando"
            BY <1>t, <2>0, <2>5, SairAnda DEF Registrar, Em, SabeDoAtor
        <3>2. CASE registros[ator[a].p] = 0
            BY <1>t, <2>5, <3>1, <3>2, AtorEscreve DEF Registrar, SoAtor, TypeOK
        <3>3. CASE registros[ator[a].p] # 0
            BY <1>t, <1>q, <2>5, <3>1, <3>3, AtorAnda DEF Registrar, SoAtor, TypeOK
        <3> QED BY <3>2, <3>3
    <2> QED BY <1>5, <2>1, <2>2, <2>3, <2>4, <2>5 DEF PassoComum
<1>6. ASSUME NEW w \in Webhooks, Vincular(w) \/ Responder(w) PROVE IInv'
    <2>1. w \in Atores
        BY DEF Atores
    <2>2. CASE Vincular(w)
        <3>1. /\ Andou(w) /\ ator[w].passo # "livre"
              /\ ator'[w].passo \in {"encerrando", "consultando"}
            BY <1>t, <2>1, <2>2, IrAnda, SairAnda DEF Vincular, Em, Passos
        <3>2. reserva' \in [Pagamentos -> Atores \cup {Ninguem}]
            BY <1>t, <2>1, <2>2 DEF Vincular, TypeOK
        <3> QED BY <1>t, <1>q, <2>1, <2>2, <3>1, <3>2, AtorAnda DEF Vincular, PagamentoMudo, TypeOK
    <2>3. CASE Responder(w)
        <3>1. /\ ator' \in [Atores -> TipoDoAtor] /\ \A b \in Atores : b # w => ator'[b] = ator[b]
              /\ ator'[w].passo = "livre"
            <4>1. ator' = [ator EXCEPT ![w] = Livre]
                BY <2>3 DEF Responder
            <4> QED BY <1>t, <1>l, <2>1, <4>1 DEF TypeOK, TipoDoAtor
        <3>2. SabeDoAtor(w)'
            BY <3>1 DEF SabeDoAtor
        <3>3. arquivo' \in Arq!EstadosDoArquivo
            <4>1. arquivo \in Arq!EstadosDoArquivo
                BY <1>t DEF TypeOK
            <4>2. CASE Arq!Concluir(ator[w].p, w)
                BY <4>1, <4>2 DEF Arq!Concluir, Arq!EstadosDoArquivo
            <4>3. CASE Arq!Recusar(ator[w].p, w)
                BY <4>1, <4>3 DEF Arq!Recusar, Arq!EstadosDoArquivo
            <4>4. CASE UNCHANGED arquivo
                BY <1>q, <4>1, <4>4
            <4> QED BY <2>3, <4>2, <4>3, <4>4 DEF Responder
        <3> QED BY <1>t, <2>1, <2>3, <3>1, <3>2, <3>3, SoOAtorAnda
                DEF Responder, TypeOK, PagamentoMudo
    <2> QED BY <1>6, <2>2, <2>3
<1>7. ASSUME NEW v \in Varreduras, Rejeitar(v) \/ Liberar(v) PROVE IInv'
    <2>1. v \in Atores
        BY DEF Atores
    <2>2. CASE Rejeitar(v)
        <3>1. Andou(v) /\ ator'[v].passo = "encerrando" /\ ator[v].p \in Pagamentos
              /\ ator[v].passo = "rejeitando"
            BY <1>t, <2>1, <2>2, SairAnda DEF Rejeitar, Em, IInv, SabeDoAtor
        <3>2. CASE status[ator[v].p] = "pendente"
            BY <2>1, <2>2, <3>1, <3>2, AtorEscreve DEF Rejeitar, SoAtor
        <3>3. CASE status[ator[v].p] # "pendente"
            BY <1>t, <1>q, <2>1, <2>2, <3>1, <3>3, AtorAnda DEF Rejeitar, SoAtor, TypeOK
        <3> QED BY <3>2, <3>3
    <2>3. CASE Liberar(v)
        <3>1. SabeDoAtor(v)
            BY <2>1 DEF IInv
        <3>2. /\ ator' \in [Atores -> TipoDoAtor] /\ \A b \in Atores : b # v => ator'[b] = ator[b]
              /\ ator'[v].passo \in {"livre", "consultando"}
              /\ ator'[v].passo = "consultando" =>
                    ator'[v].p \in ator[v].fila /\ ator'[v].fila \subseteq ator[v].fila
              /\ ator[v].fila \subseteq Pagamentos
            <4>1. CASE ator[v].fila = {} /\ ator' = [ator EXCEPT ![v] = Livre]
                BY <1>t, <1>l, <2>1, <4>1 DEF TypeOK, TipoDoAtor
            <4>2. ASSUME NEW q \in ator[v].fila,
                         ator' = [ator EXCEPT ![v] =
                            [Livre EXCEPT !.passo = "consultando", !.p = q,
                                          !.fila = ator[v].fila \ {q}]]
                  PROVE  /\ ator' \in [Atores -> TipoDoAtor]
                         /\ \A b \in Atores : b # v => ator'[b] = ator[b]
                         /\ ator'[v].passo = "consultando" /\ ator'[v].p = q
                         /\ ator'[v].fila \subseteq ator[v].fila
                BY <1>t, <1>l, <2>1, <4>2 DEF TypeOK, TipoDoAtor, Passos, Livre
            <4>3. ator[v].fila \subseteq Pagamentos
                BY <1>t, <2>1 DEF TypeOK
            <4>4. CASE \E q \in ator[v].fila :
                          ator' = [ator EXCEPT ![v] =
                            [Livre EXCEPT !.passo = "consultando", !.p = q,
                                          !.fila = ator[v].fila \ {q}]]
                BY <4>2, <4>3, <4>4
            <4> QED BY <2>3, <4>1, <4>3, <4>4 DEF Liberar
        <3>3. SabeDoAtor(v)'
            BY <2>3, <3>1, <3>2 DEF SabeDoAtor, Liberar, Em
        <3> QED BY <1>t, <2>1, <2>3, <3>2, <3>3, SoOAtorAnda DEF Liberar, TypeOK, PagamentoMudo
    <2> QED BY <1>7, <2>2, <2>3
<1>8. CASE UNCHANGED vars
    BY <1>8, <1>q DEF IInv, TypeOK, SabeDoAtor, AnunciaSozinho, SabeDoPagamento, vars
<1>9. Webhooks \subseteq Atores /\ Varreduras \subseteq Atores
    BY DEF Atores
<1> QED BY <1>1, <1>2, <1>3, <1>f, <1>4, <1>5, <1>6, <1>7, <1>8, <1>9
        DEF Next, PassoDoWebhook, PassoDaVarredura

\* The invariant holds of every behaviour.
THEOREM InvarianteCorreto == Spec => []IInv
<1>1. Init => IInv
    BY IInvInicial
<1>2. IInv /\ [Next]_vars => IInv'
    BY IInvPasso
<1> QED BY <1>1, <1>2, PTL DEF Spec

\* Charges, leases, archive and actors keep their types, and no approval is
\* announced twice nor registered twice, whatever expires or dies.
THEOREM TipoCorreto == Spec => []TypeOK
<1>1. IInv => TypeOK
    BY DEF IInv
<1> QED BY <1>1, InvarianteCorreto, PTL

\* Every approved payment was concluded at Banco Inter.
THEOREM AprovacaoPaga == Spec => []AprovadoPago
<1>1. IInv => AprovadoPago
    BY DEF IInv, SabeDoPagamento, AprovadoPago
<1> QED BY <1>1, InvarianteCorreto, PTL

\* No charge Banco Inter settles in time is rejected.
THEOREM RejeicaoNaoPaga == Spec => []RejeitadoNaoPago
<1>1. IInv => RejeitadoNaoPago
    BY DEF IInv, SabeDoPagamento, RejeitadoNaoPago
<1> QED BY <1>1, InvarianteCorreto, PTL

\* The steps of actors that MaquinaPagamento does not see.
LEMMA PassoMudo == PagamentoMudo => UNCHANGED Maquina!maquinaVars
BY DEF PagamentoMudo, Maquina!maquinaVars

\* Webhooks and sweeps together implement the machine of a payment.
THEOREM CobrancaImplementaMaquina == Spec => ImplementaMaquina
<1>1. Init => Maquina!Init
    BY DEF Init, Maquina!Init
<1>2. IInv /\ [Next]_vars => [Maquina!Next]_Maquina!maquinaVars
    <2> SUFFICES ASSUME IInv, [Next]_vars
                 PROVE  Maquina!Next \/ UNCHANGED Maquina!maquinaVars
        OBVIOUS
    <2> USE DEF Maquina!Next, Maquina!maquinaVars
    <2>1. ASSUME NEW a \in Atores, PassoComum(a)
          PROVE  Maquina!Next \/ UNCHANGED Maquina!maquinaVars
        <3>0. SabeDoAtor(a) /\ TypeOK
            BY DEF IInv
        <3>1. CASE Consultar(a) \/ LerLivro(a)
            BY <3>1 DEF Consultar, LerLivro, PagamentoMudo
        <3>2. CASE Aprovar(a)
            <4>1. ator[a].p \in Pagamentos
                BY <3>0, <3>2 DEF Aprovar, Em, SabeDoAtor
            <4>2. CASE status[ator[a].p] = "pendente"
                <5>1. Maquina!Aprovar(ator[a].p)
                    BY <3>2, <4>2 DEF Aprovar, Maquina!Aprovar, Maquina!Mudar
                <5> QED BY <4>1, <5>1
            <4>3. CASE status[ator[a].p] # "pendente"
                BY <3>2, <4>3 DEF Aprovar
            <4> QED BY <4>2, <4>3
        <3>3. CASE Anunciar(a)
            <4>1. ator[a].p \in Pagamentos /\ status[ator[a].p] = "aprovado"
                  /\ anuncios[ator[a].p] = 0
                BY <3>0, <3>3 DEF Anunciar, Em, SabeDoAtor
            <4>2. Maquina!Anunciar(ator[a].p)
                BY <3>3, <4>1 DEF Anunciar, Maquina!Anunciar
            <4> QED BY <4>1, <4>2
        <3>4. CASE Registrar(a)
            <4>1. ator[a].p \in Pagamentos /\ status[ator[a].p] = "aprovado"
                BY <3>0, <3>4 DEF Registrar, Em, SabeDoAtor
            <4>2. Maquina!Registrar(ator[a].p) \/ UNCHANGED Maquina!maquinaVars
                BY <3>0, <3>4, <4>1 DEF Registrar, Maquina!Registrar, TypeOK
            <4> QED BY <4>1, <4>2
        <3> QED BY <2>1, <3>1, <3>2, <3>3, <3>4 DEF PassoComum
    <2>2. ASSUME NEW v \in Varreduras, Rejeitar(v)
          PROVE  Maquina!Next \/ UNCHANGED Maquina!maquinaVars
        <3>1. ator[v].p \in Pagamentos
            BY <2>2 DEF IInv, SabeDoAtor, Rejeitar, Em, Atores
        <3>2. Maquina!Rejeitar(ator[v].p) \/ UNCHANGED Maquina!maquinaVars
            BY <2>2 DEF Rejeitar, Maquina!Rejeitar, Maquina!Mudar
        <3> QED BY <3>1, <3>2
    <2>3. ASSUME NEW p \in Pagamentos,
                 Pagar(p) \/ Remover(p) \/ Expirar(p) \/ VencerReserva(p) \/ VencerCerca(p)
          PROVE  PagamentoMudo
        BY <2>3 DEF Pagar, Remover, Expirar, VencerReserva, VencerCerca
    <2>4. ASSUME NEW a \in Atores, Cair(a) \/ Falhar(a) PROVE PagamentoMudo
        BY <2>4 DEF Cair, Falhar
    <2>5. ASSUME NEW w \in Webhooks, NEW p \in Pagamentos, Receber(w, p) \/ ReceberForjada(w, p)
          PROVE  PagamentoMudo
        BY <2>5 DEF Receber, ReceberForjada
    <2>6. ASSUME NEW w \in Webhooks, Vincular(w) \/ Responder(w) PROVE PagamentoMudo
        BY <2>6 DEF Vincular, Responder
    <2>7. ASSUME NEW v \in Varreduras, Varrer(v) \/ Liberar(v) PROVE PagamentoMudo
        BY <2>7 DEF Varrer, Liberar
    <2>8. CASE UNCHANGED vars
        BY <2>8 DEF vars
    <2>9. Webhooks \subseteq Atores /\ Varreduras \subseteq Atores
        BY DEF Atores
    <2> QED BY <2>1, <2>2, <2>3, <2>4, <2>5, <2>6, <2>7, <2>8, <2>9, PassoMudo
            DEF Next, PassoDoWebhook, PassoDaVarredura
<1> QED BY <1>1, <1>2, InvarianteCorreto, PTL DEF Spec, ImplementaMaquina, Maquina!Spec

-----------------------------------------------------------------------------
(* Only a failure leaves an approved payment out of the ledger *)

\* The actor will insert the rows of the payment, or find them.
Leva(a, p) == ator[a].p = p /\ ator[a].passo \in {"anunciando", "lendo", "registrando"}

\* Approved payments without rows that no actor is about to register.
SemRegistro ==
    {p \in Pagamentos :
        status[p] = "aprovado" /\ registros[p] = 0 /\ ~\E a \in Atores : Leva(a, p)}

\* No step but a crash or a failed call leaves a payment behind.
LEMMA NinguemLarga ==
    ASSUME IInv, [Next]_vars, NEW p \in SemRegistro', p \notin SemRegistro
    PROVE  \E a \in Atores : Cair(a) \/ Falhar(a)
<1>t. TypeOK /\ p \in Pagamentos
    BY DEF IInv, SemRegistro
<1>0. /\ status'[p] = "aprovado" /\ registros'[p] = 0
      /\ ~\E a \in Atores : Leva(a, p)'
    BY DEF SemRegistro
<1>1. \/ status[p] # "aprovado" \/ registros[p] # 0
      \/ \E a \in Atores : Leva(a, p)
    BY <1>t DEF SemRegistro
\* What a step would have to do to leave p behind.
<1>2. ASSUME UNCHANGED <<status, registros>>,
             NEW a \in Atores, \A b \in Atores : b # a => ator'[b] = ator[b]
      PROVE  Leva(a, p) /\ ~Leva(a, p)'
    BY <1>0, <1>1, <1>2 DEF Leva
<1>3. ~(UNCHANGED <<status, registros, ator>>)
    BY <1>0, <1>1 DEF Leva
<1>4. ASSUME NEW a \in Atores, PassoComum(a) \/ (a \in Varreduras /\ Rejeitar(a))
      PROVE  FALSE
    <2>0. \A b \in Atores : b # a => ator'[b] = ator[b]
        BY <1>t, <1>4 DEF PassoComum, Consultar, Aprovar, Anunciar, LerLivro, Registrar, Rejeitar,
           Ir,
           Sair, TypeOK
    <2>1. CASE Consultar(a)
        BY <1>2, <2>0, <2>1 DEF Consultar, PagamentoMudo, Em, Leva
    <2>2. CASE Aprovar(a)
        <3>1. CASE ator[a].p = p /\ status[p] # "aprovado"
            <4>1. Ir(a, "anunciando")
                BY <1>0, <2>2, <3>1 DEF Aprovar
            <4>2. Leva(a, p)'
                BY <1>t, <3>1, <4>1, IrAnda DEF Leva, Andou, Passos
            <4> QED BY <1>0, <4>2
        <3>2. CASE ator[a].p # p \/ status[p] = "aprovado"
            <4>1. status'[p] = status[p] /\ registros' = registros
                BY <1>t, <2>2, <3>2 DEF Aprovar, TypeOK
            <4>2. ~Leva(a, p) /\ \A b \in Atores : b # a => (Leva(b, p)' <=> Leva(b, p))
                BY <2>0, <2>2 DEF Aprovar, Em, Leva
            <4> QED BY <1>0, <1>1, <4>1, <4>2
        <3> QED BY <3>1, <3>2
    <2>3. CASE Anunciar(a)
        <3>1. Leva(a, p) => Leva(a, p)'
            BY <1>t, <2>3, IrAnda DEF Anunciar, Leva, Andou, Passos
        <3> QED BY <1>2, <2>0, <2>3, <3>1 DEF Anunciar
    <2>4. CASE LerLivro(a)
        <3>1. Leva(a, p) => Leva(a, p)'
            <4>1. SUFFICES ASSUME Leva(a, p) PROVE Leva(a, p)'
                OBVIOUS
            <4>2. registros[ator[a].p] = 0
                BY <1>0, <2>4, <4>1 DEF LerLivro, PagamentoMudo, Leva
            <4>3. Ir(a, "registrando")
                BY <2>4, <4>2 DEF LerLivro
            <4> QED BY <1>t, <4>1, <4>3, IrAnda DEF Leva, Andou, Passos
        <3> QED BY <1>2, <2>0, <2>4, <3>1 DEF LerLivro, PagamentoMudo
    <2>5. CASE Registrar(a)
        <3>1. ator[a].p # p
            BY <1>t, <1>0, <2>5 DEF Registrar, TypeOK
        <3>2. ~Leva(a, p) /\ \A b \in Atores : b # a => (Leva(b, p)' <=> Leva(b, p))
            BY <2>0, <3>1 DEF Leva
        <3>3. status'[p] = status[p] /\ registros'[p] = registros[p]
            BY <1>t, <2>5, <3>1 DEF Registrar, TypeOK
        <3> QED BY <1>0, <1>1, <3>2, <3>3
    <2>6. CASE Rejeitar(a)
        <3>1. status'[p] = status[p] /\ registros' = registros
            BY <1>t, <1>0, <2>6 DEF Rejeitar, TypeOK
        <3>2. ~Leva(a, p) /\ \A b \in Atores : b # a => (Leva(b, p)' <=> Leva(b, p))
            BY <2>0, <2>6 DEF Rejeitar, Em, Leva
        <3> QED BY <1>0, <1>1, <3>1, <3>2
    <2> QED BY <1>4, <2>1, <2>2, <2>3, <2>4, <2>5, <2>6 DEF PassoComum
<1>5. ASSUME NEW a \in Atores,
             \/ a \in Webhooks /\ (Vincular(a) \/ Responder(a))
             \/ a \in Webhooks /\ \E q \in Pagamentos : Receber(a, q) \/ ReceberForjada(a, q)
             \/ a \in Varreduras /\ (Liberar(a) \/ Varrer(a))
      PROVE  FALSE
    <2>1. UNCHANGED <<status, registros>> /\ ~Leva(a, p)
        BY <1>5 DEF Vincular, Responder, Receber, ReceberForjada, Liberar, Varrer, PagamentoMudo,
           Em, Leva
    <2>2. \A b \in Atores : b # a => ator'[b] = ator[b]
        BY <1>t, <1>5 DEF Vincular, Responder, Receber, ReceberForjada, Liberar, Varrer, TypeOK,
           Ir, Sair
    <2> QED BY <1>2, <2>1, <2>2
<1>6. ASSUME \/ UNCHANGED vars
             \/ \E q \in Pagamentos :
                   Pagar(q) \/ Remover(q) \/ Expirar(q) \/ VencerReserva(q) \/ VencerCerca(q)
      PROVE  FALSE
    BY <1>3, <1>6 DEF vars, Pagar, Remover, Expirar, VencerReserva, VencerCerca, PagamentoMudo
<1> QED BY <1>4, <1>5, <1>6 DEF Next, PassoDoWebhook, PassoDaVarredura, Atores

\* A crash or a failed call leaves behind no payment but the one its actor has.
LEMMA QuedaLargaSoOSeu ==
    ASSUME TypeOK, NEW a \in Atores, Cair(a) \/ Falhar(a)
    PROVE  SemRegistro' \subseteq SemRegistro \cup {ator[a].p}
<1>1. /\ UNCHANGED <<status, registros>>
      /\ \A b \in Atores : b # a => ator'[b] = ator[b]
    BY DEF Cair, Falhar, PagamentoMudo, TypeOK, Sair
<1>2. ASSUME NEW p \in SemRegistro', p \notin SemRegistro PROVE ator[a].p = p
    <2>1. status[p] = "aprovado" /\ registros[p] = 0 /\ ~\E b \in Atores : Leva(b, p)'
        BY <1>1, <1>2 DEF SemRegistro
    <2>2. PICK b \in Atores : Leva(b, p)
        BY <1>2, <2>1 DEF SemRegistro
    <2> QED BY <1>1, <2>1, <2>2 DEF Leva
<1> QED BY <1>2

\* Each failure leaves at most one payment behind; forged notifications are counted with
\* the failures, and leave none.
UmaFalhaUmPagamento == IsFiniteSet(SemRegistro) /\ Cardinality(SemRegistro) <= falhas

\* "The retry runs Financeiro" (docs/idempotency-and-concurrency.md) is broken only by
\* a crash or a failed call between approval and ledger, and by each of them for one
\* payment; races of webhooks, sweeps and leases alone never are.
THEOREM SoFalhasDeixamDeRegistrar == Spec => []UmaFalhaUmPagamento
<1>1. Init => UmaFalhaUmPagamento
    <2> SUFFICES ASSUME Init PROVE UmaFalhaUmPagamento
        OBVIOUS
    <2>1. SemRegistro = {} /\ falhas = 0
        BY DEF Init, SemRegistro
    <2> QED BY <2>1, FS_EmptySet DEF UmaFalhaUmPagamento
<1>2. ASSUME IInv, UmaFalhaUmPagamento, [Next]_vars PROVE UmaFalhaUmPagamento'
    <2>t. TypeOK /\ falhas \in Nat /\ IsFiniteSet(SemRegistro)
          /\ Cardinality(SemRegistro) \in Nat /\ Cardinality(SemRegistro) <= falhas
        BY <1>2, SuposicaoCobranca, FS_CardinalityType DEF IInv, TypeOK, UmaFalhaUmPagamento
    <2>1. ASSUME NEW a \in Atores, Cair(a) \/ Falhar(a) PROVE UmaFalhaUmPagamento'
        <3>1. falhas' = falhas + 1
            BY <2>1 DEF Cair, Falhar
        <3>2. SemRegistro' \subseteq SemRegistro \cup {ator[a].p}
            BY <2>t, <2>1, QuedaLargaSoOSeu
        <3>3. /\ IsFiniteSet(SemRegistro \cup {ator[a].p})
              /\ \/ Cardinality(SemRegistro \cup {ator[a].p}) = Cardinality(SemRegistro)
                 \/ Cardinality(SemRegistro \cup {ator[a].p}) = Cardinality(SemRegistro) + 1
            <4> DEFINE q == ator[a].p
            <4> HIDE DEF q
            <4>1. /\ IsFiniteSet(SemRegistro \cup {q})
                  /\ Cardinality(SemRegistro \cup {q}) =
                        IF q \in SemRegistro THEN Cardinality(SemRegistro)
                                            ELSE Cardinality(SemRegistro) + 1
                BY <2>t, FS_AddElement
            <4> QED BY <4>1 DEF q
        <3>4. /\ IsFiniteSet(SemRegistro \cup {ator[a].p})
              /\ Cardinality(SemRegistro \cup {ator[a].p}) <= Cardinality(SemRegistro) + 1
              /\ Cardinality(SemRegistro \cup {ator[a].p}) \in Nat
            BY <2>t, <3>3
        <3>5. /\ IsFiniteSet(SemRegistro')
              /\ Cardinality(SemRegistro') <= Cardinality(SemRegistro \cup {ator[a].p})
              /\ Cardinality(SemRegistro') \in Nat
            BY <3>2, <3>4, FS_Subset, FS_CardinalityType
        <3> QED BY <2>t, <3>1, <3>4, <3>5 DEF UmaFalhaUmPagamento
    <2>2. CASE ~\E a \in Atores : Cair(a) \/ Falhar(a)
        <3>1. falhas' \in {falhas, falhas + 1}
            BY <1>2, <2>2 DEF Next, vars, Pagar, Remover, Expirar, VencerReserva, VencerCerca,
               PassoDoWebhook, PassoDaVarredura, PassoComum, Consultar, Aprovar, Anunciar, LerLivro,
               Registrar, Rejeitar, Receber, ReceberForjada, Vincular, Responder, Varrer, Liberar,
               SoAtor
        <3>2. SemRegistro' \subseteq SemRegistro
            BY <1>2, <2>2, NinguemLarga
        <3>3. /\ IsFiniteSet(SemRegistro')
              /\ Cardinality(SemRegistro') <= Cardinality(SemRegistro)
              /\ Cardinality(SemRegistro') \in Nat
            BY <2>t, <3>2, FS_Subset, FS_CardinalityType
        <3> QED BY <2>t, <3>1, <3>3 DEF UmaFalhaUmPagamento
    <2> QED BY <2>1, <2>2
<1> QED BY <1>1, <1>2, InvarianteCorreto, PTL DEF Spec

=============================================================================
