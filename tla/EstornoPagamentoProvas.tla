----------------------- MODULE EstornoPagamentoProvas -----------------------
(***************************************************************************)
(* Proofs about EstornoPagamento, for any payments, administrators,        *)
(* callbacks and failures.  A payment has one requester at a time, from the*)
(* claim of its devolucao or operation to the record of its outcome; only a*)
(* record that says that nothing was sent, or that what was sent failed,   *)
(* lets the next one in.                                                   *)
(***************************************************************************)
EXTENDS EstornoPagamento, TLAPS

\* Nothing was asked of the provider, or what was asked failed.
Reclamaveis == {"nenhum", "reserved", "provider_failed"}

PassosSoPix == {"criando", "apagando", "consultando", "confirmando", "finalizando", "estornando",
                "cancelando", "verificando"}
PassosSoStripe == {"reservando", "reclamando", "desconhecendo", "convergindo", "observando"}

Pede(a) ==
    \/ ator[a].passo \in {"pedindo", "esperando", "apagando", "desconhecendo"}
    \/ ator[a].passo = "gravando" /\ ~Pix(Pag(a))

\* What the step of an actor says of its payment.
SabeDoAtor(a) ==
    LET p == Pag(a) IN
    /\ ator[a].passo # "livre" => p \in Pagamentos
    /\ ator[a].passo \in PassosSoPix => Pix(p)
    /\ ator[a].passo \in PassosSoStripe => ~Pix(p)
    /\ Pede(a) => registro[p] \notin Reclamaveis
    /\ ator[a].passo \in {"pedindo", "apagando"} =>
          /\ voando[p] = 0
          /\ Pix(p) => banco[p] = "nada" /\ registro[p] = "em_processamento"
          /\ ~Pix(p) => /\ banco[p] \in {"nada", "recusado", "painel"}
                        /\ banco[p] # "painel" => registro[p] = "provider_started"
    /\ ator[a].passo = "gravando" /\ Pix(p) =>
          /\ banco[p] # "nada"
          /\ ator[a].saida \in {"em_processamento+rtr", "devolvida", "nao_realizada", "rejeitada"}
          /\ ator[a].saida = "devolvida" => banco[p] = "devolvido"
          /\ ator[a].saida \in {"nao_realizada", "rejeitada"} => banco[p] = "recusado"
    /\ ator[a].passo = "gravando" /\ ~Pix(p) =>
          /\ voando[p] = 0
          /\ ator[a].saida \in {"provider_pending", "provider_succeeded", "provider_failed"}
          /\ ator[a].saida = "provider_succeeded" => banco[p] = "devolvido"
          /\ ator[a].saida = "provider_failed" => banco[p] \in {"recusado", "painel"}
    /\ ator[a].passo \in {"confirmando", "finalizando", "estornando", "cancelando"} =>
          banco[p] = "devolvido"
    /\ ator[a].passo = "observando" => banco[p] \in {"devolvido", "painel"}

PedeSozinho ==
    \A a, b \in Atores : Pede(a) /\ Pede(b) /\ Pag(a) = Pag(b) => a = b

\* What the record of a payment says of the provider and of its payout.
SabeDoRegistro(p) ==
    /\ voando[p] \in {0, 1}
    /\ devolucoes[p] = IF banco[p] \in {"devolvido", "painel"} THEN 1 ELSE 0
    /\ voando[p] = 1 => banco[p] \in {"nada", "recusado", "painel"}
    /\ Pix(p) =>
          /\ banco[p] # "painel"
          /\ registro[p] = "nenhum" => banco[p] = "nada" /\ voando[p] = 0
          /\ voando[p] = 1 => registro[p] = "em_processamento" /\ banco[p] = "nada"
          /\ registro[p] = "devolvida" => banco[p] = "devolvido"
          /\ registro[p] \in {"nao_realizada", "rejeitada"} => banco[p] = "recusado"
    /\ ~Pix(p) =>
          /\ registro[p] \in {"nenhum", "reserved"} => banco[p] \in {"nada", "painel"}
          /\ registro[p] = "provider_failed" => banco[p] \in {"recusado", "painel"}
          /\ registro[p] \in Reclamaveis => voando[p] = 0
          /\ registro[p] \in {"provider_succeeded", "local_committed"} =>
                banco[p] \in {"devolvido", "painel"}
    /\ banco[p] # "painel" /\ registro[p] \in Bloqueantes => repasse[p] = "fora"
    /\ status[p] = "estornado" \/ cancelado[p] => banco[p] \in {"devolvido", "painel"}

IInv ==
    /\ TypeOK
    /\ \A a \in Atores : SabeDoAtor(a)
    /\ PedeSozinho
    /\ \A p \in Pagamentos : SabeDoRegistro(p)

TipoDoAtor == [passo : Passos, p : Pagamentos \cup {Ninguem}, saida : Registros]

\* The actor a is at this step now, with this payment and this outcome.
Vai(a, passo, q, s) ==
    /\ ator' \in [Atores -> TipoDoAtor]
    /\ ator'[a].passo = passo /\ ator'[a].p = q /\ ator'[a].saida = s
    /\ \A b \in Atores \ {a} : ator'[b] = ator[b]

\* No other actor is requesting for the payment.
PedeSoEste(a, p) == \A b \in Atores \ {a} : ~(Pede(b) /\ Pag(b) = p)

-----------------------------------------------------------------------------
(* How an actor moves *)

LEMMA IrVai ==
    ASSUME TypeOK, NEW a \in Atores, NEW passo \in Passos, Ir(a, passo)
    PROVE  Vai(a, passo, Pag(a), ator[a].saida)
<1>. DEFINE r == [ator[a] EXCEPT !.passo = passo]
<1>0. ator \in [Atores -> TipoDoAtor]
    BY DEF TypeOK, TipoDoAtor
<1>1. r \in TipoDoAtor /\ r.passo = passo /\ r.p = ator[a].p /\ r.saida = ator[a].saida
    BY <1>0 DEF TipoDoAtor
<1>2. ator' = [ator EXCEPT ![a] = r]
    BY <1>0 DEF Ir
<1>. HIDE DEF r
<1>. QED
    BY <1>0, <1>1, <1>2 DEF Vai, Pag

LEMMA IrComVai ==
    ASSUME TypeOK, NEW a \in Atores, NEW passo \in Passos, NEW s \in Registros,
           IrCom(a, passo, s)
    PROVE  Vai(a, passo, Pag(a), s)
<1>. DEFINE r == [[ator[a] EXCEPT !.passo = passo] EXCEPT !.saida = s]
<1>0. ator \in [Atores -> TipoDoAtor]
    BY DEF TypeOK, TipoDoAtor
<1>1. r \in TipoDoAtor /\ r.passo = passo /\ r.p = ator[a].p /\ r.saida = s
    BY <1>0 DEF TipoDoAtor
<1>2. ator' = [ator EXCEPT ![a] = r]
    BY <1>0 DEF IrCom
<1>. HIDE DEF r
<1>. QED
    BY <1>0, <1>1, <1>2 DEF Vai, Pag

LEMMA SairVai ==
    ASSUME TypeOK, NEW a \in Atores, Sair(a)
    PROVE  Vai(a, "livre", Ninguem, "nenhum")
<1>0. ator \in [Atores -> TipoDoAtor]
    BY DEF TypeOK, TipoDoAtor
<1>1. /\ Livre \in TipoDoAtor
      /\ Livre.passo = "livre" /\ Livre.p = Ninguem /\ Livre.saida = "nenhum"
    BY DEF Livre, TipoDoAtor, Passos, Registros
<1>. QED
    BY <1>0, <1>1 DEF Sair, Vai

\* An actor who is nowhere, or who does not request, comes to no harm.
LEMMA LivreSabe ==
    ASSUME NEW a \in Atores, ator'[a].passo = "livre"
    PROVE  SabeDoAtor(a)' /\ ~Pede(a)'
BY DEF SabeDoAtor, Pede, PassosSoPix, PassosSoStripe

\* Only the actor a moves: the others know what they knew.
LEMMA AtorAnda ==
    ASSUME IInv, NEW a \in Atores, NEW passo, NEW q, NEW s, Vai(a, passo, q, s),
           UNCHANGED <<pix, local, repasse, externo>>,
           avisado' \in [Pagamentos -> BOOLEAN], falhas' \in 0..MaxFalhas,
           SabeDoAtor(a)', Pede(a)' => Pede(a) /\ q = Pag(a)
    PROVE  IInv'
<1>1. TypeOK'
    BY DEF IInv, TypeOK, Vai, TipoDoAtor, local, externo, Pix
<1>2. \A b \in Atores : SabeDoAtor(b)'
  <2>1. SUFFICES ASSUME NEW b \in Atores \ {a} PROVE SabeDoAtor(b)'
    OBVIOUS
  <2>2. SabeDoAtor(b) /\ ator'[b] = ator[b]
    BY DEF IInv, Vai
  <2>. QED
    BY <2>2 DEF SabeDoAtor, Pede, Pag, Pix, local, externo
<1>3. PedeSozinho'
  <2>1. \A b \in Atores : Pede(b)' => Pede(b) /\ Pag(b)' = Pag(b)
    BY DEF Vai, Pede, Pag, Pix
  <2>. QED
    BY <2>1 DEF IInv, PedeSozinho
<1>4. \A p \in Pagamentos : SabeDoRegistro(p)'
    BY DEF IInv, SabeDoRegistro, Pix, local, externo
<1>. QED
    BY <1>1, <1>2, <1>3, <1>4 DEF IInv

\* The actor a moves and writes to its payment.
LEMMA AtorGrava ==
    ASSUME IInv, NEW a \in Atores, NEW p \in Pagamentos,
           NEW passo, NEW q, NEW s, Vai(a, passo, q, s),
           UNCHANGED <<pix, repasse, externo>>, TypeOK',
           \A x \in Pagamentos \ {p} :
               registro'[x] = registro[x] /\ status'[x] = status[x]
               /\ cancelado'[x] = cancelado[x],
           SabeDoAtor(a)', SabeDoRegistro(p)',
           Pede(a)' => q = p /\ PedeSoEste(a, p),
           \/ registro'[p] = registro[p]
           \/ PedeSoEste(a, p)
           \/ /\ registro'[p] \notin Reclamaveis
              /\ IF Pix(p) THEN banco[p] # "nada" ELSE banco[p] \in {"devolvido", "painel"}
    PROVE  IInv'
<1>2. \A b \in Atores : SabeDoAtor(b)'
  <2>1. SUFFICES ASSUME NEW b \in Atores \ {a} PROVE SabeDoAtor(b)'
    OBVIOUS
  <2>2. SabeDoAtor(b) /\ ator'[b] = ator[b]
    BY DEF IInv, Vai
  <2>3. CASE Pag(b) # p
    <3>1. CASE ator[b].passo = "livre"
        BY <2>2, <3>1, LivreSabe
    <3>2. CASE ator[b].passo # "livre"
      <4>1. registro'[Pag(b)] = registro[Pag(b)]
        BY <2>2, <2>3, <3>2 DEF SabeDoAtor, Pag
      <4>. QED
        BY <2>2, <4>1 DEF SabeDoAtor, Pede, Pag, Pix, externo
    <3>. QED BY <3>1, <3>2
  <2>4. CASE Pag(b) = p
    <3>1. CASE registro'[p] = registro[p]
        BY <2>2, <2>4, <3>1 DEF SabeDoAtor, Pede, Pag, Pix, externo
    <3>2. CASE PedeSoEste(a, p)
      <4>1. ~Pede(b)
        BY <2>4, <3>2 DEF PedeSoEste
      <4>. QED
        BY <2>2, <2>4, <4>1 DEF SabeDoAtor, Pede, Pag, Pix, externo
    <3>3. CASE /\ registro'[p] \notin Reclamaveis
               /\ IF Pix(p) THEN banco[p] # "nada" ELSE banco[p] \in {"devolvido", "painel"}
        BY <2>2, <2>4, <3>3 DEF SabeDoAtor, Pede, Pag, Pix, externo
    <3>. QED BY <3>1, <3>2, <3>3
  <2>. QED BY <2>3, <2>4
<1>3. PedeSozinho'
  <2>1. \A b \in Atores \ {a} : (Pede(b)' <=> Pede(b)) /\ Pag(b)' = Pag(b)
    BY DEF Vai, Pede, Pag, Pix
  <2>2. Pag(a)' = q
    BY DEF Vai, Pag
  <2>. QED
    BY <2>1, <2>2 DEF IInv, PedeSozinho, PedeSoEste
<1>4. \A x \in Pagamentos : SabeDoRegistro(x)'
  <2>1. SUFFICES ASSUME NEW x \in Pagamentos \ {p} PROVE SabeDoRegistro(x)'
    OBVIOUS
  <2>. QED
    BY DEF IInv, SabeDoRegistro, Pix, externo
<1>. QED
    BY <1>2, <1>3, <1>4 DEF IInv

\* Who finds nothing asked, or asks itself, is the only one to request.
LEMMA SoUmPede ==
    ASSUME IInv, NEW a \in Atores, NEW p \in Pagamentos,
           registro[p] \in Reclamaveis \/ (Pede(a) /\ Pag(a) = p)
    PROVE  PedeSoEste(a, p)
BY DEF IInv, PedeSoEste, PedeSozinho, SabeDoAtor, Pag

-----------------------------------------------------------------------------
(* Steps that only move an actor *)

LEMMA SairInv ==
    ASSUME IInv, NEW a \in Atores, Sair(a), UNCHANGED <<pix, local, repasse, externo>>,
           avisado' \in [Pagamentos -> BOOLEAN], falhas' \in 0..MaxFalhas
    PROVE  IInv'
<1>1. Vai(a, "livre", Ninguem, "nenhum")
    BY SairVai DEF IInv
<1>2. SabeDoAtor(a)' /\ ~Pede(a)'
    BY <1>1, LivreSabe DEF Vai
<1>. QED
    BY <1>1, <1>2, AtorAnda

LEMMA IrInv ==
    ASSUME IInv, NEW a \in Atores, NEW passo \in Passos, Ir(a, passo), SoAtor, UNCHANGED pix,
           Vai(a, passo, Pag(a), ator[a].saida) => SabeDoAtor(a)',
           passo \in {"pedindo", "esperando", "apagando", "desconhecendo", "gravando"} => Pede(a)
    PROVE  IInv'
<1>1. Vai(a, passo, Pag(a), ator[a].saida)
    BY IrVai DEF IInv
<1>2. Pede(a)' => Pede(a)
    BY <1>1 DEF Vai, Pede
<1>. QED
    BY <1>1, <1>2, AtorAnda DEF SoAtor, IInv, TypeOK

LEMMA OndeEstao ==
    ASSUME IInv, NEW a \in Atores, ator[a].passo # "livre"
    PROVE  /\ Pag(a) \in Pagamentos
           /\ SabeDoAtor(a) /\ SabeDoRegistro(Pag(a))
           /\ ator[a] \in TipoDoAtor
BY DEF IInv, SabeDoAtor, Pag, TypeOK, TipoDoAtor

LEMMA PassosConhecidos ==
    /\ {"criando", "confirmando", "reservando", "desconhecendo", "gravando", "cancelando",
        "estornando", "livre", "lendo", "pedindo", "esperando", "apagando", "consultando",
        "finalizando", "reclamando", "convergindo", "observando", "verificando"} \subseteq Passos
    /\ RegistrosPix \subseteq Registros /\ RegistrosStripe \subseteq Registros
BY DEF Passos, Registros

LEMMA IniciarInv ==
    ASSUME IInv, NEW a \in Atores, NEW p \in Pagamentos, NEW passo \in Passos,
           Comecar(a, p, passo), SoAtor, UNCHANGED pix,
           \/ passo = "lendo"
           \/ passo = "verificando" /\ Pix(p)
           \/ passo = "observando" /\ ~Pix(p) /\ banco[p] \in {"devolvido", "painel"}
    PROVE  IInv'
<1>. DEFINE r == [passo |-> passo, p |-> p, saida |-> "nenhum"]
<1>0. ator \in [Atores -> TipoDoAtor]
    BY DEF IInv, TypeOK, TipoDoAtor
<1>1. r \in TipoDoAtor /\ r.passo = passo /\ r.p = p /\ r.saida = "nenhum"
    BY DEF TipoDoAtor, Registros
<1>2. ator' = [ator EXCEPT ![a] = r]
    BY DEF Comecar
<1>. HIDE DEF r
<1>3. Vai(a, passo, p, "nenhum")
    BY <1>0, <1>1, <1>2 DEF Vai
<1>4. SabeDoAtor(a)' /\ ~Pede(a)'
    BY <1>3 DEF Vai, SabeDoAtor, Pede, Pag, Pix, PassosSoPix, PassosSoStripe, SoAtor, externo
<1>. QED
    BY <1>3, <1>4, AtorAnda DEF SoAtor, IInv, TypeOK

LEMMA LerInv ==
    ASSUME IInv, NEW a \in Atores, Ler(a), UNCHANGED pix
    PROVE  IInv'
<1>0. PICK p \in Pagamentos : p = Pag(a)
    BY OndeEstao DEF Ler, Em
<1>1. SoAtor /\ UNCHANGED <<pix, local, repasse, externo>> /\ SabeDoRegistro(p)
    BY <1>0 DEF Ler, SoAtor, IInv
<1>2. CASE Sair(a)
    BY <1>1, <1>2, SairInv DEF IInv, TypeOK, SoAtor
<1>3. CASE status[p] = "estornado" /\ Pix(p) /\ Ir(a, "confirmando")
  <2>1. Vai(a, "confirmando", Pag(a), ator[a].saida) => SabeDoAtor(a)'
    BY <1>0, <1>1, <1>3 DEF Vai, SabeDoAtor, Pede, Pag, Pix, PassosSoPix, PassosSoStripe,
       externo, SabeDoRegistro
  <2>. QED
    BY <1>1, <1>3, <2>1, IrInv, PassosConhecidos
<1>4. CASE Ir(a, IF Pix(p) THEN "criando" ELSE "reservando")
  <2>1. PICK passo \in Passos : passo = IF Pix(p) THEN "criando" ELSE "reservando"
    BY DEF Passos
  <2>2. Vai(a, passo, Pag(a), ator[a].saida) => SabeDoAtor(a)'
    BY <1>0, <1>1, <2>1 DEF Vai, SabeDoAtor, Pede, Pag, Pix, PassosSoPix, PassosSoStripe
  <2>3. Ir(a, passo)
    BY <1>4, <2>1
  <2>. QED
    BY <1>1, <2>1, <2>2, <2>3, IrInv
<1>. QED
    BY <1>0, <1>2, <1>3, <1>4 DEF Ler

LEMMA RespostaSabe ==
    ASSUME NEW p \in Pagamentos, TypeOK, Resposta(p) # "nenhum"
    PROVE  /\ banco[p] \in {"processando", "devolvido", "recusado"}
           /\ Resposta(p) \in Registros
           /\ Pix(p) => /\ Resposta(p) \in {"em_processamento+rtr", "devolvida", "nao_realizada"}
                        /\ Resposta(p) = "devolvida" <=> banco[p] = "devolvido"
                        /\ Resposta(p) = "nao_realizada" <=> banco[p] = "recusado"
           /\ ~Pix(p) => /\ Resposta(p) \in {"provider_pending", "provider_succeeded",
                                             "provider_failed"}
                         /\ Resposta(p) = "provider_succeeded" <=> banco[p] = "devolvido"
                         /\ Resposta(p) = "provider_failed" <=> banco[p] = "recusado"
BY DEF Resposta, Registros, RegistrosPix, RegistrosStripe

LEMMA ReceberInv ==
    ASSUME IInv, NEW a \in Atores, Receber(a), UNCHANGED pix
    PROVE  IInv'
<1>0. PICK p \in Pagamentos : p = Pag(a)
    BY OndeEstao DEF Receber, Em
<1>1. /\ SoAtor /\ UNCHANGED <<pix, local, repasse, externo>> /\ SabeDoRegistro(p)
      /\ TypeOK /\ SabeDoAtor(a) /\ Pede(a)
    BY <1>0 DEF Receber, SoAtor, IInv, Em, Pede
<1>2. CASE Sair(a)
    BY <1>1, <1>2, SairInv DEF TypeOK, SoAtor
<1>3. ASSUME NEW s, voando[p] = 0, Resposta(p) # "nenhum",
             s \in {Resposta(p)} \cup (IF Resposta(p) = "nao_realizada" THEN {"rejeitada"} ELSE {}),
             IrCom(a, "gravando", s)
      PROVE  IInv'
  <2>1. s \in Registros
    BY <1>1, <1>3, RespostaSabe, PassosConhecidos DEF RegistrosPix
  <2>2. Vai(a, "gravando", p, s)
    BY <1>0, <1>1, <1>3, <2>1, IrComVai, PassosConhecidos
  <2>3. SabeDoAtor(a)'
    BY <1>0, <1>1, <1>3, <2>2, RespostaSabe
       DEF Vai, SabeDoAtor, Pede, Pag, Pix, PassosSoPix, PassosSoStripe, externo, local
  <2>. QED
    BY <1>0, <1>1, <2>2, <2>3, AtorAnda DEF SoAtor, IInv, TypeOK
<1>4. CASE ~Pix(p) /\ Ir(a, "desconhecendo")
  <2>1. Vai(a, "desconhecendo", Pag(a), ator[a].saida) => SabeDoAtor(a)'
    BY <1>0, <1>1, <1>4 DEF Vai, SabeDoAtor, Pede, Pag, Pix, PassosSoPix, PassosSoStripe,
       externo, local
  <2>. QED
    BY <1>1, <1>4, <2>1, IrInv, PassosConhecidos
<1>. QED
    BY <1>0, <1>2, <1>3, <1>4 DEF Receber

LEMMA ConsultarInv ==
    ASSUME IInv, NEW a \in Atores, Consultar(a), UNCHANGED pix
    PROVE  IInv'
<1>0. PICK p \in Pagamentos : p = Pag(a)
    BY OndeEstao DEF Consultar, Em
<1>1. /\ SoAtor /\ UNCHANGED <<pix, local, repasse, externo>>
      /\ TypeOK /\ SabeDoAtor(a) /\ Pix(p)
    BY <1>0 DEF Consultar, SoAtor, IInv, Em, SabeDoAtor, PassosSoPix, Pag
<1>2. CASE Sair(a)
    BY <1>1, <1>2, SairInv DEF TypeOK, SoAtor
<1>3. CASE Resposta(p) # "nenhum" /\ IrCom(a, "gravando", Resposta(p))
  <2>1. PICK s \in Registros : s = Resposta(p)
    BY <1>1, <1>3, RespostaSabe
  <2>2. Vai(a, "gravando", p, s)
    BY <1>0, <1>1, <1>3, <2>1, IrComVai, PassosConhecidos
  <2>3. SabeDoAtor(a)' /\ ~Pede(a)'
    BY <1>0, <1>1, <1>3, <2>1, <2>2, RespostaSabe
       DEF Vai, SabeDoAtor, Pede, Pag, Pix, PassosSoPix, PassosSoStripe, externo, local
  <2>. QED
    BY <1>0, <1>1, <2>2, <2>3, AtorAnda DEF SoAtor, IInv, TypeOK
<1>. QED
    BY <1>0, <1>2, <1>3 DEF Consultar

LEMMA FinalizarInv ==
    ASSUME IInv, NEW a \in Atores, Finalizar(a), UNCHANGED pix
    PROVE  IInv'
<1>0. PICK p \in Pagamentos : p = Pag(a)
    BY OndeEstao DEF Finalizar, Em
<1>1. /\ SoAtor /\ UNCHANGED <<pix, local, repasse, externo>>
      /\ TypeOK /\ SabeDoAtor(a) /\ Pix(p) /\ banco[p] = "devolvido"
    BY <1>0 DEF Finalizar, SoAtor, IInv, Em, SabeDoAtor, PassosSoPix, Pag
<1>2. CASE Sair(a)
    BY <1>1, <1>2, SairInv DEF TypeOK, SoAtor
<1>3. ASSUME NEW passo \in {"cancelando", "estornando"}, Ir(a, passo)
      PROVE  IInv'
  <2>1. Vai(a, passo, Pag(a), ator[a].saida) => SabeDoAtor(a)'
    BY <1>0, <1>1, <1>3 DEF Vai, SabeDoAtor, Pede, Pag, Pix, PassosSoPix, PassosSoStripe,
       externo
  <2>. QED
    BY <1>1, <1>3, <2>1, IrInv, PassosConhecidos
<1>. QED
    BY <1>0, <1>2, <1>3 DEF Finalizar

LEMMA VerificarInv ==
    ASSUME IInv, NEW a \in Atores, Verificar(a), UNCHANGED pix
    PROVE  IInv'
<1>0. PICK p \in Pagamentos : p = Pag(a)
    BY OndeEstao DEF Verificar, Em
<1>1. /\ UNCHANGED <<pix, local, repasse, externo, falhas>>
      /\ TypeOK /\ SabeDoAtor(a) /\ Pix(p) /\ SabeDoRegistro(p)
    BY <1>0 DEF Verificar, IInv, Em, SabeDoAtor, PassosSoPix, Pag
<1>2. CASE Sair(a) /\ avisado' \in [Pagamentos -> BOOLEAN]
    BY <1>1, <1>2, SairInv DEF TypeOK
<1>3. CASE Resposta(p) = "devolvida" /\ Ir(a, "confirmando") /\ UNCHANGED avisado
  <2>0. banco[p] = "devolvido"
    BY <1>1, <1>3, RespostaSabe
  <2>1. Vai(a, "confirmando", Pag(a), ator[a].saida) => SabeDoAtor(a)'
    BY <1>0, <1>1, <2>0 DEF Vai, SabeDoAtor, Pede, Pag, Pix, PassosSoPix, PassosSoStripe,
       externo
  <2>. QED
    BY <1>1, <1>3, <2>1, IrInv, PassosConhecidos DEF SoAtor
<1>4. (Terminar(a) => Sair(a)) /\ (Terminar(a) => avisado' \in [Pagamentos -> BOOLEAN])
    BY <1>1 DEF Terminar, TypeOK
<1>. QED
    BY <1>0, <1>1, <1>2, <1>3, <1>4 DEF Verificar, TypeOK

LEMMA CairInv ==
    ASSUME IInv, NEW a \in Atores, Cair(a), UNCHANGED pix
    PROVE  IInv'
<1>1. falhas' \in 0..MaxFalhas
    BY SuposicaoEstorno DEF Cair, IInv, TypeOK
<1>. QED
    BY <1>1, SairInv DEF Cair, IInv, TypeOK

-----------------------------------------------------------------------------
(* Steps that write the devolucao *)

LEMMA RamificarVai ==
    ASSUME TypeOK, NEW a \in Atores, NEW s, NEW pendente \in Passos, Ramificar(a, s, pendente)
    PROVE  \/ s = "devolvida" /\ Vai(a, "confirmando", Pag(a), ator[a].saida)
           \/ /\ s \in {"em_processamento", "em_processamento+rtr"} /\ pendente # "livre"
              /\ Vai(a, pendente, Pag(a), ator[a].saida)
           \/ s # "devolvida" /\ Vai(a, "livre", Ninguem, "nenhum")
BY IrVai, SairVai, PassosConhecidos DEF Ramificar

\* A step of a that changes only the record of its payment, to g.
LEMMA RegistroInv ==
    ASSUME IInv, NEW a \in Atores, NEW p \in Pagamentos, p = Pag(a), ator[a].passo # "livre",
           NEW passo, NEW q, NEW s, Vai(a, passo, q, s),
           NEW g, Gravar(p, g), SoRegistro, UNCHANGED pix,
           g \in IF Pix(p) THEN RegistrosPix \cup {"nenhum"} ELSE RegistrosStripe \cup {"nenhum"},
           registro'[p] = g => SabeDoAtor(a)' /\ SabeDoRegistro(p)',
           Pede(a)' => q = p /\ PedeSoEste(a, p),
           \/ g = registro[p]
           \/ PedeSoEste(a, p)
           \/ /\ g \notin Reclamaveis
              /\ IF Pix(p) THEN banco[p] # "nada" ELSE banco[p] \in {"devolvido", "painel"}
    PROVE  IInv'
<1>1. /\ registro' \in [Pagamentos -> Registros] /\ registro'[p] = g
      /\ \A x \in Pagamentos \ {p} : registro'[x] = registro[x]
    BY PassosConhecidos DEF IInv, TypeOK, Gravar, Registros
<1>2. TypeOK'
    BY <1>1 DEF IInv, TypeOK, Vai, TipoDoAtor, SoRegistro, externo, Pix
<1>3. /\ UNCHANGED <<pix, repasse, externo>>
      /\ \A x \in Pagamentos \ {p} :
            registro'[x] = registro[x] /\ status'[x] = status[x] /\ cancelado'[x] = cancelado[x]
    BY <1>1 DEF SoRegistro, externo
<1>. QED
    BY <1>1, <1>2, <1>3, AtorGrava

\* What was not written is written again.
LEMMA NaoGravar ==
    ASSUME TypeOK, UNCHANGED registro, NEW p \in Pagamentos
    PROVE  /\ Gravar(p, registro[p])
           /\ registro[p] \in IF Pix(p) THEN RegistrosPix \cup {"nenhum"}
                              ELSE RegistrosStripe \cup {"nenhum"}
BY DEF TypeOK, Gravar

\* The record is left as it is: what it says of the provider stays true.
LEMMA RegistroFica ==
    ASSUME IInv, NEW p \in Pagamentos, registro'[p] = registro[p], SoRegistro, UNCHANGED pix
    PROVE  SabeDoRegistro(p)'
BY DEF IInv, SabeDoRegistro, SoRegistro, externo, Pix

LEMMA CriarInv ==
    ASSUME IInv, NEW a \in Atores, CriarDevolucao(a), UNCHANGED pix
    PROVE  IInv'
<1>0. PICK p \in Pagamentos : p = Pag(a)
    BY OndeEstao DEF CriarDevolucao, Em
<1>1. /\ SoRegistro /\ TypeOK /\ SabeDoAtor(a) /\ SabeDoRegistro(p) /\ Pix(p)
      /\ ator[a].passo = "criando"
    BY <1>0 DEF CriarDevolucao, IInv, Em, SabeDoAtor, PassosSoPix, Pag
<1>2. CASE UNCHANGED registro /\ Sair(a)
    BY <1>1, <1>2, SairInv DEF SoRegistro, local, TypeOK
<1>3. CASE registro[p] = "nenhum" /\ ~Movimentado(p) /\ Gravar(p, "em_processamento")
           /\ Ir(a, "pedindo")
  <2>1. Vai(a, "pedindo", p, ator[a].saida)
    BY <1>0, <1>1, <1>3, IrVai, PassosConhecidos
  <2>2. PedeSoEste(a, p)
    BY <1>3, SoUmPede DEF Reclamaveis
  <2>3. repasse[p] = "fora"
    BY <1>1, <1>3 DEF Movimentado, TypeOK
  <2>4. registro'[p] = "em_processamento" => SabeDoAtor(a)' /\ SabeDoRegistro(p)'
    BY <1>0, <1>1, <1>3, <2>1, <2>3
       DEF Vai, SabeDoAtor, SabeDoRegistro, Pede, Pag, Pix, PassosSoPix, PassosSoStripe,
       SoRegistro, externo, Reclamaveis, Bloqueantes
  <2>. QED
    BY <1>0, <1>1, <1>3, <2>1, <2>2, <2>4, RegistroInv DEF RegistrosPix
<1>4. CASE UNCHANGED registro /\ Ramificar(a, registro[p], "consultando")
  <2>1. \/ registro[p] = "devolvida" /\ Vai(a, "confirmando", p, ator[a].saida)
        \/ Vai(a, "consultando", p, ator[a].saida)
        \/ Vai(a, "livre", Ninguem, "nenhum")
    BY <1>0, <1>1, <1>4, RamificarVai, PassosConhecidos
  <2>2. UNCHANGED <<pix, local, repasse, externo>>
    BY <1>1, <1>4 DEF SoRegistro, local
  <2>3. ASSUME NEW passo, NEW q, NEW s, Vai(a, passo, q, s),
               \/ passo = "confirmando" /\ q = p /\ registro[p] = "devolvida"
               \/ passo = "consultando" /\ q = p
               \/ passo = "livre"
        PROVE  IInv'
    <3>1. SabeDoAtor(a)' /\ ~Pede(a)'
      BY <1>1, <2>2, <2>3 DEF Vai, SabeDoAtor, SabeDoRegistro, Pede, Pag, Pix, PassosSoPix,
         PassosSoStripe, externo
    <3>. QED
      BY <1>1, <2>2, <2>3, <3>1, AtorAnda DEF SoRegistro, TypeOK
  <2>. QED
    BY <2>1, <2>3
<1>. QED
    BY <1>0, <1>2, <1>3, <1>4 DEF CriarDevolucao

LEMMA ApagarInv ==
    ASSUME IInv, NEW a \in Atores, ApagarDevolucao(a), UNCHANGED pix
    PROVE  IInv'
<1>0. PICK p \in Pagamentos : p = Pag(a)
    BY OndeEstao DEF ApagarDevolucao, Em
<1>1. /\ SoRegistro /\ TypeOK /\ SabeDoAtor(a) /\ SabeDoRegistro(p) /\ Pix(p) /\ Pede(a)
      /\ ator[a].passo = "apagando" /\ Sair(a)
    BY <1>0 DEF ApagarDevolucao, IInv, Em, SabeDoAtor, PassosSoPix, Pag, Pede
<1>2. registro[p] = "em_processamento" /\ Gravar(p, "nenhum")
    BY <1>0, <1>1 DEF ApagarDevolucao, Gravar, SabeDoAtor, Pag
<1>3. Vai(a, "livre", Ninguem, "nenhum")
    BY <1>1, SairVai
<1>4. PedeSoEste(a, p)
    BY <1>0, <1>1, SoUmPede
<1>5. registro'[p] = "nenhum" => SabeDoAtor(a)' /\ SabeDoRegistro(p)' /\ ~Pede(a)'
    BY <1>0, <1>1, <1>2, <1>3
       DEF Vai, SabeDoAtor, SabeDoRegistro, Pede, Pag, Pix, PassosSoPix, PassosSoStripe,
       SoRegistro, externo, Reclamaveis, Bloqueantes
<1>6. ~Pede(a)'
    BY <1>3, LivreSabe DEF Vai
<1>. QED
    BY <1>0, <1>1, <1>2, <1>3, <1>4, <1>5, <1>6, RegistroInv

LEMMA GravarDevolucaoInv ==
    ASSUME IInv, NEW a \in Atores, GravarDevolucao(a), UNCHANGED pix
    PROVE  IInv'
<1>0. PICK p \in Pagamentos : p = Pag(a)
    BY OndeEstao DEF GravarDevolucao, Em
<1>1. /\ SoRegistro /\ TypeOK /\ SabeDoAtor(a) /\ SabeDoRegistro(p) /\ Pix(p)
      /\ ator[a].passo = "gravando"
    BY <1>0 DEF GravarDevolucao, IInv, Em, SabeDoAtor, Pag
<1>2. PICK g : g = Desfecho(p, ator[a].saida)
    OBVIOUS
<1>3. Gravar(p, g) /\ Ramificar(a, g, "livre")
    BY <1>0, <1>2 DEF GravarDevolucao
<1>4. /\ banco[p] # "nada"
      /\ \/ g = registro[p]
         \/ /\ registro[p] \in {"em_processamento", "em_processamento+rtr"}
            /\ g \in {"em_processamento+rtr", "devolvida", "nao_realizada", "rejeitada"}
      /\ g \in RegistrosPix \cup {"nenhum"}
      /\ g = "devolvida" => banco[p] = "devolvido"
      /\ g \in {"nao_realizada", "rejeitada"} => banco[p] = "recusado"
    BY <1>0, <1>1, <1>2 DEF Desfecho, SabeDoAtor, SabeDoRegistro, Pag, TypeOK, RegistrosPix, Pix
<1>5. \/ g = "devolvida" /\ Vai(a, "confirmando", p, ator[a].saida)
      \/ Vai(a, "livre", Ninguem, "nenhum")
    BY <1>0, <1>1, <1>3, RamificarVai, PassosConhecidos
<1>6. registro'[p] = g => SabeDoRegistro(p)'
    BY <1>1, <1>4 DEF SabeDoRegistro, Pix, SoRegistro, externo, Bloqueantes, Registros,
       RegistrosPix, RegistrosStripe
<1>7. ASSUME NEW passo, NEW q, NEW s, Vai(a, passo, q, s),
             (passo = "confirmando" /\ q = p /\ g = "devolvida") \/ passo = "livre"
      PROVE  IInv'
  <2>1. SabeDoAtor(a)' /\ ~Pede(a)'
    BY <1>1, <1>4, <1>7 DEF Vai, SabeDoAtor, Pede, Pag, Pix, PassosSoPix, PassosSoStripe,
       SoRegistro, externo
  <2>2. g = registro[p] \/ (g \notin Reclamaveis /\ banco[p] # "nada")
    BY <1>4 DEF Reclamaveis
  <2>. QED
    BY <1>0, <1>1, <1>3, <1>4, <1>6, <1>7, <2>1, <2>2, RegistroInv
<1>. QED
    BY <1>5, <1>7

LEMMA ConfirmarInv ==
    ASSUME IInv, NEW a \in Atores, ConfirmarDevolucao(a), UNCHANGED pix
    PROVE  IInv'
<1>0. PICK p \in Pagamentos : p = Pag(a)
    BY OndeEstao DEF ConfirmarDevolucao, Em
<1>1. /\ SoRegistro /\ TypeOK /\ SabeDoAtor(a) /\ SabeDoRegistro(p) /\ Pix(p)
      /\ ator[a].passo = "confirmando" /\ banco[p] = "devolvido"
    BY <1>0 DEF ConfirmarDevolucao, IInv, Em, SabeDoAtor, Pag, PassosSoPix
<1>2. PICK g : g = Desfecho(p, "devolvida")
    OBVIOUS
<1>3. Gravar(p, g) /\ IF g = "devolvida" THEN Ir(a, "finalizando") ELSE Sair(a)
    BY <1>0, <1>2 DEF ConfirmarDevolucao
<1>4. /\ \/ g = registro[p]
         \/ /\ registro[p] \in {"em_processamento", "em_processamento+rtr"}
            /\ g = "devolvida"
      /\ g \in RegistrosPix \cup {"nenhum"}
    BY <1>1, <1>2 DEF Desfecho, TypeOK, RegistrosPix, Pix
<1>5. \/ g = "devolvida" /\ Vai(a, "finalizando", p, ator[a].saida)
      \/ Vai(a, "livre", Ninguem, "nenhum")
    BY <1>0, <1>1, <1>3, IrVai, SairVai, PassosConhecidos
<1>6. registro'[p] = g => SabeDoRegistro(p)'
    BY <1>1, <1>4 DEF SabeDoRegistro, Pix, SoRegistro, externo, Bloqueantes, Registros,
       RegistrosPix, RegistrosStripe
<1>7. ASSUME NEW passo, NEW q, NEW s, Vai(a, passo, q, s),
             (passo = "finalizando" /\ q = p) \/ passo = "livre"
      PROVE  IInv'
  <2>1. SabeDoAtor(a)' /\ ~Pede(a)'
    BY <1>1, <1>7 DEF Vai, SabeDoAtor, Pede, Pag, Pix, PassosSoPix, PassosSoStripe,
       SoRegistro, externo
  <2>2. g = registro[p] \/ (g \notin Reclamaveis /\ banco[p] # "nada")
    BY <1>1, <1>4 DEF Reclamaveis
  <2>. QED
    BY <1>0, <1>1, <1>3, <1>4, <1>6, <1>7, <2>1, <2>2, RegistroInv
<1>. QED
    BY <1>5, <1>7

LEMMA EstornarInv ==
    ASSUME IInv, NEW a \in Atores, EstornarPagamento(a), UNCHANGED pix
    PROVE  IInv'
<1>0. PICK p \in Pagamentos : p = Pag(a)
    BY OndeEstao DEF EstornarPagamento, Em
<1>1. /\ TypeOK /\ SabeDoAtor(a) /\ SabeDoRegistro(p) /\ Pix(p)
      /\ ator[a].passo = "estornando" /\ banco[p] = "devolvido"
      /\ UNCHANGED <<pix, cancelado, registro, visto, repasse, externo, avisado, falhas>>
    BY <1>0 DEF EstornarPagamento, IInv, Em, SabeDoAtor, Pag, PassosSoPix
<1>2. Vai(a, "cancelando", p, ator[a].saida)
    BY <1>0, <1>1, IrVai, PassosConhecidos DEF EstornarPagamento
<1>3. status' = [status EXCEPT ![p] = "estornado"]
    BY <1>0 DEF EstornarPagamento
<1>4. SabeDoAtor(a)' /\ ~Pede(a)'
    BY <1>1, <1>2 DEF Vai, SabeDoAtor, Pede, Pag, Pix, PassosSoPix, PassosSoStripe, externo
<1>5. SabeDoRegistro(p)'
    BY <1>1 DEF SabeDoRegistro, Pix, externo
<1>6. TypeOK'
    BY <1>1, <1>2, <1>3 DEF TypeOK, Vai, TipoDoAtor, externo, Pix
<1>7. \A x \in Pagamentos \ {p} : status'[x] = status[x]
    BY <1>1, <1>3 DEF TypeOK
<1>. QED
    BY <1>1, <1>2, <1>4, <1>5, <1>6, <1>7, AtorGrava

LEMMA TerminarVai ==
    ASSUME TypeOK, NEW a \in Atores, Terminar(a), ator[a].passo # "livre" => Pag(a) \in Pagamentos
    PROVE  Vai(a, "livre", Ninguem, "nenhum") /\ avisado' \in [Pagamentos -> BOOLEAN]
BY SairVai DEF Terminar, TypeOK

LEMMA CancelarInv ==
    ASSUME IInv, NEW a \in Atores, CancelarLancamentos(a), UNCHANGED pix
    PROVE  IInv'
<1>0. PICK p \in Pagamentos : p = Pag(a)
    BY OndeEstao DEF CancelarLancamentos, Em
<1>1. /\ TypeOK /\ SabeDoAtor(a) /\ SabeDoRegistro(p) /\ Pix(p)
      /\ ator[a].passo = "cancelando" /\ banco[p] = "devolvido"
      /\ UNCHANGED <<pix, status, registro, visto, repasse, externo, falhas>>
    BY <1>0 DEF CancelarLancamentos, IInv, Em, SabeDoAtor, Pag, PassosSoPix
<1>2. Vai(a, "livre", Ninguem, "nenhum") /\ avisado' \in [Pagamentos -> BOOLEAN]
    BY <1>0, <1>1, TerminarVai DEF CancelarLancamentos
<1>3. cancelado' = [cancelado EXCEPT ![p] = @ \/ repasse[p] # "pago"]
    BY <1>0 DEF CancelarLancamentos
<1>4. SabeDoAtor(a)' /\ ~Pede(a)'
    BY <1>2, LivreSabe DEF Vai
<1>5. SabeDoRegistro(p)'
    BY <1>1 DEF SabeDoRegistro, Pix, externo
<1>8. cancelado' \in [Pagamentos -> BOOLEAN] /\ \A x \in Pagamentos \ {p} : cancelado'[x] = cancelado[x]
    BY <1>1, <1>3, Zenon DEF TypeOK
<1>6. TypeOK'
    BY <1>1, <1>2, <1>8 DEF TypeOK, Vai, TipoDoAtor, externo, Pix
<1>. QED
    BY <1>1, <1>2, <1>4, <1>5, <1>6, <1>8, AtorGrava

-----------------------------------------------------------------------------
(* Steps that write the refund operation of Stripe *)

LEMMA ReservarInv ==
    ASSUME IInv, NEW a \in Atores, Reservar(a), UNCHANGED pix
    PROVE  IInv'
<1>0. PICK p \in Pagamentos : p = Pag(a)
    BY OndeEstao DEF Reservar, Em
<1>1. /\ SoRegistro /\ TypeOK /\ SabeDoAtor(a) /\ SabeDoRegistro(p) /\ ~Pix(p)
      /\ ator[a].passo = "reservando"
    BY <1>0 DEF Reservar, IInv, Em, SabeDoAtor, PassosSoPix, PassosSoStripe, Pag
<1>2. CASE UNCHANGED registro /\ Sair(a)
    BY <1>1, <1>2, SairInv DEF SoRegistro, local, TypeOK
<1>3. ASSUME NEW g, Gravar(p, g), g = registro[p] \/ (registro[p] = "nenhum" /\ g = "reserved"),
             ~Movimentado(p), Ir(a, "reclamando")
      PROVE  IInv'
  <2>1. Vai(a, "reclamando", p, ator[a].saida)
    BY <1>0, <1>1, <1>3, IrVai, PassosConhecidos
  <2>2. g = registro[p] \/ PedeSoEste(a, p)
    BY <1>3, SoUmPede DEF Reclamaveis
  <2>3. repasse[p] = "fora"
    BY <1>1, <1>3 DEF Movimentado, TypeOK
  <2>4. SabeDoAtor(a)' /\ ~Pede(a)'
    BY <1>1, <2>1 DEF Vai, SabeDoAtor, Pede, Pag, Pix, PassosSoPix, PassosSoStripe
  <2>5. registro'[p] = g => SabeDoRegistro(p)'
    BY <1>1, <1>3, <2>3 DEF SabeDoRegistro, Pix, SoRegistro, externo, Reclamaveis, Bloqueantes
  <2>6. g \in RegistrosStripe \cup {"nenhum"}
    BY <1>1, <1>3 DEF TypeOK, RegistrosStripe
  <2>. QED
    BY <1>0, <1>1, <1>3, <2>1, <2>2, <2>4, <2>5, <2>6, RegistroInv
<1>4. ASSUME ~Movimentado(p), Ir(a, "reclamando"),
             registro' = IF registro[p] = "nenhum" THEN [registro EXCEPT ![p] = "reserved"]
                         ELSE registro
      PROVE  IInv'
  <2>1. CASE registro[p] = "nenhum"
    BY <1>3, <1>4, <2>1 DEF Gravar
  <2>2. CASE registro[p] # "nenhum"
    BY <1>1, <1>3, <1>4, <2>2, NaoGravar
  <2>. QED BY <2>1, <2>2
<1>. QED
    BY <1>0, <1>2, <1>4 DEF Reservar

LEMMA ReclamarInv ==
    ASSUME IInv, NEW a \in Atores, Reclamar(a), UNCHANGED pix
    PROVE  IInv'
<1>0. PICK p \in Pagamentos : p = Pag(a)
    BY OndeEstao DEF Reclamar, Em
<1>1. /\ SoRegistro /\ TypeOK /\ SabeDoAtor(a) /\ SabeDoRegistro(p) /\ ~Pix(p)
      /\ ator[a].passo = "reclamando"
    BY <1>0 DEF Reclamar, IInv, Em, SabeDoAtor, PassosSoPix, PassosSoStripe, Pag
<1>2. CASE UNCHANGED registro /\ Sair(a)
    BY <1>1, <1>2, SairInv DEF SoRegistro, local, TypeOK
<1>3. CASE UNCHANGED registro /\ registro[p] = "provider_succeeded" /\ Ir(a, "convergindo")
  <2>1. Vai(a, "convergindo", p, ator[a].saida)
    BY <1>0, <1>1, <1>3, IrVai, PassosConhecidos
  <2>2. SabeDoAtor(a)' /\ ~Pede(a)'
    BY <1>1, <2>1 DEF Vai, SabeDoAtor, Pede, Pag, Pix, PassosSoPix, PassosSoStripe
  <2>3. UNCHANGED <<pix, local, repasse, externo>>
    BY <1>1, <1>3 DEF SoRegistro, local
  <2>. QED
    BY <1>1, <2>1, <2>2, <2>3, AtorAnda DEF SoRegistro, TypeOK
<1>4. CASE /\ registro[p] \in {"reserved", "provider_failed"} /\ ~Movimentado(p)
           /\ Gravar(p, "provider_started") /\ Ir(a, "pedindo")
  <2>1. Vai(a, "pedindo", p, ator[a].saida)
    BY <1>0, <1>1, <1>4, IrVai, PassosConhecidos
  <2>2. PedeSoEste(a, p)
    BY <1>4, SoUmPede DEF Reclamaveis
  <2>3. repasse[p] = "fora"
    BY <1>1, <1>4 DEF Movimentado, TypeOK
  <2>4. voando[p] = 0 /\ banco[p] \in {"nada", "recusado", "painel"}
    BY <1>1, <1>4 DEF SabeDoRegistro, Reclamaveis
  <2>5. registro'[p] = "provider_started" => SabeDoRegistro(p)'
    BY <1>1, <1>4, <2>3, <2>4 DEF SabeDoRegistro, Pix, SoRegistro, externo, Reclamaveis, Bloqueantes
  <2>6. registro'[p] = "provider_started" => SabeDoAtor(a)'
    BY <1>1, <1>4, <2>1, <2>4
       DEF Vai, SabeDoAtor, Pede, Pag, Pix, PassosSoPix, PassosSoStripe, SoRegistro, externo,
       Reclamaveis
  <2>7. "provider_started" \in RegistrosStripe
    BY DEF RegistrosStripe
  <2>. QED
    BY <1>0, <1>1, <1>4, <2>1, <2>2, <2>5, <2>6, <2>7, RegistroInv
<1>. QED
    BY <1>0, <1>2, <1>3, <1>4 DEF Reclamar

LEMMA DesconhecerInv ==
    ASSUME IInv, NEW a \in Atores, Desconhecer(a), UNCHANGED pix
    PROVE  IInv'
<1>0. PICK p \in Pagamentos : p = Pag(a)
    BY OndeEstao DEF Desconhecer, Em
<1>1. /\ SoRegistro /\ TypeOK /\ SabeDoAtor(a) /\ SabeDoRegistro(p) /\ ~Pix(p) /\ Pede(a)
      /\ ator[a].passo = "desconhecendo" /\ Sair(a)
    BY <1>0 DEF Desconhecer, IInv, Em, SabeDoAtor, PassosSoPix, PassosSoStripe, Pag, Pede
<1>2. CASE registro[p] # "provider_started"
    BY <1>0, <1>1, <1>2, SairInv DEF Desconhecer, SoRegistro, local, TypeOK
<1>3. CASE registro[p] = "provider_started"
  <2>1. Gravar(p, "outcome_unknown")
    BY <1>0, <1>3 DEF Desconhecer, Gravar
  <2>2. Vai(a, "livre", Ninguem, "nenhum")
    BY <1>1, SairVai
  <2>3. PedeSoEste(a, p)
    BY <1>0, <1>1, SoUmPede
  <2>4. SabeDoAtor(a)' /\ ~Pede(a)'
    BY <2>2, LivreSabe DEF Vai
  <2>5. registro'[p] = "outcome_unknown" => SabeDoRegistro(p)'
    BY <1>1, <1>3 DEF SabeDoRegistro, Pix, SoRegistro, externo, Reclamaveis, Bloqueantes,
       Registros, RegistrosPix, RegistrosStripe
  <2>6. "outcome_unknown" \in RegistrosStripe
    BY DEF RegistrosStripe
  <2>. QED
    BY <1>0, <1>1, <2>1, <2>2, <2>3, <2>4, <2>5, <2>6, RegistroInv
<1>. QED BY <1>2, <1>3

LEMMA GravarResultadoInv ==
    ASSUME IInv, NEW a \in Atores, GravarResultado(a), UNCHANGED pix
    PROVE  IInv'
<1>0. PICK p \in Pagamentos : p = Pag(a)
    BY OndeEstao DEF GravarResultado, Em
<1>1. /\ SoRegistro /\ TypeOK /\ SabeDoAtor(a) /\ SabeDoRegistro(p) /\ ~Pix(p) /\ Pede(a)
      /\ ator[a].passo = "gravando"
    BY <1>0 DEF GravarResultado, IInv, Em, SabeDoAtor, Pag, Pede
<1>2. PICK g : g = IF registro[p] = "provider_started" THEN ator[a].saida ELSE registro[p]
    OBVIOUS
<1>3. /\ Gravar(p, g)
      /\ IF g \in {"provider_failed", "provider_pending"} THEN Sair(a) ELSE Ir(a, "convergindo")
    BY <1>0, <1>2 DEF GravarResultado
<1>4. /\ \/ g = registro[p]
         \/ /\ registro[p] = "provider_started" /\ voando[p] = 0
            /\ g \in {"provider_pending", "provider_succeeded", "provider_failed"}
      /\ g \in RegistrosStripe \cup {"nenhum"}
      /\ g = "provider_succeeded" => banco[p] \in {"devolvido", "painel"}
      /\ g = "provider_failed" => banco[p] \in {"recusado", "painel"}
    BY <1>0, <1>1, <1>2 DEF SabeDoAtor, SabeDoRegistro, Pag, TypeOK, RegistrosStripe, Pix
<1>5. \/ Vai(a, "convergindo", p, ator[a].saida)
      \/ Vai(a, "livre", Ninguem, "nenhum")
    BY <1>0, <1>1, <1>3, IrVai, SairVai, PassosConhecidos
<1>6. registro'[p] = g => SabeDoRegistro(p)'
    BY <1>1, <1>4 DEF SabeDoRegistro, Pix, SoRegistro, externo, Bloqueantes, Registros,
       RegistrosPix, RegistrosStripe, Reclamaveis
<1>8. PedeSoEste(a, p)
    BY <1>0, <1>1, SoUmPede
<1>7. ASSUME NEW passo, NEW q, NEW s, Vai(a, passo, q, s),
             (passo = "convergindo" /\ q = p) \/ passo = "livre"
      PROVE  IInv'
  <2>1. SabeDoAtor(a)' /\ ~Pede(a)'
    BY <1>1, <1>7 DEF Vai, SabeDoAtor, Pede, Pag, Pix, PassosSoPix, PassosSoStripe,
       SoRegistro, externo
  <2>. QED
    BY <1>0, <1>1, <1>3, <1>4, <1>6, <1>7, <1>8, <2>1, RegistroInv
<1>. QED
    BY <1>5, <1>7

\* A convergence of the operation in state s, which is its own or what a callback says.
LEMMA ConvergenciaInv ==
    ASSUME IInv, NEW a \in Atores, NEW p \in Pagamentos, p = Pag(a), ator[a].passo # "livre",
           ~Pix(p), NEW s, Convergencia(p, s),
           \/ s = registro[p]
           \/ /\ banco[p] \in {"devolvido", "painel"}
              /\ s \in {"outcome_unknown", "provider_succeeded"},
           Vai(a, "livre", Ninguem, "nenhum"), UNCHANGED <<pix, repasse, externo>>,
           visto' \in [Pagamentos -> BOOLEAN], avisado' \in [Pagamentos -> BOOLEAN],
           falhas' \in 0..MaxFalhas
    PROVE  IInv'
<1>0. TypeOK /\ SabeDoRegistro(p)
    BY DEF IInv
<1>1. PICK g : g = registro'[p]
    OBVIOUS
<1>2. /\ s \in RegistrosStripe \cup {"nenhum"}
      /\ s = "provider_succeeded" => banco[p] \in {"devolvido", "painel"}
    BY <1>0 DEF TypeOK, SabeDoRegistro, RegistrosStripe, Pix
<1>3. /\ registro' = [registro EXCEPT ![p] = g]
      /\ \/ g = s /\ UNCHANGED <<status, cancelado>>
         \/ /\ s = "provider_succeeded" /\ g = "local_committed" /\ ~Movimentado(p)
            /\ status' = [status EXCEPT ![p] = "estornado"]
            /\ cancelado' = [cancelado EXCEPT ![p] = TRUE]
    BY <1>0, <1>1 DEF Convergencia, TypeOK
<1>4. g \in RegistrosStripe \cup {"nenhum"}
    BY <1>2, <1>3 DEF RegistrosStripe
<1>5. TypeOK'
  <2>1. registro' \in [Pagamentos -> Registros]
    BY <1>0, <1>3, <1>4 DEF TypeOK, Registros
  <2>2. status' \in [Pagamentos -> {"aprovado", "estornado"}]
    BY <1>0, <1>3 DEF TypeOK
  <2>3. cancelado' \in [Pagamentos -> BOOLEAN]
    BY <1>0, <1>3 DEF TypeOK
  <2>. QED
    BY <1>0, <1>3, <1>4, <2>1, <2>2, <2>3 DEF TypeOK, Vai, TipoDoAtor, externo, Pix
<1>6. \A x \in Pagamentos \ {p} :
         registro'[x] = registro[x] /\ status'[x] = status[x] /\ cancelado'[x] = cancelado[x]
    BY <1>0, <1>3 DEF TypeOK
<1>7. SabeDoAtor(a)' /\ ~Pede(a)'
    BY LivreSabe DEF Vai
<1>8. SabeDoRegistro(p)'
  <2>1. banco[p] # "painel" /\ g \in Bloqueantes => repasse[p] = "fora"
    BY <1>0, <1>2, <1>3 DEF SabeDoRegistro, TypeOK, Movimentado, Bloqueantes, Registros, RegistrosPix,
       RegistrosStripe, Pix
  <2>2. CASE g = s /\ UNCHANGED <<status, cancelado>>
    BY <1>0, <1>1, <1>2, <2>1, <2>2 DEF SabeDoRegistro, externo, Pix, Reclamaveis
  <2>3. CASE /\ s = "provider_succeeded" /\ g = "local_committed"
             /\ status' = [status EXCEPT ![p] = "estornado"]
             /\ cancelado' = [cancelado EXCEPT ![p] = TRUE]
    BY <1>0, <1>1, <1>2, <2>1, <2>3 DEF SabeDoRegistro, externo, Pix, Reclamaveis
  <2>. QED
    BY <1>3, <2>2, <2>3
<1>9. \/ registro'[p] = registro[p]
      \/ g \notin Reclamaveis /\ banco[p] \in {"devolvido", "painel"}
    BY <1>0, <1>1, <1>2, <1>3 DEF Reclamaveis
<1>. QED
    BY <1>1, <1>5, <1>6, <1>7, <1>8, <1>9, AtorGrava

LEMMA ConvergirInv ==
    ASSUME IInv, NEW a \in Atores, Convergir(a), UNCHANGED pix
    PROVE  IInv'
<1>0. PICK p \in Pagamentos : p = Pag(a)
    BY OndeEstao DEF Convergir, Em
<1>1. /\ TypeOK /\ ~Pix(p) /\ ator[a].passo = "convergindo" /\ Convergencia(p, registro[p])
      /\ UNCHANGED <<visto, repasse, externo, avisado, falhas>>
    BY <1>0 DEF Convergir, IInv, Em, SabeDoAtor, PassosSoPix, PassosSoStripe, Pag
<1>2. Vai(a, "livre", Ninguem, "nenhum")
    BY <1>1, SairVai DEF Convergir
<1>. QED
    BY <1>0, <1>1, <1>2, ConvergenciaInv DEF TypeOK

LEMMA ObservarInv ==
    ASSUME IInv, NEW a \in Atores, Observar(a), UNCHANGED pix
    PROVE  IInv'
<1>0. PICK p \in Pagamentos : p = Pag(a)
    BY OndeEstao DEF Observar, Em
<1>1. /\ TypeOK /\ ~Pix(p) /\ ator[a].passo = "observando"
      /\ banco[p] \in {"devolvido", "painel"}
      /\ UNCHANGED <<repasse, externo, falhas>>
    BY <1>0 DEF Observar, IInv, Em, SabeDoAtor, PassosSoPix, PassosSoStripe, Pag
<1>2. Vai(a, "livre", Ninguem, "nenhum") /\ avisado' \in [Pagamentos -> BOOLEAN]
    BY <1>0, <1>1, TerminarVai, SairVai DEF Observar, TypeOK
<1>3. visto' \in [Pagamentos -> BOOLEAN]
    BY <1>0, <1>1 DEF Observar, TypeOK
<1>4. CASE visto[p]
  <2>1. UNCHANGED <<pix, status, cancelado, registro, repasse, externo, falhas>>
    BY <1>0, <1>1, <1>4 DEF Observar
  <2>2. SabeDoAtor(a)' /\ ~Pede(a)'
    BY <1>2, LivreSabe DEF Vai
  <2>3. SabeDoRegistro(p)'
    BY <2>1 DEF IInv, SabeDoRegistro, externo, Pix
  <2>4. TypeOK'
    BY <1>1, <1>2, <1>3, <2>1 DEF TypeOK, Vai, TipoDoAtor, externo, Pix
  <2>. QED
    BY <1>1, <1>2, <2>1, <2>2, <2>3, <2>4, AtorGrava
<1>5. CASE ~visto[p]
  <2>1. PICK s : s = IF registro[p] = "local_committed" THEN "local_committed"
                     ELSE IF Movimentado(p) THEN "outcome_unknown" ELSE "provider_succeeded"
    OBVIOUS
  <2>2. Convergencia(p, s)
    BY <1>0, <1>5, <2>1 DEF Observar
  <2>3. s = registro[p] \/ s \in {"outcome_unknown", "provider_succeeded"}
    BY <2>1
  <2>4. falhas' \in 0..MaxFalhas
    BY <1>1 DEF TypeOK
  <2>. QED
    BY <1>0, <1>1, <1>2, <1>3, <2>2, <2>3, <2>4, ConvergenciaInv
<1>. QED BY <1>4, <1>5

-----------------------------------------------------------------------------
(* The request, the provider and the payout *)

LEMMA PedirInv ==
    ASSUME IInv, NEW a \in Atores, Pedir(a), UNCHANGED pix
    PROVE  IInv'
<1>0. PICK p \in Pagamentos : p = Pag(a)
    BY OndeEstao DEF Pedir, Em
<1>1. /\ TypeOK /\ SabeDoAtor(a) /\ SabeDoRegistro(p) /\ Pede(a) /\ ator[a].passo = "pedindo"
      /\ UNCHANGED <<pix, local, repasse, banco, devolucoes, avisado, falhas>>
    BY <1>0 DEF Pedir, IInv, Em, Pede
<1>2. CASE Ir(a, IF Pix(p) THEN "apagando" ELSE "desconhecendo") /\ UNCHANGED voando
  <2>1. PICK passo \in Passos : passo = IF Pix(p) THEN "apagando" ELSE "desconhecendo"
    BY DEF Passos
  <2>2. Ir(a, passo) /\ SoAtor
    BY <1>1, <1>2, <2>1 DEF SoAtor, externo
  <2>3. Vai(a, passo, Pag(a), ator[a].saida) => SabeDoAtor(a)'
    BY <1>0, <1>1, <2>1, <2>2 DEF Vai, SabeDoAtor, Pede, Pag, Pix, PassosSoPix, PassosSoStripe,
       SoAtor, local, externo
  <2>. QED
    BY <1>1, <2>1, <2>2, <2>3, IrInv
<1>3. CASE Ir(a, "esperando") /\ voando' = [voando EXCEPT ![p] = @ + 1]
  <2>1. Vai(a, "esperando", p, ator[a].saida)
    BY <1>0, <1>1, <1>3, IrVai, PassosConhecidos
  <2>2. PedeSoEste(a, p)
    BY <1>0, <1>1, SoUmPede
  <2>3. /\ voando' \in [Pagamentos -> Nat] /\ voando'[p] = 1
        /\ \A x \in Pagamentos \ {p} : voando'[x] = voando[x]
    BY <1>0, <1>1, <1>3 DEF TypeOK, SabeDoAtor, Pag
  <2>4. TypeOK'
    BY <1>1, <2>1, <2>3 DEF TypeOK, Vai, TipoDoAtor, local, Pix
  <2>5. \A b \in Atores : SabeDoAtor(b)'
    <3>1. SabeDoAtor(a)'
      BY <1>0, <1>1, <2>1 DEF Vai, SabeDoAtor, Pede, Pag, Pix, PassosSoPix, PassosSoStripe, local
    <3>2. ASSUME NEW b \in Atores \ {a} PROVE SabeDoAtor(b)'
      <4>1. SabeDoAtor(b) /\ ator'[b] = ator[b] /\ ~(Pede(b) /\ Pag(b) = p)
        BY <2>1, <2>2 DEF IInv, Vai, PedeSoEste
      <4>2. CASE ator[b].passo = "livre"
        BY <4>1, <4>2, LivreSabe
      <4>3. CASE ator[b].passo # "livre" /\ Pag(b) # p
        <5>1. voando'[Pag(b)] = voando[Pag(b)]
          BY <2>3, <4>1, <4>3 DEF SabeDoAtor, Pag
        <5>. QED
          BY <1>1, <4>1, <4>3, <5>1 DEF SabeDoAtor, Pede, Pag, Pix, local
      <4>4. CASE ~Pede(b)
        BY <1>1, <4>1, <4>4 DEF SabeDoAtor, Pede, Pag, Pix, local
      <4>. QED
        BY <4>1, <4>2, <4>3, <4>4
    <3>. QED BY <3>1, <3>2
  <2>6. PedeSozinho'
    <3>1. \A b \in Atores : Pede(b)' => Pede(b) /\ Pag(b)' = Pag(b)
      BY <1>0, <1>1, <2>1 DEF Vai, Pede, Pag, Pix
    <3>. QED
      BY <3>1 DEF IInv, PedeSozinho
  <2>7. \A x \in Pagamentos : SabeDoRegistro(x)'
    <3>1. SabeDoRegistro(p)'
      BY <1>0, <1>1, <2>3 DEF SabeDoRegistro, SabeDoAtor, Pede, Pag, Pix, local, Reclamaveis
    <3>2. ASSUME NEW x \in Pagamentos \ {p} PROVE SabeDoRegistro(x)'
      BY <1>1, <2>3 DEF IInv, SabeDoRegistro, Pix, local
    <3>. QED BY <3>1, <3>2
  <2>. QED
    BY <2>4, <2>5, <2>6, <2>7 DEF IInv
<1>. QED
    BY <1>0, <1>2, <1>3 DEF Pedir

\* A step of the provider on p: those who wait for it, or who know of it, are not misled.
LEMMA ProvedorInv ==
    ASSUME IInv, NEW p \in Pagamentos, SoExterno, UNCHANGED pix,
           voando' \in [Pagamentos -> Nat], devolucoes' \in [Pagamentos -> Nat],
           banco' \in [Pagamentos -> {"nada", "processando", "devolvido", "recusado", "painel"}],
           \A x \in Pagamentos \ {p} :
               voando'[x] = voando[x] /\ banco'[x] = banco[x] /\ devolucoes'[x] = devolucoes[x],
           SabeDoRegistro(p)',
           \A b \in Atores : ator[b].passo # "livre" /\ Pag(b) = p => SabeDoAtor(b)'
    PROVE  IInv'
<1>1. TypeOK'
    BY DEF IInv, TypeOK, SoExterno, local, Pix
<1>2. \A b \in Atores : SabeDoAtor(b)'
  <2>1. SUFFICES ASSUME NEW b \in Atores, ator[b].passo # "livre", Pag(b) # p
                 PROVE  SabeDoAtor(b)'
    BY LivreSabe DEF SoExterno
  <2>2. SabeDoAtor(b) /\ Pag(b) \in Pagamentos
    BY <2>1, OndeEstao
  <2>. QED
    BY <2>1, <2>2 DEF SabeDoAtor, Pede, Pag, Pix, SoExterno, local
<1>3. PedeSozinho'
    BY DEF IInv, PedeSozinho, Pede, Pag, Pix, SoExterno
<1>4. \A x \in Pagamentos : SabeDoRegistro(x)'
  <2>1. SUFFICES ASSUME NEW x \in Pagamentos \ {p} PROVE SabeDoRegistro(x)'
    OBVIOUS
  <2>. QED
    BY DEF IInv, SabeDoRegistro, Pix, SoExterno, local
<1>. QED
    BY <1>1, <1>2, <1>3, <1>4 DEF IInv

LEMMA ChegarInv ==
    ASSUME IInv, NEW p \in Pagamentos, NEW destino, Chegar(p, destino), UNCHANGED pix
    PROVE  IInv'
<1>1. TypeOK /\ SabeDoRegistro(p) /\ voando[p] = 1 /\ banco[p] \in {"nada", "recusado", "painel"}
    BY DEF Chegar, IInv, SabeDoRegistro
<1>2. /\ voando' \in [Pagamentos -> Nat] /\ voando'[p] = 0 /\ SoExterno /\ UNCHANGED devolucoes
      /\ \A x \in Pagamentos \ {p} : voando'[x] = voando[x] /\ banco'[x] = banco[x]
      /\ banco' \in [Pagamentos -> {"nada", "processando", "devolvido", "recusado", "painel"}]
      /\ banco'[p] \in {"processando", "recusado", "painel"}
      /\ banco'[p] = "painel" <=> banco[p] = "painel"
    BY <1>1 DEF Chegar, TypeOK
<1>3. SabeDoRegistro(p)'
    BY <1>1, <1>2 DEF SabeDoRegistro, SoExterno, local, Pix, Reclamaveis
<1>4. ASSUME NEW b \in Atores, ator[b].passo # "livre", Pag(b) = p PROVE SabeDoAtor(b)'
    BY <1>1, <1>2, <1>4 DEF IInv, SabeDoAtor, SabeDoRegistro, Pede, Pag, Pix, SoExterno, local
<1>. QED
    BY <1>1, <1>2, <1>3, <1>4, ProvedorInv DEF TypeOK

\* A charge goes from banco[p] to destino; the money went back if it did not before.
LEMMA DestinoInv ==
    ASSUME IInv, NEW p \in Pagamentos, NEW destino, UNCHANGED pix, UNCHANGED voando, SoExterno,
           banco' = [banco EXCEPT ![p] = destino],
           \/ /\ banco[p] = "processando" /\ destino = "devolvido" /\ Devolver(p)
           \/ /\ banco[p] = "processando" /\ destino = "recusado" /\ UNCHANGED devolucoes
           \/ /\ ~Pix(p) /\ banco[p] \in {"nada", "recusado"} /\ destino = "painel" /\ Devolver(p)
    PROVE  IInv'
<1>1. TypeOK /\ SabeDoRegistro(p)
    BY DEF IInv
<1>2. /\ devolucoes' \in [Pagamentos -> Nat]
      /\ devolucoes'[p] = IF destino \in {"devolvido", "painel"} THEN 1 ELSE 0
      /\ \A x \in Pagamentos \ {p} : devolucoes'[x] = devolucoes[x]
    BY <1>1 DEF TypeOK, Devolver, SabeDoRegistro
<1>3. /\ banco'[p] = destino
      /\ \A x \in Pagamentos \ {p} : banco'[x] = banco[x]
      /\ banco' \in [Pagamentos -> {"nada", "processando", "devolvido", "recusado", "painel"}]
    BY <1>1 DEF TypeOK
<1>4. SabeDoRegistro(p)'
    BY <1>1, <1>2, <1>3 DEF SabeDoRegistro, SoExterno, local, Pix, Reclamaveis
<1>5. ASSUME NEW b \in Atores, ator[b].passo # "livre", Pag(b) = p PROVE SabeDoAtor(b)'
  <2>1. SabeDoAtor(b)
    BY DEF IInv
  <2>2. UNCHANGED <<ator, registro, pix, voando>>
    BY DEF SoExterno, local
  <2>. QED
    BY <1>1, <1>3, <1>5, <2>1, <2>2 DEF SabeDoAtor, SabeDoRegistro, Pede, Pag, Pix, PassosSoPix
<1>. QED
    BY <1>1, <1>2, <1>3, <1>4, <1>5, ProvedorInv DEF TypeOK

LEMMA RepasseInv ==
    ASSUME IInv, NEW p \in Pagamentos, PassoDoRepasse(p), UNCHANGED pix
    PROVE  IInv'
<1>1. /\ SoRepasse
      /\ repasse' \in [Pagamentos -> {"fora", "movendo", "pago"}]
      /\ \A x \in Pagamentos \ {p} : repasse'[x] = repasse[x]
      /\ registro[p] \in Bloqueantes /\ banco[p] # "painel" => FALSE
    BY DEF PassoDoRepasse, Prender, Pagar, Soltar, MudarRepasse, IInv, TypeOK, SabeDoRegistro
<1>2. TypeOK'
    BY <1>1 DEF IInv, TypeOK, SoRepasse, local, externo, Pix
<1>3. \A b \in Atores : SabeDoAtor(b)'
    BY <1>1 DEF IInv, SabeDoAtor, Pede, Pag, Pix, SoRepasse, local, externo
<1>4. PedeSozinho'
    BY <1>1 DEF IInv, PedeSozinho, Pede, Pag, Pix, SoRepasse
<1>5. \A x \in Pagamentos : SabeDoRegistro(x)'
  <2>1. SabeDoRegistro(p)'
    BY <1>1 DEF IInv, SabeDoRegistro, Pix, SoRepasse, local, externo
  <2>2. ASSUME NEW x \in Pagamentos \ {p} PROVE SabeDoRegistro(x)'
    BY <1>1 DEF IInv, SabeDoRegistro, Pix, SoRepasse, local, externo
  <2>. QED BY <2>1, <2>2
<1>. QED
    BY <1>2, <1>3, <1>4, <1>5 DEF IInv

-----------------------------------------------------------------------------
(* The invariant *)

LEMMA IInvInicial == Init => IInv
<1>. SUFFICES ASSUME Init PROVE IInv
    OBVIOUS
<1>1. \A a \in Atores : ator[a].passo = "livre"
    BY DEF Init, Livre
<1>2. TypeOK
    BY SuposicaoEstorno DEF Init, TypeOK, Livre, Passos, Registros
<1>3. \A a \in Atores : SabeDoAtor(a) /\ ~Pede(a)
    BY <1>1 DEF SabeDoAtor, Pede, PassosSoPix, PassosSoStripe
<1>4. \A p \in Pagamentos : SabeDoRegistro(p)
  <2>1. SUFFICES ASSUME NEW p \in Pagamentos PROVE SabeDoRegistro(p)
    OBVIOUS
  <2>2. /\ registro[p] = "nenhum" /\ banco[p] = "nada" /\ voando[p] = 0 /\ devolucoes[p] = 0
        /\ status[p] = "aprovado" /\ ~cancelado[p]
    BY DEF Init
  <2>. QED
    BY <2>2 DEF SabeDoRegistro, Bloqueantes
<1>. QED
    BY <1>2, <1>3, <1>4 DEF IInv, PedeSozinho

LEMMA IInvPasso == IInv /\ [Next]_vars => IInv'
<1>. SUFFICES ASSUME IInv, [Next]_vars PROVE IInv'
    OBVIOUS
<1>1. CASE UNCHANGED vars
    BY <1>1 DEF IInv, TypeOK, SabeDoAtor, PedeSozinho, SabeDoRegistro, Pede, Pag, Pix,
       vars, local, externo
<1>2. CASE Next
  <2>0. UNCHANGED pix
    BY <1>2 DEF Next
  <2>1. ASSUME NEW p \in Pagamentos, PassoDoProvedor(p) PROVE IInv'
    <3>1. CASE \E destino \in {"processando", "recusado"} : Chegar(p, destino)
      BY <2>0, <3>1, ChegarInv
    <3>2. CASE Concluir(p) \/ Desistir(p) \/ DevolverNoPainel(p)
      BY <2>0, <3>2, DestinoInv DEF Concluir, Desistir, DevolverNoPainel
    <3>. QED
      BY <2>1, <3>1, <3>2 DEF PassoDoProvedor
  <2>2. ASSUME NEW p \in Pagamentos, PassoDoRepasse(p) PROVE IInv'
    BY <2>0, <2>2, RepasseInv
  <2>3. ASSUME NEW a \in Admins, NEW p \in Pagamentos, Iniciar(a, p) PROVE IInv'
    BY <2>0, <2>3, IniciarInv, PassosConhecidos DEF Iniciar, Atores
  <2>4. ASSUME NEW h \in Avisos, NEW p \in Pagamentos, Avisar(h, p) PROVE IInv'
    <3>1. PICK passo \in Passos : passo = IF Pix(p) THEN "verificando" ELSE "observando"
      BY DEF Passos
    <3>2. Comecar(h, p, passo)
      BY <2>4, <3>1 DEF Avisar
    <3>. QED
      BY <2>0, <2>4, <3>1, <3>2, IniciarInv DEF Avisar, Atores
  <2>5. ASSUME NEW a \in Atores, PassoDoAtor(a) PROVE IInv'
    <3>1. CASE PassoPix(a)
      BY <2>0, <3>1, CriarInv, ApagarInv, ConsultarInv, GravarDevolucaoInv, ConfirmarInv,
         FinalizarInv, EstornarInv, CancelarInv DEF PassoPix
    <3>2. CASE PassoStripe(a)
      BY <2>0, <3>2, ReservarInv, ReclamarInv, DesconhecerInv, GravarResultadoInv, ConvergirInv
         DEF PassoStripe
    <3>. QED
      BY <2>0, <2>5, <3>1, <3>2, LerInv, PedirInv, ReceberInv, VerificarInv, ObservarInv
         DEF PassoDoAtor
  <2>6. ASSUME NEW a \in Atores, Cair(a) PROVE IInv'
    BY <2>0, <2>6, CairInv
  <2>. QED
    BY <1>2, <2>1, <2>2, <2>3, <2>4, <2>5, <2>6 DEF Next
<1>. QED
    BY <1>1, <1>2

\* The inductive invariant holds in every state.
THEOREM InvarianteCorreto == Spec => []IInv
BY IInvInicial, IInvPasso, PTL DEF Spec

\* Every variable has its type in every state.
THEOREM TipoCorreto == Spec => []TypeOK
<1>1. IInv => TypeOK
    BY DEF IInv
<1>. QED
    BY <1>1, InvarianteCorreto, PTL

\* The money of a payment goes back at most once, however many ask (createIfAbsent and
\* claimProviderStart let one requester in).
THEOREM DevolucaoUnica == Spec => []DevolveUmaVez
<1>1. ASSUME IInv PROVE DevolveUmaVez
  <2>1. SUFFICES ASSUME NEW p \in Pagamentos PROVE devolucoes[p] <= 1
    BY DEF DevolveUmaVez
  <2>2. devolucoes[p] = 0 \/ devolucoes[p] = 1
    BY <1>1 DEF IInv, SabeDoRegistro
  <2>3. 0 <= 1 /\ 1 <= 1
    OBVIOUS
  <2>. QED
    BY <2>2, <2>3
<1>. QED
    BY <1>1, InvarianteCorreto, PTL

\* Only what the provider gave back is estornado or cancelled.
THEOREM EstornoVerdadeiro == Spec => []EstornadoFoiDevolvido
<1>1. IInv => EstornadoFoiDevolvido
    BY DEF IInv, SabeDoRegistro, EstornadoFoiDevolvido
<1>. QED
    BY <1>1, InvarianteCorreto, PTL

-----------------------------------------------------------------------------
(* The refinement *)

\* What the provider took on, it does while the payout is out.
LEMMA TomadoBloqueia ==
    ASSUME IInv, NEW p \in Pagamentos, banco[p] \in {"processando", "devolvido"}
    PROVE  repasse[p] = "fora"
BY DEF IInv, SabeDoRegistro, TypeOK, Bloqueantes, Registros, RegistrosPix, RegistrosStripe, Pix

\* The money of one payment moves in the abstract.
LEMMA UmMove ==
    ASSUME NEW p \in Pagamentos, NEW de, NEW para,
           Destino(p) = de, Destino(p)' = para,
           \A x \in Pagamentos \ {p} : Destino(x)' = Destino(x)
    PROVE  Credito!Mover(de, para)
<1>1. {p} \in SUBSET Pagamentos /\ \A x \in {p} : [y \in Pagamentos |-> Destino(y)][x] = de
    OBVIOUS
<1>2. [y \in Pagamentos |-> Destino(y)]'
         = [x \in Pagamentos |-> IF x \in {p} THEN para ELSE [y \in Pagamentos |-> Destino(y)][x]]
    OBVIOUS
<1>. QED
    BY <1>1, <1>2 DEF Credito!Mover

\* Where the money is depends on the charge and on the payout alone.
LEMMA DestinoFica ==
    ASSUME \A p \in Pagamentos : Destino(p)' = Destino(p)
    PROVE  UNCHANGED [p \in Pagamentos |-> Destino(p)]
OBVIOUS

LEMMA PassoMapeado ==
    ASSUME IInv, [Next]_vars
    PROVE  Credito!Next \/ UNCHANGED [p \in Pagamentos |-> Destino(p)]
<1>1. CASE UNCHANGED <<repasse, banco>>
    BY <1>1, DestinoFica DEF Destino
<1>2. ASSUME NEW p \in Pagamentos, NEW destino, Chegar(p, destino)
      PROVE  UNCHANGED [x \in Pagamentos |-> Destino(x)]
  <2>1. banco[p] # "devolvido" /\ banco'[p] # "devolvido"
    BY <1>2 DEF IInv, SabeDoRegistro, Chegar, TypeOK
  <2>2. UNCHANGED repasse /\ \A x \in Pagamentos \ {p} : banco'[x] = banco[x]
    BY <1>2 DEF IInv, TypeOK, Chegar, SoExterno
  <2>. QED
    BY <2>1, <2>2, DestinoFica DEF Destino
<1>3. ASSUME NEW p \in Pagamentos, Concluir(p) PROVE Credito!Devolver
  <2>1. repasse[p] = "fora" /\ UNCHANGED repasse
    BY <1>3, TomadoBloqueia DEF Concluir, SoExterno
  <2>2. /\ banco[p] = "processando" /\ banco'[p] = "devolvido"
        /\ \A x \in Pagamentos \ {p} : banco'[x] = banco[x]
    BY <1>3 DEF IInv, TypeOK, Concluir
  <2>3. Destino(p) = "plataforma" /\ Destino(p)' = "contribuinte"
    BY <2>1, <2>2 DEF Destino
  <2>4. \A x \in Pagamentos \ {p} : Destino(x)' = Destino(x)
    BY <2>1, <2>2 DEF Destino
  <2>. QED
    BY <2>3, <2>4, UmMove DEF Credito!Devolver
<1>4. ASSUME NEW p \in Pagamentos, Desistir(p) \/ DevolverNoPainel(p)
      PROVE  UNCHANGED [x \in Pagamentos |-> Destino(x)]
  <2>1. banco[p] # "devolvido" /\ banco'[p] # "devolvido"
    BY <1>4 DEF IInv, Desistir, DevolverNoPainel, TypeOK
  <2>2. UNCHANGED repasse /\ \A x \in Pagamentos \ {p} : banco'[x] = banco[x]
    BY <1>4 DEF IInv, TypeOK, Desistir, DevolverNoPainel, SoExterno
  <2>. QED
    BY <2>1, <2>2, DestinoFica DEF Destino
<1>5. ASSUME NEW p \in Pagamentos, Prender(p) \/ Soltar(p)
      PROVE  UNCHANGED [x \in Pagamentos |-> Destino(x)]
  <2>1. /\ UNCHANGED banco /\ repasse[p] # "pago" /\ repasse'[p] # "pago"
        /\ \A x \in Pagamentos \ {p} : repasse'[x] = repasse[x]
    BY <1>5 DEF IInv, TypeOK, Prender, Soltar, MudarRepasse, SoRepasse, externo
  <2>. QED
    BY <2>1, DestinoFica DEF Destino
<1>6. ASSUME NEW p \in Pagamentos, Pagar(p) PROVE Credito!Entregar
  <2>1. /\ UNCHANGED banco /\ repasse[p] = "movendo" /\ repasse'[p] = "pago"
        /\ \A x \in Pagamentos \ {p} : repasse'[x] = repasse[x]
    BY <1>6 DEF IInv, TypeOK, Pagar, MudarRepasse, SoRepasse, externo
  <2>2. banco[p] # "devolvido"
    BY <2>1, TomadoBloqueia
  <2>3. Destino(p) = "plataforma" /\ Destino(p)' = "recebedor"
    BY <2>1, <2>2 DEF Destino
  <2>4. \A x \in Pagamentos \ {p} : Destino(x)' = Destino(x)
    BY <2>1 DEF Destino
  <2>. QED
    BY <2>3, <2>4, UmMove DEF Credito!Entregar
<1>7. ASSUME NEW a \in Atores, PassoDoAtor(a) \/ Cair(a) PROVE UNCHANGED <<repasse, banco>>
  <2>1. CASE PassoPix(a)
    BY <2>1 DEF PassoPix, CriarDevolucao, ApagarDevolucao, Consultar, GravarDevolucao,
       ConfirmarDevolucao, Finalizar, EstornarPagamento, CancelarLancamentos, SoAtor,
       SoRegistro, externo
  <2>2. CASE PassoStripe(a)
    BY <2>2 DEF PassoStripe, Reservar, Reclamar, Desconhecer, GravarResultado, Convergir,
       SoRegistro, externo
  <2>3. CASE Ler(a) \/ Pedir(a) \/ Receber(a) \/ Verificar(a) \/ Observar(a) \/ Cair(a)
    BY <2>3 DEF Ler, Pedir, Receber, Verificar, Observar, Cair, SoAtor, externo
  <2>. QED
    BY <1>7, <2>1, <2>2, <2>3 DEF PassoDoAtor
<1>8. CASE UNCHANGED vars
    BY <1>1, <1>8 DEF vars, externo
<1>9. CASE Next
  <2>1. ASSUME NEW p \in Pagamentos, PassoDoProvedor(p) \/ PassoDoRepasse(p)
        PROVE  Credito!Next \/ UNCHANGED [x \in Pagamentos |-> Destino(x)]
    BY <1>2, <1>3, <1>4, <1>5, <1>6, <2>1
       DEF PassoDoProvedor, PassoDoRepasse, Credito!Next
  <2>2. ASSUME NEW a, NEW p, Iniciar(a, p) \/ Avisar(a, p) PROVE UNCHANGED <<repasse, banco>>
    BY <2>2 DEF Iniciar, Avisar, SoAtor, externo
  <2>. QED
    BY <1>1, <1>7, <1>9, <2>1, <2>2 DEF Next
<1>. QED
    BY <1>8, <1>9

\* The refund of a payment, against its payout, implements the destinies of a credit:
\* what Inter or Stripe gave back did not also go to the receiver.
THEOREM EstornoImplementaDestino == Spec => ImplementaDestino
<1>1. Init => Credito!Init
  <2>1. ASSUME Init PROVE [p \in Pagamentos |-> Destino(p)] = [p \in Pagamentos |-> "plataforma"]
    BY <2>1 DEF Init, Destino
  <2>. QED
    BY <2>1 DEF Credito!Init
<1>2. IInv /\ [Next]_vars => Credito!Next \/ UNCHANGED [p \in Pagamentos |-> Destino(p)]
    BY PassoMapeado
<1>. QED
    BY <1>1, <1>2, InvarianteCorreto, PTL DEF Spec, ImplementaDestino, Credito!Spec

-----------------------------------------------------------------------------
(* An acknowledged callback was recorded *)

\* The record is closed before its effects are written one by one, and they are
\* written for a refund the provider made.
EfeitosDoAtor(a) ==
    LET p == Pag(a) IN
    /\ ator[a].passo \in {"finalizando", "estornando", "cancelando"} => registro[p] = "devolvida"
    /\ ator[a].passo = "cancelando" => status[p] = "estornado"
    /\ ator[a].passo = "verificando" => banco[p] # "nada"

Registrado(p) == status[p] = "estornado" /\ cancelado[p]

EfeitosDoRegistro(p) == registro[p] = "local_committed" \/ avisado[p] => Registrado(p)

Efeitos ==
    /\ \A a \in Atores : EfeitosDoAtor(a)
    /\ \A p \in Pagamentos : EfeitosDoRegistro(p)

\* What no step undoes.
Firme ==
    \A p \in Pagamentos :
        /\ status[p] = "estornado" => status'[p] = "estornado"
        /\ cancelado[p] => cancelado'[p]
        /\ registro[p] \in {"devolvida", "local_committed"} => registro'[p] = registro[p]
        /\ banco[p] # "nada" => banco'[p] # "nada"

\* No operation is closed and no callback acknowledged by the step, but for payments
\* whose refund is recorded.
SoRegistrados ==
    \A p \in Pagamentos :
        /\ registro'[p] = "local_committed" => registro[p] = "local_committed" \/ Registrado(p)'
        /\ avisado'[p] => avisado[p] \/ Registrado(p)'

LEMMA EfeitosMantidos ==
    ASSUME IInv, Efeitos, Firme, SoRegistrados,
           \A b \in Atores : ator'[b] = ator[b] \/ EfeitosDoAtor(b)'
    PROVE  Efeitos'
<1>1. ASSUME NEW b \in Atores, ator'[b] = ator[b] PROVE EfeitosDoAtor(b)'
  <2>1. Pag(b)' = Pag(b) /\ (ator[b].passo # "livre" => Pag(b) \in Pagamentos)
    BY <1>1 DEF IInv, SabeDoAtor, Pag
  <2>. QED
    BY <1>1, <2>1 DEF Efeitos, EfeitosDoAtor, Firme
<1>2. ASSUME NEW p \in Pagamentos PROVE EfeitosDoRegistro(p)'
  BY <1>2 DEF Efeitos, EfeitosDoRegistro, Registrado, Firme, SoRegistrados
<1>. QED
  BY <1>1, <1>2 DEF Efeitos

\* A step that writes no effect, no record and acknowledges nothing.
LEMMA EfeitosQuietos ==
    ASSUME IInv, Efeitos, UNCHANGED <<status, cancelado, registro, avisado>>,
           \A p \in Pagamentos : banco[p] # "nada" => banco'[p] # "nada",
           \A b \in Atores : ator'[b] = ator[b] \/ EfeitosDoAtor(b)'
    PROVE  Efeitos'
BY EfeitosMantidos DEF Firme, SoRegistrados

\* An actor that reaches a step at which nothing need be known.
LEMMA AtorSemEfeito ==
    ASSUME NEW a \in Atores, NEW passo, NEW q, NEW s, Vai(a, passo, q, s),
           passo \notin {"finalizando", "estornando", "cancelando", "verificando"}
    PROVE  \A b \in Atores : ator'[b] = ator[b] \/ EfeitosDoAtor(b)'
<1>1. EfeitosDoAtor(a)'
    BY DEF Vai, EfeitosDoAtor
<1>. QED
    BY <1>1 DEF Vai

\* The record of one payment changes, unless it is closed.
LEMMA EfeitosDaGravacao ==
    ASSUME IInv, Efeitos, NEW p \in Pagamentos, NEW g, Gravar(p, g), SoRegistro,
           g # "local_committed" \/ g = registro[p],
           registro[p] \in {"devolvida", "local_committed"} => g = registro[p],
           \A b \in Atores : ator'[b] = ator[b] \/ EfeitosDoAtor(b)'
    PROVE  Efeitos'
<1>1. Firme /\ SoRegistrados
    BY DEF IInv, TypeOK, Gravar, SoRegistro, externo, Firme, SoRegistrados
<1>. QED
    BY <1>1, EfeitosMantidos

\* The actor leaves, or goes to such a step.
LEMMA AtorQuieto ==
    ASSUME TypeOK, NEW a \in Atores,
           \/ Sair(a)
           \/ \E x \in Passos \ {"finalizando", "estornando", "cancelando", "verificando"} :
                 \/ Ir(a, x)
                 \/ \E s \in Registros : IrCom(a, x, s)
    PROVE  \A b \in Atores : ator'[b] = ator[b] \/ EfeitosDoAtor(b)'
<1>1. CASE Sair(a)
    BY <1>1, SairVai, AtorSemEfeito
<1>2. ASSUME NEW x \in Passos \ {"finalizando", "estornando", "cancelando", "verificando"},
             Ir(a, x) \/ \E s \in Registros : IrCom(a, x, s)
      PROVE  \A b \in Atores : ator'[b] = ator[b] \/ EfeitosDoAtor(b)'
    BY <1>2, IrVai, IrComVai, AtorSemEfeito
<1>. QED
    BY <1>1, <1>2

\* Steps of an actor that change no effect and no record.
LEMMA EfeitosSoAtor ==
    ASSUME IInv, Efeitos, NEW a \in Atores,
           Ler(a) \/ Pedir(a) \/ Receber(a) \/ Consultar(a) \/ Finalizar(a) \/ Cair(a)
    PROVE  Efeitos'
<1>0. TypeOK /\ (ator[a].passo # "livre" => SabeDoAtor(a)) /\ EfeitosDoAtor(a)
    BY DEF IInv, Efeitos
<1>1. UNCHANGED <<status, cancelado, registro, avisado, banco>>
    BY DEF Ler, Pedir, Receber, Consultar, Finalizar, Cair, SoAtor, local, externo
<1>2. \A b \in Atores : ator'[b] = ator[b] \/ EfeitosDoAtor(b)'
  <2>1. CASE Ler(a)
    BY <1>0, <2>1, AtorQuieto DEF Ler, Passos
  <2>2. CASE Pedir(a)
    BY <1>0, <2>2, AtorQuieto DEF Pedir, Passos
  <2>3. CASE Receber(a)
    <3>1. Sair(a) \/ Ir(a, "desconhecendo") \/ \E s \in Registros : IrCom(a, "gravando", s)
      BY <2>3 DEF Receber, Resposta, Registros, RegistrosPix, RegistrosStripe
    <3>. QED
      BY <1>0, <3>1, AtorQuieto DEF Passos
  <2>4. CASE Consultar(a)
    <3>1. Sair(a) \/ \E s \in Registros : IrCom(a, "gravando", s)
      BY <2>4 DEF Consultar, Resposta, Registros, RegistrosPix, RegistrosStripe
    <3>. QED
      BY <1>0, <3>1, AtorQuieto DEF Passos
  <2>5. CASE Finalizar(a)
    <3>1. CASE Sair(a)
      BY <1>0, <3>1, AtorQuieto
    <3>2. ASSUME NEW x \in {"cancelando", "estornando"}, Ir(a, x),
                 x = "cancelando" => status[Pag(a)] = "estornado"
          PROVE  \A b \in Atores : ator'[b] = ator[b] \/ EfeitosDoAtor(b)'
      <4>1. Vai(a, x, Pag(a), ator[a].saida)
        BY <1>0, <3>2, IrVai DEF Passos
      <4>2. registro[Pag(a)] = "devolvida"
        BY <1>0, <2>5 DEF Finalizar, Em, EfeitosDoAtor
      <4>3. EfeitosDoAtor(a)'
        BY <1>1, <3>2, <4>1, <4>2 DEF Vai, EfeitosDoAtor, Pag
      <4>. QED
        BY <4>1, <4>3 DEF Vai
    <3>. QED
      BY <2>5, <3>1, <3>2 DEF Finalizar
  <2>6. CASE Cair(a)
    BY <1>0, <2>6, AtorQuieto DEF Cair
  <2>. QED
    BY <2>1, <2>2, <2>3, <2>4, <2>5, <2>6
<1>. QED
    BY <1>1, <1>2, EfeitosQuietos

\* Steps of an actor that write the record of its payment.
LEMMA EfeitosDoRegistrar ==
    ASSUME IInv, Efeitos, NEW a \in Atores,
           \/ CriarDevolucao(a) \/ ApagarDevolucao(a) \/ GravarDevolucao(a)
           \/ Reservar(a) \/ Reclamar(a) \/ Desconhecer(a) \/ GravarResultado(a)
    PROVE  Efeitos'
<1>0. TypeOK
    BY DEF IInv
<1>p. PICK p \in Pagamentos : p = Pag(a) /\ ator[a].passo # "livre" /\ SabeDoAtor(a)
    BY OndeEstao DEF CriarDevolucao, ApagarDevolucao, GravarDevolucao, Reservar, Reclamar,
       Desconhecer, GravarResultado, Em
<1>r. UNCHANGED registro => Gravar(p, registro[p])
    BY <1>0 DEF Gravar, TypeOK
<1>s. SoRegistro
    BY DEF CriarDevolucao, ApagarDevolucao, GravarDevolucao, Reservar, Reclamar, Desconhecer,
       GravarResultado
<1>1. \E g : /\ Gravar(p, g)
             /\ g # "local_committed" \/ g = registro[p]
             /\ registro[p] \in {"devolvida", "local_committed"} => g = registro[p]
  <2>1. CASE CriarDevolucao(a) \/ ApagarDevolucao(a)
    BY <1>p, <1>r, <2>1 DEF CriarDevolucao, ApagarDevolucao, Gravar
  <2>2. CASE GravarDevolucao(a)
    <3>1. Gravar(p, Desfecho(p, ator[a].saida)) /\ ator[a].saida # "local_committed"
      BY <1>p, <2>2 DEF GravarDevolucao, Em, SabeDoAtor
    <3>. QED
      BY <3>1 DEF Desfecho
  <2>3. CASE Reservar(a) \/ Reclamar(a)
    BY <1>p, <1>r, <2>3 DEF Reservar, Reclamar, Gravar
  <2>4. CASE Desconhecer(a)
    BY <1>p, <1>r, <2>4 DEF Desconhecer, Gravar
  <2>5. CASE GravarResultado(a)
    <3>1. ator[a].saida # "local_committed"
      BY <1>p, <2>5 DEF GravarResultado, Em, SabeDoAtor
    <3>. QED
      BY <1>p, <2>5, <3>1 DEF GravarResultado
  <2>. QED
    BY <2>1, <2>2, <2>3, <2>4, <2>5
<1>2. \A b \in Atores : ator'[b] = ator[b] \/ EfeitosDoAtor(b)'
  <2>1. \/ Sair(a)
        \/ \E x \in Passos \ {"finalizando", "estornando", "cancelando", "verificando"} :
              Ir(a, x)
    BY DEF CriarDevolucao, ApagarDevolucao, GravarDevolucao, Reservar, Reclamar, Desconhecer,
       GravarResultado, Ramificar, Passos
  <2>. QED
    BY <1>0, <2>1, AtorQuieto
<1>. QED
    BY <1>s, <1>1, <1>2, EfeitosDaGravacao

\* A devolucao is closed before its effects are written.
LEMMA EfeitosDoConfirmar ==
    ASSUME IInv, Efeitos, NEW a \in Atores, ConfirmarDevolucao(a)
    PROVE  Efeitos'
<1>0. TypeOK /\ SoRegistro
    BY DEF IInv, ConfirmarDevolucao
<1>1. PICK p \in Pagamentos : p = Pag(a)
    BY OndeEstao DEF ConfirmarDevolucao, Em
<1>2. PICK g : g = Desfecho(p, "devolvida")
    OBVIOUS
<1>3. /\ Gravar(p, g) /\ registro'[p] = g
      /\ IF g = "devolvida" THEN Ir(a, "finalizando") ELSE Sair(a)
    BY <1>0, <1>1, <1>2 DEF ConfirmarDevolucao, Gravar, TypeOK
<1>4. /\ g # "local_committed" \/ g = registro[p]
      /\ registro[p] \in {"devolvida", "local_committed"} => g = registro[p]
    BY <1>2 DEF Desfecho
<1>5. \A b \in Atores : ator'[b] = ator[b] \/ EfeitosDoAtor(b)'
  <2>1. CASE Sair(a)
    BY <1>0, <2>1, AtorQuieto
  <2>2. CASE g = "devolvida" /\ Ir(a, "finalizando")
    <3>1. Vai(a, "finalizando", p, ator[a].saida)
      BY <1>0, <1>1, <2>2, IrVai, PassosConhecidos
    <3>2. EfeitosDoAtor(a)'
      BY <1>3, <2>2, <3>1 DEF Vai, EfeitosDoAtor, Pag
    <3>. QED
      BY <3>1, <3>2 DEF Vai
  <2>. QED
    BY <1>3, <2>1, <2>2
<1>. QED
    BY <1>0, <1>3, <1>4, <1>5, EfeitosDaGravacao

\* Payment and rows, in two writes: the callback is acknowledged after the second,
\* which no payout can have foiled.
LEMMA EfeitosDoFinalizar ==
    ASSUME IInv, Efeitos, NEW a \in Atores, EstornarPagamento(a) \/ CancelarLancamentos(a)
    PROVE  Efeitos'
<1>0. TypeOK
    BY DEF IInv
<1>1. PICK p \in Pagamentos : p = Pag(a) /\ SabeDoAtor(a) /\ SabeDoRegistro(p)
    BY OndeEstao DEF EstornarPagamento, CancelarLancamentos, Em
<1>2. EfeitosDoAtor(a)
    BY DEF Efeitos
<1>3. CASE EstornarPagamento(a)
  <2>1. /\ status' = [status EXCEPT ![p] = "estornado"] /\ status'[p] = "estornado"
        /\ UNCHANGED <<cancelado, registro, banco, avisado>>
    BY <1>0, <1>1, <1>3 DEF EstornarPagamento, externo, TypeOK
  <2>2. registro[p] = "devolvida" /\ Vai(a, "cancelando", p, ator[a].saida)
    BY <1>0, <1>1, <1>2, <1>3, IrVai, PassosConhecidos DEF EstornarPagamento, EfeitosDoAtor, Em
  <2>3. EfeitosDoAtor(a)'
    BY <2>1, <2>2 DEF Vai, EfeitosDoAtor, Pag
  <2>4. Firme /\ SoRegistrados
    BY <1>0, <2>1 DEF Firme, SoRegistrados, TypeOK
  <2>. QED
    BY <2>2, <2>3, <2>4, EfeitosMantidos DEF Vai
<1>4. CASE CancelarLancamentos(a)
  <2>1. /\ UNCHANGED <<status, registro, banco>> /\ Terminar(a)
        /\ cancelado' = [cancelado EXCEPT ![p] = cancelado[p] \/ repasse[p] # "pago"]
    BY <1>1, <1>4 DEF CancelarLancamentos, externo
  <2>2. status[p] = "estornado" /\ repasse[p] # "pago"
    <3>1. ator[a].passo = "cancelando"
      BY <1>4 DEF CancelarLancamentos, Em
    <3>2. status[p] = "estornado" /\ Pix(p) /\ banco[p] = "devolvido"
      BY <1>1, <1>2, <3>1 DEF EfeitosDoAtor, SabeDoAtor, PassosSoPix, Pag
    <3>3. registro[p] = "devolvida"
      BY <1>1, <1>2, <3>1 DEF EfeitosDoAtor, Pag
    <3>4. repasse[p] = "fora"
      BY <1>1, <3>2, <3>3 DEF SabeDoRegistro, Bloqueantes, Registros, RegistrosPix
    <3>. QED
      BY <3>2, <3>4
  <2>3. /\ cancelado' = [cancelado EXCEPT ![p] = TRUE]
        /\ \A q \in Pagamentos : cancelado[q] => cancelado'[q]
        /\ cancelado'[p] = TRUE
    <3>1. cancelado' = [cancelado EXCEPT ![p] = TRUE]
      BY <2>1, <2>2
    <3>2. cancelado'[p] = TRUE
      BY <1>0, <3>1 DEF TypeOK
    <3>3. \A q \in Pagamentos : q # p => cancelado'[q] = cancelado[q]
      BY <1>0, <3>1 DEF TypeOK
    <3>. QED
      BY <3>1, <3>2, <3>3
  <2>4. Sair(a) /\ \A q \in Pagamentos : q # p => avisado'[q] = avisado[q]
    BY <1>0, <1>1, <2>1 DEF Terminar, TypeOK
  <2>5. Firme
    BY <2>1, <2>3 DEF Firme
  <2>6. SoRegistrados
    BY <2>1, <2>2, <2>3, <2>4 DEF SoRegistrados, Registrado
  <2>. QED
    BY <1>0, <2>4, <2>5, <2>6, AtorQuieto, EfeitosMantidos
<1>. QED
    BY <1>3, <1>4

\* Stripe's operation is closed with payment and rows at once.
LEMMA EfeitosDaConvergencia ==
    ASSUME IInv, Efeitos, NEW p \in Pagamentos, NEW s, Convergencia(p, s),
           s # "local_committed" \/ s = registro[p],
           registro[p] = "local_committed" => s = registro[p], ~Pix(p), UNCHANGED banco
    PROVE  /\ Firme
           /\ \A q \in Pagamentos :
                 registro'[q] = "local_committed" =>
                    registro[q] = "local_committed" \/ Registrado(q)'
           /\ registro'[p] = "local_committed" => Registrado(p)'
<1>0. TypeOK /\ EfeitosDoRegistro(p) /\ SabeDoRegistro(p)
    BY DEF IInv, Efeitos
<1>1. CASE s = "provider_succeeded" /\ ~Movimentado(p)
  <2>1. /\ status' = [status EXCEPT ![p] = "estornado"]
        /\ cancelado' = [cancelado EXCEPT ![p] = TRUE]
        /\ registro' = [registro EXCEPT ![p] = "local_committed"]
    BY <1>1 DEF Convergencia
  <2>2. cancelado'[p] = TRUE /\ \A q \in Pagamentos : q # p => cancelado'[q] = cancelado[q]
    BY <1>0, <2>1 DEF TypeOK
  <2>3. registro[p] # "devolvida"
    BY <1>0 DEF TypeOK, RegistrosStripe
  <2>. QED
    BY <1>0, <2>1, <2>2, <2>3 DEF TypeOK, Firme, Registrado
<1>2. CASE ~(s = "provider_succeeded" /\ ~Movimentado(p))
  <2>1. UNCHANGED <<status, cancelado>> /\ registro' = [registro EXCEPT ![p] = s]
    BY <1>2 DEF Convergencia
  <2>2. registro[p] # "devolvida"
    BY <1>0 DEF TypeOK, RegistrosStripe
  <2>. QED
    BY <1>0, <2>1, <2>2 DEF TypeOK, Firme, Registrado, EfeitosDoRegistro
<1>. QED
    BY <1>1, <1>2

LEMMA EfeitosDoConvergir ==
    ASSUME IInv, Efeitos, NEW a \in Atores, Convergir(a)
    PROVE  Efeitos'
<1>1. PICK p \in Pagamentos : p = Pag(a) /\ SabeDoAtor(a)
    BY OndeEstao DEF Convergir, Em
<1>2. /\ ~Pix(p) /\ Convergencia(p, registro[p]) /\ Sair(a)
      /\ UNCHANGED <<banco, avisado>>
    BY <1>1 DEF Convergir, Em, SabeDoAtor, PassosSoStripe, Pag, externo
<1>3. Firme /\ SoRegistrados
    BY <1>2, EfeitosDaConvergencia DEF SoRegistrados
<1>. QED
    BY <1>2, <1>3, AtorQuieto, EfeitosMantidos DEF IInv

\* A callback acknowledges what it found recorded, or recorded itself; one of a
\* devolucao nobody keeps is impossible: Inter was asked for it.
LEMMA EfeitosDoAviso ==
    ASSUME IInv, Efeitos, NEW h \in Atores, Verificar(h) \/ Observar(h)
    PROVE  Efeitos'
<1>0. TypeOK
    BY DEF IInv
<1>1. PICK p \in Pagamentos : p = Pag(h) /\ SabeDoAtor(h) /\ SabeDoRegistro(p)
    BY OndeEstao DEF Verificar, Observar, Em
<1>2. CASE Verificar(h)
  <2>1. registro[p] # "nenhum"
    <3>1. Pix(p) /\ banco[p] # "nada"
      BY <1>1, <1>2 DEF Efeitos, EfeitosDoAtor, Verificar, Em, SabeDoAtor, PassosSoPix, Pag
    <3>. QED
      BY <1>1, <3>1 DEF SabeDoRegistro
  <2>2. /\ UNCHANGED <<status, cancelado, registro, banco, avisado>>
        /\ Ir(h, "confirmando") \/ Sair(h)
    BY <1>1, <1>2, <2>1 DEF Verificar, local, externo
  <2>. QED
    BY <1>0, <2>2, AtorQuieto, EfeitosQuietos DEF Passos
<1>3. CASE Observar(h)
  <2>1. ~Pix(p) /\ Sair(h) /\ UNCHANGED banco
    BY <1>1, <1>3 DEF Observar, Em, SabeDoAtor, PassosSoStripe, Pag, externo, Terminar
  <2>2. /\ Firme
        /\ \A q \in Pagamentos : registro'[q] = "local_committed" =>
              registro[q] = "local_committed" \/ Registrado(q)'
        /\ registro'[p] = "local_committed" => Registrado(p)'
    <3>1. CASE visto[p]
      <4>1. UNCHANGED <<status, cancelado, registro>>
        BY <1>1, <1>3, <3>1 DEF Observar
      <4>. QED
        BY <2>1, <4>1 DEF Firme, Efeitos, EfeitosDoRegistro, Registrado
    <3>2. CASE ~visto[p]
      <4>1. PICK s : /\ Convergencia(p, s)
                     /\ s # "local_committed" \/ s = registro[p]
                     /\ registro[p] = "local_committed" => s = registro[p]
        BY <1>1, <1>3, <3>2 DEF Observar
      <4>. QED
        BY <2>1, <4>1, EfeitosDaConvergencia
    <3>. QED
      BY <3>1, <3>2
  <2>3. \A q \in Pagamentos : avisado'[q] => avisado[q] \/ Registrado(q)'
    <3>1. CASE UNCHANGED avisado
      BY <3>1
    <3>2. CASE registro'[p] = "local_committed" /\ Terminar(h)
      BY <1>0, <1>1, <2>2, <3>2 DEF Terminar, TypeOK
    <3>. QED
      BY <1>1, <1>3, <3>1, <3>2 DEF Observar
  <2>. QED
    BY <1>0, <2>1, <2>2, <2>3, AtorQuieto, EfeitosMantidos DEF SoRegistrados
<1>. QED
    BY <1>2, <1>3

\* Whoever begins knows nothing, but that the provider tells of something.
LEMMA EfeitosDoComeco ==
    ASSUME IInv, Efeitos, NEW a \in Atores, NEW p \in Pagamentos, Iniciar(a, p) \/ Avisar(a, p)
    PROVE  Efeitos'
<1>0. TypeOK /\ UNCHANGED <<status, cancelado, registro, banco, avisado>>
    BY DEF IInv, Iniciar, Avisar, SoAtor, local, externo
<1>1. /\ \A b \in Atores \ {a} : ator'[b] = ator[b]
      /\ ator'[a].p = p
      /\ ator'[a].passo \in {"lendo", "observando", "verificando"}
      /\ ator'[a].passo = "verificando" => banco[p] # "nada"
  <2>1. \E x \in {"lendo", "observando", "verificando"} :
           Comecar(a, p, x) /\ (x = "verificando" => banco[p] # "nada")
    BY DEF Iniciar, Avisar
  <2>2. ASSUME NEW x, Comecar(a, p, x)
        PROVE  /\ ator'[a].passo = x /\ ator'[a].p = p
               /\ \A b \in Atores \ {a} : ator'[b] = ator[b]
    BY <1>0, <2>2 DEF Comecar, TypeOK
  <2>3. PICK x \in {"lendo", "observando", "verificando"} :
           Comecar(a, p, x) /\ (x = "verificando" => banco[p] # "nada")
    BY <2>1
  <2>4. /\ ator'[a].passo = x /\ ator'[a].p = p
        /\ \A b \in Atores \ {a} : ator'[b] = ator[b]
    BY <2>2, <2>3
  <2>. QED
    BY <2>3, <2>4
<1>2. EfeitosDoAtor(a)'
    BY <1>0, <1>1 DEF EfeitosDoAtor, Pag
<1>. QED
    BY <1>0, <1>1, <1>2, EfeitosQuietos

\* Every step keeps effects and records together.
LEMMA EfeitosPasso == IInv /\ Efeitos /\ [Next]_vars => Efeitos'
<1>. SUFFICES ASSUME IInv, Efeitos, [Next]_vars PROVE Efeitos'
    OBVIOUS
<1>0. TypeOK
    BY DEF IInv
<1>1. ASSUME NEW p \in Pagamentos, PassoDoProvedor(p) \/ PassoDoRepasse(p) PROVE Efeitos'
  <2>1. UNCHANGED <<status, cancelado, registro, avisado, ator>>
    BY <1>1 DEF PassoDoProvedor, Chegar, Concluir, Desistir, DevolverNoPainel, SoExterno,
       PassoDoRepasse, Prender, Pagar, Soltar, MudarRepasse, SoRepasse, local
  <2>2. \A q \in Pagamentos : banco[q] # "nada" => banco'[q] # "nada"
    BY <1>0, <1>1 DEF PassoDoProvedor, Chegar, Concluir, Desistir, DevolverNoPainel,
       PassoDoRepasse, Prender, Pagar, Soltar, SoRepasse, externo, TypeOK
  <2>. QED
    BY <2>1, <2>2, EfeitosQuietos
<1>2. ASSUME NEW a \in Atores, PassoDoAtor(a) PROVE Efeitos'
  <2>1. CASE PassoPix(a)
    BY <2>1, EfeitosSoAtor, EfeitosDoRegistrar, EfeitosDoConfirmar, EfeitosDoFinalizar DEF PassoPix
  <2>2. CASE PassoStripe(a)
    BY <2>2, EfeitosDoRegistrar, EfeitosDoConvergir DEF PassoStripe
  <2>. QED
    BY <1>2, <2>1, <2>2, EfeitosSoAtor, EfeitosDoAviso DEF PassoDoAtor
<1>3. CASE UNCHANGED vars
  BY <1>3, EfeitosQuietos DEF vars, local, externo
<1>. QED
    BY <1>1, <1>2, <1>3, EfeitosSoAtor, EfeitosDoComeco DEF Next, Atores

\* A callback that was acknowledged left nothing to do.
AvisadoRegistrado == \A p \in Pagamentos : avisado[p] => Registrado(p)

\* What DevolvidoSeRegistra needs of every state: a callback is answered 200 only when
\* the payment is estornado and its rows are cancelled, whatever failed or died half
\* way; until then the provider delivers it again.
THEOREM AvisoSoDepoisDoRegistro == Spec => []AvisadoRegistrado
<1>1. Init => Efeitos
  <2>. SUFFICES ASSUME Init PROVE Efeitos
    OBVIOUS
  <2>1. /\ \A a \in Atores : ator[a].passo = "livre"
        /\ \A p \in Pagamentos : registro[p] = "nenhum" /\ ~avisado[p]
    BY DEF Init, Livre
  <2>. QED
    BY <2>1 DEF Efeitos, EfeitosDoAtor, EfeitosDoRegistro
<1>2. IInv /\ Efeitos /\ [Next]_vars => Efeitos'
  BY EfeitosPasso
<1>3. Efeitos => AvisadoRegistrado
  BY DEF Efeitos, EfeitosDoRegistro, AvisadoRegistrado
<1>. QED
  BY <1>1, <1>2, <1>3, InvarianteCorreto, PTL DEF Spec

-----------------------------------------------------------------------------
(* A refund that was recorded and never asked for *)

\* The record says that a refund is under way, the provider never heard of one, and
\* nobody is asking: who recorded it died, or could not delete the record of a call
\* that was never sent.
Orfao(p) ==
    /\ registro[p] \in {"em_processamento", "provider_started", "outcome_unknown"}
    /\ voando[p] = 0 /\ banco[p] = "nada"
    /\ \A a \in Atores : Pag(a) = p => ~Pede(a)

\* No administrator, callback or payout ever does anything about such a refund: the
\* money stays, out of reach of the contributor and of the receiver, until someone
\* refunds the charge in Stripe's dashboard (of a PIX, for good).
OrfaoNaoSai ==
    [][\A p \in Pagamentos :
          Orfao(p) => \/ Orfao(p)' /\ repasse'[p] = "fora"
                      \/ ~Pix(p) /\ banco'[p] = "painel"]_vars

\* What is left as it was keeps the refund without a requester.
LEMMA OrfaoFica ==
    ASSUME IInv, NEW p \in Pagamentos, Orfao(p),
           registro'[p] = registro[p] \/ registro'[p] = "outcome_unknown",
           voando'[p] = voando[p], banco'[p] = banco[p], repasse'[p] = repasse[p],
           \A b \in Atores : Pag(b)' = p => ~Pede(b)'
    PROVE  Orfao(p)' /\ repasse'[p] = "fora"
<1>1. repasse[p] = "fora"
    BY DEF IInv, SabeDoRegistro, Orfao, Bloqueantes, Registros, RegistrosPix, RegistrosStripe
<1>. QED
    BY <1>1 DEF Orfao

\* A step of an actor moves nobody else, and keeps its payment or leaves it.
LEMMA PassoVai ==
    ASSUME IInv, NEW a \in Atores, PassoDoAtor(a) \/ Cair(a)
    PROVE  /\ \A b \in Atores \ {a} : ator'[b] = ator[b]
           /\ ator'[a].p \in {Pag(a), Ninguem}
<1>0. TypeOK
    BY DEF IInv
<1>1. \/ Sair(a)
      \/ \E x \in Passos : Ir(a, x)
      \/ \E x \in Passos, s \in Registros : IrCom(a, x, s)
  <2>. USE PassosConhecidos
  <2>1. CASE Ler(a) \/ Pedir(a) \/ Verificar(a) \/ Observar(a) \/ Cair(a)
    BY <2>1 DEF Ler, Pedir, Verificar, Observar, Terminar, Cair
  <2>2. CASE Receber(a) \/ Consultar(a)
    <3>1. \A p : Resposta(p) \in Registros /\ "rejeitada" \in Registros
      BY DEF Resposta, Registros, RegistrosPix, RegistrosStripe
    <3>. QED
      BY <2>2, <3>1 DEF Receber, Consultar
  <2>3. CASE CriarDevolucao(a) \/ ApagarDevolucao(a) \/ GravarDevolucao(a)
    BY <2>3 DEF CriarDevolucao, ApagarDevolucao, GravarDevolucao, Ramificar
  <2>4. CASE \/ ConfirmarDevolucao(a) \/ Finalizar(a) \/ EstornarPagamento(a)
             \/ CancelarLancamentos(a)
    BY <2>4 DEF ConfirmarDevolucao, Finalizar, EstornarPagamento, CancelarLancamentos, Terminar
  <2>5. CASE PassoStripe(a)
    BY <2>5 DEF PassoStripe, Reservar, Reclamar, Desconhecer, GravarResultado, Convergir
  <2>. QED
    BY <2>1, <2>2, <2>3, <2>4, <2>5 DEF PassoDoAtor, PassoPix
<1>2. \E x, s : Vai(a, x, Pag(a), s) \/ Vai(a, x, Ninguem, s)
    BY <1>0, <1>1, SairVai, IrVai, IrComVai
<1>. QED
    BY <1>2 DEF Vai

\* Who is at work on another payment does not touch this one.
LEMMA OrfaoAlheio ==
    ASSUME IInv, NEW a \in Atores, NEW p \in Pagamentos, Orfao(p), Pag(a) # p,
           PassoDoAtor(a) \/ Cair(a), UNCHANGED pix
    PROVE  Orfao(p)' /\ repasse'[p] = "fora"
<1>. USE DEF IInv, TypeOK, local, externo, SoAtor, SoRegistro, Gravar
<1>1. registro'[p] = registro[p]
  <2>1. CASE \/ Ler(a) \/ Pedir(a) \/ Receber(a) \/ Verificar(a) \/ Consultar(a)
             \/ Finalizar(a) \/ EstornarPagamento(a) \/ CancelarLancamentos(a) \/ Cair(a)
    BY <2>1 DEF Ler, Pedir, Receber, Verificar, Consultar, Finalizar, EstornarPagamento,
       CancelarLancamentos, Cair
  <2>2. CASE \/ CriarDevolucao(a) \/ ApagarDevolucao(a) \/ GravarDevolucao(a)
             \/ ConfirmarDevolucao(a)
    BY <2>2 DEF CriarDevolucao, ApagarDevolucao, GravarDevolucao, ConfirmarDevolucao
  <2>3. CASE PassoStripe(a)
    BY <2>3 DEF PassoStripe, Reservar, Reclamar, Desconhecer, GravarResultado, Convergir,
       Convergencia
  <2>4. CASE Observar(a)
    BY <2>4 DEF Observar, Convergencia
  <2>. QED
    BY <2>1, <2>2, <2>3, <2>4 DEF PassoDoAtor, PassoPix
<1>2. voando'[p] = voando[p] /\ UNCHANGED <<banco, repasse>>
  <2>1. CASE Pedir(a)
    BY <2>1 DEF Pedir
  <2>2. CASE ~Pedir(a)
    BY <2>2 DEF PassoDoAtor, PassoPix, PassoStripe, Ler, Receber, Verificar, Consultar,
       Finalizar, EstornarPagamento, CancelarLancamentos, Cair, CriarDevolucao,
       ApagarDevolucao, GravarDevolucao, ConfirmarDevolucao, Reservar, Reclamar,
       Desconhecer, GravarResultado, Convergir, Observar
  <2>. QED
    BY <2>1, <2>2
<1>3. \A b \in Atores : Pag(b)' = p => ~Pede(b)'
  <2>1. \A b \in Atores \ {a} : Pag(b)' = Pag(b) /\ (Pag(b) = p => Pede(b)' = Pede(b))
    <3>1. ASSUME NEW b \in Atores \ {a} PROVE ator'[b] = ator[b]
      BY PassoVai
    <3>. QED
      BY <3>1 DEF Pag, Pede, Pix
  <2>2. Pag(a)' # p
    BY PassoVai, SuposicaoEstorno DEF Pag
  <2>. QED
    BY <2>1, <2>2 DEF Orfao
<1>. QED
    BY <1>1, <1>2, <1>3, OrfaoFica

\* Who is at work on it can only read it and go.
LEMMA OrfaoProprio ==
    ASSUME IInv, NEW a \in Atores, NEW p \in Pagamentos, Orfao(p), Pag(a) = p,
           PassoDoAtor(a) \/ Cair(a), UNCHANGED pix
    PROVE  Orfao(p)' /\ repasse'[p] = "fora"
<1>0. TypeOK /\ ~Pede(a) /\ (ator[a].passo # "livre" => SabeDoAtor(a))
    BY DEF IInv, Orfao
<1>1. Resposta(p) = "nenhum"
    BY DEF Orfao, Resposta
<1>2. ator[a].passo \notin {"pedindo", "esperando", "apagando", "desconhecendo", "gravando",
                            "confirmando", "finalizando", "estornando", "cancelando",
                            "observando"}
  <2>1. ator[a].passo \notin {"pedindo", "esperando", "apagando", "desconhecendo"}
    BY <1>0 DEF Pede
  <2>2. ator[a].passo # "gravando"
    BY <1>0 DEF Pede, SabeDoAtor, Orfao
  <2>3. ator[a].passo \notin {"confirmando", "finalizando", "estornando", "cancelando",
                              "observando"}
    BY <1>0 DEF SabeDoAtor, Orfao
  <2>. QED
    BY <2>1, <2>2, <2>3
<1>3. \/ Ler(a) \/ CriarDevolucao(a) \/ Consultar(a) \/ Verificar(a) \/ Reservar(a)
      \/ Reclamar(a) \/ Convergir(a) \/ Cair(a)
    BY <1>2 DEF PassoDoAtor, PassoPix, PassoStripe, Em, Pedir, Receber, ApagarDevolucao,
       GravarDevolucao, ConfirmarDevolucao, Finalizar, EstornarPagamento,
       CancelarLancamentos, Desconhecer, GravarResultado, Observar
<1>4. /\ UNCHANGED <<registro, voando, banco, repasse>>
      /\ Sair(a) \/ \E x \in {"criando", "consultando", "confirmando", "reservando",
                               "reclamando", "convergindo"} : Ir(a, x)
  <2>. USE DEF local, externo, SoAtor, SoRegistro
  <2>1. CASE Ler(a)
    BY <2>1 DEF Ler
  <2>2. CASE CriarDevolucao(a)
    BY <2>2 DEF CriarDevolucao, Ramificar, Orfao
  <2>3. CASE Consultar(a) \/ Cair(a)
    BY <1>1, <2>3 DEF Consultar, Cair
  <2>4. CASE Verificar(a)
    BY <1>1, <2>4 DEF Verificar, Terminar
  <2>5. CASE Reservar(a)
    BY <2>5 DEF Reservar, Orfao
  <2>6. CASE Reclamar(a)
    BY <2>6 DEF Reclamar, Orfao
  <2>7. CASE Convergir(a)
    <3>1. registro' = [registro EXCEPT ![p] = registro[p]]
      BY <2>7 DEF Convergir, Convergencia, Orfao
    <3>. QED
      BY <1>0, <2>7, <3>1 DEF Convergir, TypeOK
  <2>. QED
    BY <1>3, <2>1, <2>2, <2>3, <2>4, <2>5, <2>6, <2>7
<1>5. ~Pede(a)'
  <2>1. CASE Sair(a)
    BY <1>0, <2>1, SairVai DEF Vai, Pede
  <2>2. ASSUME NEW x \in {"criando", "consultando", "confirmando", "reservando",
                          "reclamando", "convergindo"}, Ir(a, x)
        PROVE  ~Pede(a)'
    BY <1>0, <2>2, IrVai, PassosConhecidos DEF Vai, Pede
  <2>. QED
    BY <1>4, <2>1, <2>2
<1>6. \A b \in Atores : Pag(b)' = p => ~Pede(b)'
  <2>1. ASSUME NEW b \in Atores \ {a}, Pag(b)' = p PROVE ~Pede(b)'
    <3>1. ator'[b] = ator[b]
      BY PassoVai
    <3>. QED
      BY <2>1, <3>1 DEF Pag, Pede, Pix, Orfao
  <2>. QED
    BY <1>5, <2>1
<1>. QED
    BY <1>4, <1>6, OrfaoFica

\* Whoever begins has not asked yet.
LEMMA OrfaoComeco ==
    ASSUME IInv, NEW a \in Atores, NEW q \in Pagamentos, Iniciar(a, q) \/ Avisar(a, q),
           UNCHANGED pix, NEW p \in Pagamentos, Orfao(p)
    PROVE  Orfao(p)' /\ repasse'[p] = "fora"
<1>1. UNCHANGED <<registro, voando, banco, repasse>>
    BY DEF Iniciar, Avisar, SoAtor, local, externo
<1>2. \E x \in {"lendo", "observando", "verificando"} : Comecar(a, q, x)
    BY DEF Iniciar, Avisar
<1>3. ASSUME NEW x \in {"lendo", "observando", "verificando"}, Comecar(a, q, x)
      PROVE  /\ ~Pede(a)'
             /\ \A b \in Atores \ {a} : ator'[b] = ator[b]
  <2>1. ator'[a].passo = x /\ \A b \in Atores \ {a} : ator'[b] = ator[b]
    BY <1>3 DEF Comecar, IInv, TypeOK
  <2>. QED
    BY <2>1 DEF Pede
<1>4. \A b \in Atores : Pag(b)' = p => ~Pede(b)'
  <2>1. ASSUME NEW b \in Atores \ {a}, Pag(b)' = p PROVE ~Pede(b)'
    <3>1. ator'[b] = ator[b]
      BY <1>2, <1>3
    <3>. QED
      BY <2>1, <3>1 DEF Pag, Pede, Pix, Orfao
  <2>. QED
    BY <1>2, <1>3, <2>1
<1>. QED
    BY <1>1, <1>4, OrfaoFica

\* Nothing sends such a refund again: a mutation that died between the record and the
\* request, or whose deleteIfPending failed, leaves a record that no later step of an
\* administrator, a callback or a payout takes on (estornar-pagamento.ts), whatever
\* else happens and for any number of them.
THEOREM RegistroOrfao == Spec => OrfaoNaoSai
<1>1. ASSUME IInv, [Next]_vars, NEW p \in Pagamentos, Orfao(p)
      PROVE  \/ Orfao(p)' /\ repasse'[p] = "fora"
             \/ ~Pix(p) /\ banco'[p] = "painel"
  <2>0. TypeOK /\ repasse[p] = "fora"
    BY <1>1 DEF IInv, SabeDoRegistro, Orfao, Bloqueantes, Registros, RegistrosPix,
       RegistrosStripe
  <2>1. ASSUME NEW q \in Pagamentos, PassoDoProvedor(q), UNCHANGED pix
        PROVE  \/ Orfao(p)' /\ repasse'[p] = "fora"
               \/ ~Pix(p) /\ banco'[p] = "painel"
    <3>1. UNCHANGED <<registro, repasse, ator>>
      BY <2>1 DEF PassoDoProvedor, Chegar, Concluir, Desistir, DevolverNoPainel, SoExterno,
         local
    <3>2. \/ voando'[p] = voando[p] /\ banco'[p] = banco[p]
          \/ ~Pix(p) /\ banco'[p] = "painel"
      BY <1>1, <2>0, <2>1 DEF PassoDoProvedor, Chegar, Concluir, Desistir,
         DevolverNoPainel, TypeOK, Orfao
    <3>3. \A b \in Atores : Pag(b)' = p => ~Pede(b)'
      BY <1>1, <2>1, <3>1 DEF Orfao, Pag, Pede, Pix
    <3>. QED
      BY <1>1, <3>1, <3>2, <3>3, OrfaoFica
  <2>2. ASSUME NEW q \in Pagamentos, PassoDoRepasse(q), UNCHANGED pix
        PROVE  Orfao(p)' /\ repasse'[p] = "fora"
    <3>1. UNCHANGED <<registro, voando, banco, ator>>
      BY <2>2 DEF PassoDoRepasse, Prender, Pagar, Soltar, SoRepasse, local, externo
    <3>2. repasse'[p] = repasse[p]
      BY <1>1, <2>0, <2>2 DEF PassoDoRepasse, Prender, Pagar, Soltar, MudarRepasse, TypeOK,
         Orfao, Bloqueantes, Registros, RegistrosPix, RegistrosStripe
    <3>3. \A b \in Atores : Pag(b)' = p => ~Pede(b)'
      BY <1>1, <2>2, <3>1 DEF Orfao, Pag, Pede, Pix
    <3>. QED
      BY <1>1, <3>1, <3>2, <3>3, OrfaoFica
  <2>3. ASSUME NEW a \in Atores, PassoDoAtor(a) \/ Cair(a), UNCHANGED pix
        PROVE  Orfao(p)' /\ repasse'[p] = "fora"
    BY <1>1, <2>3, OrfaoAlheio, OrfaoProprio
  <2>4. CASE UNCHANGED vars
    <3>1. \A b \in Atores : Pag(b)' = p => ~Pede(b)'
      BY <1>1, <2>4 DEF Orfao, Pag, Pede, Pix, vars
    <3>. QED
      BY <1>1, <2>4, <3>1, OrfaoFica DEF vars, local, externo
  <2>. QED
    BY <1>1, <2>1, <2>2, <2>3, <2>4, OrfaoComeco DEF Next, Atores
<1>2. IInv /\ [Next]_vars => \A p \in Pagamentos :
          Orfao(p) => \/ Orfao(p)' /\ repasse'[p] = "fora"
                      \/ ~Pix(p) /\ banco'[p] = "painel"
  BY <1>1
<1>. QED
  BY <1>2, InvarianteCorreto, PTL DEF Spec, OrfaoNaoSai

=============================================================================
