----------------------- MODULE OperacaoCheckoutProvas -----------------------
(***************************************************************************)
(* Proofs about OperacaoCheckout, for any operations, requests and crashes. *)
(* The fence of a claim is never argued about: what protects a guest is    *)
(* that a decided operation has a state no claim can reach again, and that *)
(* a request carries no session but the one the provider opened.           *)
(***************************************************************************)
EXTENDS OperacaoCheckout, TLAPS

\* A request about to ask the provider for a new session.
Criando(h, o) == passo[h] = "chamar" /\ modo[h] = "create" /\ operacao[h] = o

\* What the row of an operation says of its decision and of the provider.
SabeDaOperacao(o) ==
    /\ estado[o] \in {"livre", "reserved"} =>
          abertas[o] = 0 /\ ref[o] = 0 /\ vinculo[o] = 0 /\ ~abandonada[o]
    /\ o \in cookies => estado[o] # "livre"
    /\ abandonada[o] => estado[o] = "outcome_unknown" /\ ref[o] = 0
    /\ vinculo[o] # 0 => estado[o] = "local_committed"
    /\ estado[o] = "local_committed" => vinculo[o] = ref[o] /\ ref[o] # 0
    /\ abertas[o] \in {0, 1}
    /\ ref[o] \in {0, abertas[o]}
    /\ via = "stripe" /\ abertas[o] # 0 /\ ~lembra[o] =>
          ~janela[o] /\ \A h \in Pedidos : ~Criando(h, o)

\* What the step of a request says of its operation and of the session it
\* carries.
SabeDoPedido(h) ==
    LET o == operacao[h] IN
    /\ passo[h] \in {"executar", "chamar", "concluir", "desistir", "confirmar"} =>
          estado[o] # "livre"
    /\ passo[h] \in {"chamar", "concluir", "desistir", "confirmar"} =>
          estado[o] # "reserved"
    /\ passo[h] = "chamar" => modo[h] \in Tipos \cup {"recuperar"}
    /\ passo[h] = "chamar" /\ modo[h] = "recuperar" => estado[o] = "local_committed"
    /\ passo[h] = "livre" => obtida[h] = 0
    /\ passo[h] # "livre" => obtida[h] \in {0, abertas[o]}
    /\ passo[h] = "confirmar" => obtida[h] # 0
    /\ passo[h] = "responder" /\ modo[h] = "prepared" => estado[o] # "livre"
    /\ passo[h] = "responder" /\ modo[h] = "material" =>
          obtida[h] # 0 /\ vinculo[o] = obtida[h]

IInv ==
    /\ TypeOK
    /\ \A o \in Operacoes : SabeDaOperacao(o)
    /\ \A h \in Pedidos : SabeDoPedido(h)
    /\ MontadoVinculado

-----------------------------------------------------------------------------
\* The initial states satisfy the invariant.
LEMMA IInvInicial == Init => IInv
<1> SUFFICES ASSUME Init PROVE IInv
    OBVIOUS
<1> USE DEF Init
<1>1. TypeOK
    BY SuposicaoCheckout DEF TypeOK, Estados, PassosDoPedido
<1>2. \A o \in Operacoes : SabeDaOperacao(o)
    BY DEF SabeDaOperacao
<1>3. \A h \in Pedidos : SabeDoPedido(h)
    BY DEF SabeDoPedido
<1>4. MontadoVinculado
    BY DEF MontadoVinculado
<1> QED BY <1>1, <1>2, <1>3, <1>4 DEF IInv

\* A new request has asked nobody for a session yet.
LEMMA IInvSubmeter ==
    ASSUME IInv, NEW h \in Pedidos, Submeter(h) PROVE IInv'
<1> USE DEF Submeter, Ir, Em, linha, provedor, aba, pedido
<1>1. TypeOK'
    BY SuposicaoCheckout DEF IInv, TypeOK, Estados, PassosDoPedido, Tipos,
       Respostas
<1>2. ASSUME NEW p \in Operacoes PROVE SabeDaOperacao(p)'
    BY SuposicaoCheckout DEF IInv, TypeOK, SabeDaOperacao, SabeDoPedido,
       Criando, Tipos
<1>3. ASSUME NEW k \in Pedidos PROVE SabeDoPedido(k)'
    BY SuposicaoCheckout DEF IInv, TypeOK, SabeDaOperacao, SabeDoPedido, Tipos
<1>4. MontadoVinculado'
    BY DEF IInv, TypeOK, MontadoVinculado, SabeDaOperacao, SabeDoPedido
<1> QED BY <1>1, <1>2, <1>3, <1>4 DEF IInv

\* A reservation starts from a row nobody holds anything of.
LEMMA IInvPreparar ==
    ASSUME IInv, NEW h \in Pedidos, Preparar(h) PROVE IInv'
<1> USE DEF Preparar, Ir, Em, ResponderCom, linha, provedor, aba, pedido
<1>1. TypeOK'
    BY SuposicaoCheckout DEF IInv, TypeOK, Estados, PassosDoPedido, Tipos,
       Respostas
<1>2. ASSUME NEW p \in Operacoes PROVE SabeDaOperacao(p)'
    BY SuposicaoCheckout DEF IInv, TypeOK, SabeDaOperacao, SabeDoPedido,
       Criando, Tipos
<1>3. ASSUME NEW k \in Pedidos PROVE SabeDoPedido(k)'
    BY SuposicaoCheckout DEF IInv, TypeOK, SabeDaOperacao, SabeDoPedido, Tipos
<1>4. MontadoVinculado'
    BY DEF IInv, TypeOK, MontadoVinculado, SabeDaOperacao, SabeDoPedido
<1> QED BY <1>1, <1>2, <1>3, <1>4 DEF IInv

\* A refusal writes nothing.
LEMMA IInvRecusar ==
    ASSUME IInv, NEW h \in Pedidos, Recusar(h) PROVE IInv'
<1> USE DEF Recusar, Ir, Em, ResponderCom, linha, provedor, aba, pedido
<1>1. TypeOK'
    BY SuposicaoCheckout DEF IInv, TypeOK, Estados, PassosDoPedido, Tipos,
       Respostas
<1>2. ASSUME NEW p \in Operacoes PROVE SabeDaOperacao(p)'
    BY SuposicaoCheckout DEF IInv, TypeOK, SabeDaOperacao, SabeDoPedido,
       Criando, Tipos
<1>3. ASSUME NEW k \in Pedidos PROVE SabeDoPedido(k)'
    BY SuposicaoCheckout DEF IInv, TypeOK, SabeDaOperacao, SabeDoPedido, Tipos
<1>4. MontadoVinculado'
    BY DEF IInv, TypeOK, MontadoVinculado, SabeDaOperacao, SabeDoPedido
<1> QED BY <1>1, <1>2, <1>3, <1>4 DEF IInv

\* A claim leaves a decided row alone, and asks Stripe to create only inside
\* the window.
LEMMA IInvReivindicar ==
    ASSUME IInv, NEW h \in Pedidos, Reivindicar(h) PROVE IInv'
<1> USE DEF Reivindicar, Ir, Em, ResponderCom, GravarReserva,
            RespostaDaReserva, TipoDaReserva, Desistencia, linha, provedor,
            aba, pedido
<1>1. TypeOK'
    BY SuposicaoCheckout DEF IInv, TypeOK, Estados, PassosDoPedido, Tipos,
       Respostas
<1>2. ASSUME NEW p \in Operacoes PROVE SabeDaOperacao(p)'
    BY SuposicaoCheckout DEF IInv, TypeOK, SabeDaOperacao, SabeDoPedido,
       Criando, Tipos
<1>3. ASSUME NEW k \in Pedidos PROVE SabeDoPedido(k)'
    BY SuposicaoCheckout DEF IInv, TypeOK, SabeDaOperacao, SabeDoPedido, Tipos
<1>4. MontadoVinculado'
    BY DEF IInv, TypeOK, MontadoVinculado, SabeDaOperacao, SabeDoPedido, Tipos
<1> QED BY <1>1, <1>2, <1>3, <1>4 DEF IInv

\* Creating opens the first session, or names the one that is open: a key that
\* was forgotten has no creator left.
LEMMA IInvChamarCriar ==
    ASSUME IInv, NEW h \in Pedidos, ChamarCriar(h) PROVE IInv'
<1> USE DEF linha, provedor, aba, pedido
<1> DEFINE o == operacao[h]
           n == IF via = "inter" THEN 1 ELSE IF lembra[o] THEN abertas[o] ELSE abertas[o] + 1
<1>o. o \in Operacoes /\ estado[o] \notin {"livre", "reserved"} /\ obtida[h] \in {0, abertas[o]}
    BY DEF IInv, TypeOK, SabeDoPedido, ChamarCriar, Em
<1>n. n \in {0, 1} /\ (abertas[o] # 0 => n = abertas[o])
    BY <1>o, SuposicaoCheckout DEF IInv, TypeOK, SabeDaOperacao, Criando,
       ChamarCriar, Em
<1>p. PICK s \in {0, 1} :
         /\ obtida' = [obtida EXCEPT ![h] = s]
         /\ \/ /\ abertas' = [abertas EXCEPT ![o] = n]
               /\ lembra' = [lembra EXCEPT ![o] = (via = "stripe")]
               /\ s \in {0, n}
            \/ s = 0 /\ UNCHANGED <<abertas, lembra>>
    BY <1>o, <1>n DEF IInv, TypeOK, ChamarCriar
<1>q. /\ passo' = [passo EXCEPT ![h] = "concluir"]
      /\ passo[h] = "chamar" /\ modo[h] = "create"
      /\ UNCHANGED <<via, estado, abandonada, dono, prazo, ref, vinculo, janela,
                     guardado, cookies, montados, ouvinte, operacao, modo, quedas>>
    BY DEF ChamarCriar, Em, Ir
<1> HIDE DEF n
<1> USE <1>o, <1>n, <1>p, <1>q
<1>a. CASE /\ abertas' = [abertas EXCEPT ![o] = n]
           /\ lembra' = [lembra EXCEPT ![o] = (via = "stripe")]
           /\ s \in {0, n}
  <2> USE <1>a
  <2>1. TypeOK'
    BY SuposicaoCheckout DEF IInv, TypeOK, PassosDoPedido
  <2>2. ASSUME NEW p \in Operacoes PROVE SabeDaOperacao(p)'
    BY SuposicaoCheckout DEF IInv, TypeOK, SabeDaOperacao, SabeDoPedido, Criando
  <2>3. ASSUME NEW k \in Pedidos PROVE SabeDoPedido(k)'
    BY SuposicaoCheckout DEF IInv, TypeOK, SabeDaOperacao, SabeDoPedido, Tipos
  <2>4. MontadoVinculado'
    BY DEF IInv, TypeOK, MontadoVinculado
  <2> QED BY <2>1, <2>2, <2>3, <2>4 DEF IInv
<1>b. CASE s = 0 /\ UNCHANGED <<abertas, lembra>>
  <2> USE <1>b
  <2>1. TypeOK'
    BY SuposicaoCheckout DEF IInv, TypeOK, PassosDoPedido
  <2>2. ASSUME NEW p \in Operacoes PROVE SabeDaOperacao(p)'
    BY SuposicaoCheckout DEF IInv, TypeOK, SabeDaOperacao, SabeDoPedido, Criando
  <2>3. ASSUME NEW k \in Pedidos PROVE SabeDoPedido(k)'
    BY SuposicaoCheckout DEF IInv, TypeOK, SabeDaOperacao, SabeDoPedido, Tipos
  <2>4. MontadoVinculado'
    BY DEF IInv, TypeOK, MontadoVinculado
  <2> QED BY <2>1, <2>2, <2>3, <2>4 DEF IInv
<1> QED BY <1>a, <1>b

\* Reading yields the session of the row, or the one the provider opened.
LEMMA IInvChamarLer ==
    ASSUME IInv, NEW h \in Pedidos, ChamarLer(h) PROVE IInv'
<1> USE DEF ChamarLer, Ir, Em, ResponderCom, SessoesLidas, linha, provedor,
            aba, pedido
<1>1. TypeOK'
    BY SuposicaoCheckout DEF IInv, TypeOK, Estados, PassosDoPedido, Tipos,
       Respostas
<1>2. ASSUME NEW p \in Operacoes PROVE SabeDaOperacao(p)'
    BY SuposicaoCheckout DEF IInv, TypeOK, SabeDaOperacao, SabeDoPedido,
       Criando, Tipos
<1>3. ASSUME NEW k \in Pedidos PROVE SabeDoPedido(k)'
    BY SuposicaoCheckout DEF IInv, TypeOK, SabeDaOperacao, SabeDoPedido, Tipos
<1>4. MontadoVinculado'
    BY DEF IInv, TypeOK, MontadoVinculado, SabeDaOperacao, SabeDoPedido
<1> QED BY <1>1, <1>2, <1>3, <1>4 DEF IInv

\* Only an operation in flight records a session.
LEMMA IInvConcluirComSessao ==
    ASSUME IInv, NEW h \in Pedidos, ConcluirComSessao(h) PROVE IInv'
<1> USE DEF ConcluirComSessao, Ir, Em, ResponderCom, Minha, linha, provedor,
            aba, pedido
<1>1. TypeOK'
    BY SuposicaoCheckout DEF IInv, TypeOK, Estados, PassosDoPedido, Tipos,
       Respostas
<1>2. ASSUME NEW p \in Operacoes PROVE SabeDaOperacao(p)'
    BY SuposicaoCheckout DEF IInv, TypeOK, SabeDaOperacao, SabeDoPedido,
       Criando, Tipos
<1>3. ASSUME NEW k \in Pedidos PROVE SabeDoPedido(k)'
    BY SuposicaoCheckout DEF IInv, TypeOK, SabeDaOperacao, SabeDoPedido, Tipos
<1>4. MontadoVinculado'
    BY DEF IInv, TypeOK, MontadoVinculado, SabeDaOperacao, SabeDoPedido
<1> QED BY <1>1, <1>2, <1>3, <1>4 DEF IInv

\* Only an operation in flight becomes unknown: none that is decided does.
LEMMA IInvConcluirSemSessao ==
    ASSUME IInv, NEW h \in Pedidos, ConcluirSemSessao(h) PROVE IInv'
<1> USE DEF ConcluirSemSessao, Ir, Em, ResponderCom, Minha, linha, provedor,
            aba, pedido
<1> DEFINE o == operacao[h]
           minha == Minha(h, "in_flight")
<1>o. o \in Operacoes
    BY DEF IInv, TypeOK
<1>1. TypeOK'
  <2>1. /\ estado' \in [Operacoes -> Estados]
        /\ dono' \in [Operacoes -> Pedidos \cup {Ninguem}]
        /\ vinculo' \in [Operacoes -> Nat]
    BY <1>o DEF IInv, TypeOK, Estados
  <2>2. prazo' \in [Operacoes -> BOOLEAN]
    BY <1>o DEF IInv, TypeOK
  <2>3. /\ passo' \in [Pedidos -> PassosDoPedido]
        /\ modo' \in [Pedidos -> Tipos \cup Respostas \cup {"recuperar", "nenhum"}]
        /\ \A k \in Pedidos : passo'[k] # "livre" => operacao'[k] \in Operacoes
    BY DEF IInv, TypeOK, PassosDoPedido, Respostas
  <2>4. /\ UNCHANGED <<via, abandonada, ref, abertas, lembra, janela, guardado, cookies>>
        /\ UNCHANGED <<montados, ouvinte, operacao, obtida, quedas>>
    OBVIOUS
  <2> QED BY <2>1, <2>2, <2>3, <2>4 DEF IInv, TypeOK
<1>2. ASSUME NEW p \in Operacoes PROVE SabeDaOperacao(p)'
    BY SuposicaoCheckout DEF IInv, TypeOK, SabeDaOperacao, SabeDoPedido,
       Criando, Tipos
<1>3. ASSUME NEW k \in Pedidos PROVE SabeDoPedido(k)'
    BY SuposicaoCheckout DEF IInv, TypeOK, SabeDaOperacao, SabeDoPedido, Tipos
<1>4. MontadoVinculado'
    BY DEF IInv, TypeOK, MontadoVinculado, SabeDaOperacao, SabeDoPedido
<1> QED BY <1>1, <1>2, <1>3, <1>4 DEF IInv

\* The second claim of a failed request gives up only what nothing is known of.
LEMMA IInvDesistir ==
    ASSUME IInv, NEW h \in Pedidos, Desistir(h) PROVE IInv'
<1> USE DEF Desistir, Ir, Em, ResponderCom, GravarReserva, RespostaDaReserva,
            TipoDaReserva, Desistencia, linha, provedor, aba, pedido
<1>1. TypeOK'
    BY SuposicaoCheckout DEF IInv, TypeOK, Estados, PassosDoPedido, Tipos,
       Respostas
<1>2. ASSUME NEW p \in Operacoes PROVE SabeDaOperacao(p)'
    BY SuposicaoCheckout DEF IInv, TypeOK, SabeDaOperacao, SabeDoPedido,
       Criando, Tipos
<1>3. ASSUME NEW k \in Pedidos PROVE SabeDoPedido(k)'
    BY SuposicaoCheckout DEF IInv, TypeOK, SabeDaOperacao, SabeDoPedido, Tipos
<1>4. MontadoVinculado'
    BY DEF IInv, TypeOK, MontadoVinculado, SabeDaOperacao, SabeDoPedido, Tipos
<1> QED BY <1>1, <1>2, <1>3, <1>4 DEF IInv

\* The commit binds the session that the row already recorded.
LEMMA IInvConfirmar ==
    ASSUME IInv, NEW h \in Pedidos, Confirmar(h) PROVE IInv'
<1> USE DEF Confirmar, Ir, Em, ResponderCom, Minha, linha, provedor, aba, pedido
<1> DEFINE o == operacao[h]
           minha == Minha(h, "provider_succeeded") /\ ref[operacao[h]] = obtida[h]
                  /\ vinculo[operacao[h]] \in {0, obtida[h]}
<1>o. o \in Operacoes
    BY DEF IInv, TypeOK
<1>1. TypeOK'
  <2>1. /\ estado' \in [Operacoes -> Estados]
        /\ dono' \in [Operacoes -> Pedidos \cup {Ninguem}]
        /\ vinculo' \in [Operacoes -> Nat]
    BY <1>o DEF IInv, TypeOK, Estados
  <2>2. prazo' \in [Operacoes -> BOOLEAN]
    BY <1>o DEF IInv, TypeOK
  <2>3. /\ passo' \in [Pedidos -> PassosDoPedido]
        /\ modo' \in [Pedidos -> Tipos \cup Respostas \cup {"recuperar", "nenhum"}]
        /\ \A k \in Pedidos : passo'[k] # "livre" => operacao'[k] \in Operacoes
    BY DEF IInv, TypeOK, PassosDoPedido, Respostas
  <2>4. /\ UNCHANGED <<via, abandonada, ref, abertas, lembra, janela, guardado, cookies>>
        /\ UNCHANGED <<montados, ouvinte, operacao, obtida, quedas>>
    OBVIOUS
  <2> QED BY <2>1, <2>2, <2>3, <2>4 DEF IInv, TypeOK
<1>2. ASSUME NEW p \in Operacoes PROVE SabeDaOperacao(p)'
    BY SuposicaoCheckout DEF IInv, TypeOK, SabeDaOperacao, SabeDoPedido,
       Criando, Tipos
<1>3. ASSUME NEW k \in Pedidos PROVE SabeDoPedido(k)'
    BY SuposicaoCheckout DEF IInv, TypeOK, SabeDaOperacao, SabeDoPedido, Tipos
<1>4. MontadoVinculado'
    BY DEF IInv, TypeOK, MontadoVinculado, SabeDaOperacao, SabeDoPedido
<1> QED BY <1>1, <1>2, <1>3, <1>4 DEF IInv

\* What the page shows is what the commit bound.
LEMMA IInvEntregar ==
    ASSUME IInv, NEW h \in Pedidos, Entregar(h) PROVE IInv'
<1> USE DEF Entregar, Em, Ir, Sair, linha, provedor, aba, pedido
<1>1. TypeOK'
    BY SuposicaoCheckout DEF IInv, TypeOK, Estados, PassosDoPedido, Tipos,
       Respostas, SabeDoPedido
<1>2. ASSUME NEW p \in Operacoes PROVE SabeDaOperacao(p)'
    BY SuposicaoCheckout DEF IInv, TypeOK, SabeDaOperacao, SabeDoPedido,
       Criando, Tipos
<1>3. ASSUME NEW k \in Pedidos PROVE SabeDoPedido(k)'
    BY SuposicaoCheckout DEF IInv, TypeOK, SabeDaOperacao, SabeDoPedido, Tipos
<1>4. MontadoVinculado'
    BY DEF IInv, TypeOK, MontadoVinculado, SabeDaOperacao, SabeDoPedido
<1> QED BY <1>1, <1>2, <1>3, <1>4 DEF IInv

\* A lost answer changes only the request.
LEMMA IInvPerderResposta ==
    ASSUME IInv, NEW h \in Pedidos, PerderResposta(h) PROVE IInv'
<1> USE DEF PerderResposta, Em, Ir, Sair, linha, provedor, aba, pedido
<1>1. TypeOK'
    BY SuposicaoCheckout DEF IInv, TypeOK, Estados, PassosDoPedido, Tipos,
       Respostas
<1>2. ASSUME NEW p \in Operacoes PROVE SabeDaOperacao(p)'
    BY SuposicaoCheckout DEF IInv, TypeOK, SabeDaOperacao, SabeDoPedido,
       Criando, Tipos
<1>3. ASSUME NEW k \in Pedidos PROVE SabeDoPedido(k)'
    BY SuposicaoCheckout DEF IInv, TypeOK, SabeDaOperacao, SabeDoPedido, Tipos
<1>4. MontadoVinculado'
    BY DEF IInv, TypeOK, MontadoVinculado, SabeDaOperacao, SabeDoPedido
<1> QED BY <1>1, <1>2, <1>3, <1>4 DEF IInv

\* So does a crash.
LEMMA IInvMorrer ==
    ASSUME IInv, NEW h \in Pedidos, Morrer(h) PROVE IInv'
<1> USE DEF Morrer, Em, Ir, Sair, linha, provedor, aba, pedido
<1>1. TypeOK'
    BY SuposicaoCheckout DEF IInv, TypeOK, Estados, PassosDoPedido, Tipos,
       Respostas
<1>2. ASSUME NEW p \in Operacoes PROVE SabeDaOperacao(p)'
    BY SuposicaoCheckout DEF IInv, TypeOK, SabeDaOperacao, SabeDoPedido,
       Criando, Tipos
<1>3. ASSUME NEW k \in Pedidos PROVE SabeDoPedido(k)'
    BY SuposicaoCheckout DEF IInv, TypeOK, SabeDaOperacao, SabeDoPedido, Tipos
<1>4. MontadoVinculado'
    BY DEF IInv, TypeOK, MontadoVinculado, SabeDaOperacao, SabeDoPedido
<1> QED BY <1>1, <1>2, <1>3, <1>4 DEF IInv

\* A lease that ends changes no row the invariant reads.
LEMMA IInvVencerPrazo ==
    ASSUME IInv, NEW o \in Operacoes, VencerPrazo(o) PROVE IInv'
<1> USE DEF VencerPrazo, Trabalhando, linha, provedor, aba, pedido
<1>1. TypeOK'
    BY SuposicaoCheckout DEF IInv, TypeOK, Estados, PassosDoPedido, Tipos,
       Respostas
<1>2. ASSUME NEW p \in Operacoes PROVE SabeDaOperacao(p)'
    BY SuposicaoCheckout DEF IInv, TypeOK, SabeDaOperacao, SabeDoPedido,
       Criando, Tipos
<1>3. ASSUME NEW k \in Pedidos PROVE SabeDoPedido(k)'
    BY SuposicaoCheckout DEF IInv, TypeOK, SabeDaOperacao, SabeDoPedido, Tipos
<1>4. MontadoVinculado'
    BY DEF IInv, TypeOK, MontadoVinculado, SabeDaOperacao, SabeDoPedido
<1> QED BY <1>1, <1>2, <1>3, <1>4 DEF IInv

\* The window closes on operations that were claimed.
LEMMA IInvFecharJanela ==
    ASSUME IInv, NEW o \in Operacoes, FecharJanela(o) PROVE IInv'
<1> USE DEF FecharJanela, linha, provedor, aba, pedido
<1>1. TypeOK'
    BY SuposicaoCheckout DEF IInv, TypeOK, Estados, PassosDoPedido, Tipos,
       Respostas
<1>2. ASSUME NEW p \in Operacoes PROVE SabeDaOperacao(p)'
    BY SuposicaoCheckout DEF IInv, TypeOK, SabeDaOperacao, SabeDoPedido,
       Criando, Tipos
<1>3. ASSUME NEW k \in Pedidos PROVE SabeDoPedido(k)'
    BY SuposicaoCheckout DEF IInv, TypeOK, SabeDaOperacao, SabeDoPedido, Tipos
<1>4. MontadoVinculado'
    BY DEF IInv, TypeOK, MontadoVinculado, SabeDaOperacao, SabeDoPedido
<1> QED BY <1>1, <1>2, <1>3, <1>4 DEF IInv

\* The key is forgotten when no request can use it any more.
LEMMA IInvEsquecer ==
    ASSUME IInv, NEW o \in Operacoes, Esquecer(o) PROVE IInv'
<1> USE DEF Esquecer, Em, linha, provedor, aba, pedido
<1>1. TypeOK'
    BY SuposicaoCheckout DEF IInv, TypeOK, Estados, PassosDoPedido, Tipos,
       Respostas
<1>2. ASSUME NEW p \in Operacoes PROVE SabeDaOperacao(p)'
    BY SuposicaoCheckout DEF IInv, TypeOK, SabeDaOperacao, SabeDoPedido,
       Criando, Tipos
<1>3. ASSUME NEW k \in Pedidos PROVE SabeDoPedido(k)'
    BY SuposicaoCheckout DEF IInv, TypeOK, SabeDaOperacao, SabeDoPedido, Tipos
<1>4. MontadoVinculado'
    BY DEF IInv, TypeOK, MontadoVinculado, SabeDaOperacao, SabeDoPedido
<1> QED BY <1>1, <1>2, <1>3, <1>4 DEF IInv

\* A lost cookie only takes knowledge away.
LEMMA IInvPerderCookie ==
    ASSUME IInv, NEW o \in Operacoes, PerderCookie(o) PROVE IInv'
<1> USE DEF PerderCookie, linha, provedor, aba, pedido
<1>1. TypeOK'
    BY SuposicaoCheckout DEF IInv, TypeOK, Estados, PassosDoPedido, Tipos,
       Respostas
<1>2. ASSUME NEW p \in Operacoes PROVE SabeDaOperacao(p)'
    BY SuposicaoCheckout DEF IInv, TypeOK, SabeDaOperacao, SabeDoPedido,
       Criando, Tipos
<1>3. ASSUME NEW k \in Pedidos PROVE SabeDoPedido(k)'
    BY SuposicaoCheckout DEF IInv, TypeOK, SabeDaOperacao, SabeDoPedido, Tipos
<1>4. MontadoVinculado'
    BY DEF IInv, TypeOK, MontadoVinculado, SabeDaOperacao, SabeDoPedido
<1> QED BY <1>1, <1>2, <1>3, <1>4 DEF IInv

\* A reload changes only who awaits the answer.
LEMMA IInvRecarregar == IInv /\ Recarregar => IInv'
<1> SUFFICES ASSUME IInv, Recarregar PROVE IInv'
    OBVIOUS
<1> USE DEF Recarregar, linha, provedor, aba, pedido
<1>1. TypeOK'
    BY DEF IInv, TypeOK
<1>2. ASSUME NEW p \in Operacoes PROVE SabeDaOperacao(p)'
    BY DEF IInv, SabeDaOperacao, Criando
<1>3. ASSUME NEW k \in Pedidos PROVE SabeDoPedido(k)'
    BY DEF IInv, SabeDoPedido
<1>4. MontadoVinculado'
    BY DEF IInv, MontadoVinculado
<1> QED BY <1>1, <1>2, <1>3, <1>4 DEF IInv

\* A stuttering step changes nothing.
LEMMA IInvParado == IInv /\ UNCHANGED vars => IInv'
<1> SUFFICES ASSUME IInv, UNCHANGED vars PROVE IInv'
    OBVIOUS
<1> USE DEF vars, linha, provedor, aba, pedido
<1>1. TypeOK'
    BY DEF IInv, TypeOK
<1>2. ASSUME NEW p \in Operacoes PROVE SabeDaOperacao(p)'
    BY DEF IInv, SabeDaOperacao, Criando
<1>3. ASSUME NEW k \in Pedidos PROVE SabeDoPedido(k)'
    BY DEF IInv, SabeDoPedido
<1>4. MontadoVinculado'
    BY DEF IInv, MontadoVinculado
<1> QED BY <1>1, <1>2, <1>3, <1>4 DEF IInv

-----------------------------------------------------------------------------
\* What the row, the provider and every request know stays true: the
\* invariant the other theorems are read off from.
THEOREM InvarianteCorreto == Spec => []IInv
<1>1. ASSUME IInv, [Next]_vars PROVE IInv'
    <2>1. ASSUME NEW h \in Pedidos, Passo(h) PROVE IInv'
        BY <1>1, <2>1, IInvPreparar, IInvRecusar, IInvReivindicar, IInvChamarCriar,
           IInvChamarLer, IInvConcluirComSessao, IInvConcluirSemSessao, IInvDesistir,
           IInvConfirmar, IInvEntregar, IInvPerderResposta DEF Passo
    <2>2. ASSUME NEW h \in Pedidos, Submeter(h) \/ Morrer(h) PROVE IInv'
        BY <1>1, <2>2, IInvSubmeter, IInvMorrer
    <2>3. ASSUME NEW o \in Operacoes, Tempo(o) PROVE IInv'
        BY <1>1, <2>3, IInvVencerPrazo, IInvFecharJanela, IInvEsquecer, IInvPerderCookie
           DEF Tempo
    <2> QED BY <1>1, <2>1, <2>2, <2>3, IInvRecarregar, IInvParado DEF Next
<1> QED BY <1>1, IInvInicial, PTL DEF Spec

\* The rows, the tab and the requests keep their types, whatever the numbers
\* of operations and requests.
THEOREM TipoCorreto == Spec => []TypeOK
<1>1. IInv => TypeOK
    BY DEF IInv
<1> QED BY <1>1, InvarianteCorreto, PTL

\* A guest is never shown a session the payment is not bound to.
THEOREM MontadoSeguro == Spec => []MontadoVinculado
<1>1. IInv => MontadoVinculado
    BY DEF IInv
<1> QED BY <1>1, InvarianteCorreto, PTL

\* However many requests retry an operation, the provider opens one session.
THEOREM UmaSessaoSo == Spec => []UmaSessao
<1>1. IInv => UmaSessao
    BY DEF IInv, SabeDaOperacao, UmaSessao
<1> QED BY <1>1, InvarianteCorreto, PTL

-----------------------------------------------------------------------------
\* A claim decides nothing, or gives up an operation nobody decided.
LEMMA ReservaDecide ==
    ASSUME IInv, NEW h \in Pedidos, NEW o \in Operacoes, GravarReserva(h, o)
    PROVE  Decisao!Next \/ UNCHANGED DecisaoGravada
<1>1. /\ abandonada' = [abandonada EXCEPT
                         ![o] = abandonada[o] \/ RespostaDaReserva(o) = "abandoned"]
      /\ vinculo' = vinculo
    BY DEF GravarReserva
<1>2. CASE abandonada' = abandonada
    BY <1>1, <1>2 DEF DecisaoGravada
<1>3. CASE abandonada' # abandonada
    <2>1. ~abandonada[o] /\ abandonada'[o] /\ RespostaDaReserva(o) = "abandoned"
        BY <1>1, <1>3 DEF IInv, TypeOK
    <2>2. vinculo[o] = 0
        BY <2>1 DEF RespostaDaReserva, IInv, SabeDaOperacao
    <2>3. /\ DecisaoGravada[o] = <<"aberta", 0>>
          /\ DecisaoGravada'[o] = <<"abandonada", 0>>
        BY <1>1, <2>1, <2>2 DEF DecisaoGravada
    <2>4. DecisaoGravada' = [DecisaoGravada EXCEPT ![o] = DecisaoGravada'[o]]
        BY <1>1 DEF DecisaoGravada, IInv, TypeOK
    <2>5. Decisao!Decidir(o)
        BY <2>3, <2>4 DEF Decisao!Decidir, Decisao!Aberta, Decisao!Abandonada
    <2> QED BY <2>5 DEF Decisao!Next
<1> QED BY <1>2, <1>3

\* A commit binds a payment nobody bound or gave up, or writes nothing.
LEMMA CommitDecide ==
    ASSUME IInv, NEW h \in Pedidos, Confirmar(h)
    PROVE  Decisao!Next \/ UNCHANGED DecisaoGravada
<1> DEFINE o == operacao[h]
<1>1. o \in Operacoes /\ obtida[h] \in Nat /\ obtida[h] # 0
    BY DEF Confirmar, Em, IInv, TypeOK, SabeDoPedido
<1>2. abandonada' = abandonada
    BY DEF Confirmar
<1>3. CASE vinculo' = vinculo
    BY <1>2, <1>3 DEF DecisaoGravada
<1>4. CASE vinculo' # vinculo
    <2>1. /\ estado[o] = "provider_succeeded"
          /\ vinculo' = [vinculo EXCEPT ![o] = obtida[h]]
        BY <1>4 DEF Confirmar, Minha
    <2>2. vinculo[o] = 0 /\ ~abandonada[o]
        BY <1>1, <2>1 DEF IInv, SabeDaOperacao
    <2>3. /\ DecisaoGravada[o] = <<"aberta", 0>>
          /\ DecisaoGravada'[o] = <<"vinculada", obtida[h]>>
        BY <1>1, <1>2, <2>1, <2>2 DEF DecisaoGravada, IInv, TypeOK
    <2>4. DecisaoGravada' = [DecisaoGravada EXCEPT ![o] = DecisaoGravada'[o]]
        BY <1>1, <1>2, <2>1 DEF DecisaoGravada, IInv, TypeOK
    <2>5. Decisao!Decidir(o)
        BY <1>1, <2>3, <2>4 DEF Decisao!Decidir, Decisao!Aberta,
           Decisao!Vinculadas
    <2> QED BY <1>1, <2>5 DEF Decisao!Next
<1> QED BY <1>3, <1>4

\* Every operation is decided at most once: the refinement the runs check, for
\* any numbers of operations, requests and crashes.
THEOREM CheckoutImplementaDecisao == Spec => ImplementaDecisao
<1>1. Init => Decisao!Init
    BY DEF Init, Decisao!Init, Decisao!Aberta, DecisaoGravada
<1>2. ASSUME IInv, [Next]_vars PROVE Decisao!Next \/ UNCHANGED DecisaoGravada
    <2>0. (vinculo' = vinculo /\ abandonada' = abandonada) => UNCHANGED DecisaoGravada
        BY DEF DecisaoGravada
    <2> USE DEF linha
    <2>1. ASSUME NEW h \in Pedidos, Passo(h)
          PROVE  Decisao!Next \/ UNCHANGED DecisaoGravada
        <3>1. CASE Reivindicar(h) \/ Desistir(h)
            <4>1. operacao[h] \in Operacoes /\ GravarReserva(h, operacao[h])
                BY <1>2, <3>1 DEF Reivindicar, Desistir, Em, IInv, TypeOK
            <4> QED BY <1>2, <4>1, ReservaDecide
        <3>2. CASE Confirmar(h)
            BY <1>2, <3>2, CommitDecide
        <3>3. CASE \/ Preparar(h) \/ Recusar(h) \/ ChamarCriar(h) \/ ChamarLer(h)
                   \/ ConcluirComSessao(h) \/ ConcluirSemSessao(h)
                   \/ Entregar(h) \/ PerderResposta(h)
            BY <2>0, <3>3 DEF Preparar, Recusar, ChamarCriar, ChamarLer,
               ConcluirComSessao, ConcluirSemSessao, Entregar, PerderResposta
        <3> QED BY <2>1, <3>1, <3>2, <3>3 DEF Passo
    <2>2. ASSUME NEW h \in Pedidos, Submeter(h) \/ Morrer(h)
          PROVE  UNCHANGED DecisaoGravada
        BY <2>0, <2>2 DEF Submeter, Morrer
    <2>3. ASSUME NEW o \in Operacoes, Tempo(o) PROVE UNCHANGED DecisaoGravada
        BY <2>0, <2>3 DEF Tempo, VencerPrazo, FecharJanela, Esquecer,
           PerderCookie
    <2>4. CASE Recarregar \/ UNCHANGED vars
        BY <2>0, <2>4 DEF Recarregar, vars
    <2> QED BY <1>2, <2>1, <2>2, <2>3, <2>4 DEF Next
<1> QED BY <1>1, <1>2, InvarianteCorreto, PTL DEF Spec, ImplementaDecisao, Decisao!Spec

-----------------------------------------------------------------------------
(* One QR code in a tab *)

\* In one tab, one cart is never shown two PIX charges: the guest has one code
\* to pay, whatever was retried, reloaded or lost.
UmQrPorAba == via = "inter" => \A m, n \in montados : m = n

\* The tab awaits a request of the operation it keeps, is told to start again
\* only for an operation that was given up, and keeps the operation of the
\* code it shows.
AbaFiel ==
    /\ ouvinte # Ninguem =>
          passo[ouvinte] # "livre" /\ operacao[ouvinte] = guardado
    /\ \A h \in Pedidos :
          passo[h] = "responder" /\ modo[h] = "retry" => abandonada[operacao[h]]
    /\ via = "inter" => \A m \in montados : m[1] = guardado

\* A tab that shows a code never draws a new operation.
LEMMA AbaSubmeter ==
    ASSUME IInv, AbaFiel, NEW h \in Pedidos, Submeter(h) PROVE AbaFiel'
<1> USE DEF Submeter, Em, Ir, linha
<1>1. PICK o \in Operacoes :
         /\ IF guardado = NenhumaOp THEN estado[o] = "livre" ELSE o = guardado
         /\ guardado' = o
         /\ operacao' = [operacao EXCEPT ![h] = o]
         /\ passo' = [passo EXCEPT
                      ![h] = IF o \in cookies THEN "executar" ELSE "preparar"]
    OBVIOUS
<1>2. /\ passo[h] = "livre" /\ ouvinte' = h
      /\ UNCHANGED <<via, abandonada, montados, modo>>
    OBVIOUS
<1>3. (ouvinte # Ninguem => passo[ouvinte] # "livre" /\ operacao[ouvinte] = guardado)'
    BY <1>1, <1>2 DEF IInv, TypeOK
<1>4. (\A k \in Pedidos :
          passo[k] = "responder" /\ modo[k] = "retry" => abandonada[operacao[k]])'
    BY <1>1, <1>2 DEF IInv, TypeOK, AbaFiel
<1>5. (via = "inter" => \A m \in montados : m[1] = guardado)'
    <2>1. \A m \in montados : m[1] \in Operacoes
        BY DEF IInv, TypeOK
    <2> QED BY <1>1, <1>2, <2>1, SuposicaoCheckout DEF AbaFiel
<1> QED BY <1>3, <1>4, <1>5 DEF AbaFiel

\* A claim answers "start again" only with the abandonment it writes.
LEMMA AbaReserva ==
    ASSUME IInv, AbaFiel, NEW h \in Pedidos, Reivindicar(h) \/ Desistir(h)
    PROVE  AbaFiel'
<1> DEFINE o == operacao[h]
           r == RespostaDaReserva(o)
<1>1. /\ o \in Operacoes /\ passo[h] \in {"executar", "desistir"}
      /\ abandonada' = [abandonada EXCEPT ![o] = @ \/ r = "abandoned"]
      /\ UNCHANGED <<via, guardado, montados, ouvinte, operacao>>
    BY DEF Reivindicar, Desistir, Em, GravarReserva, aba, IInv, TypeOK
<1>2. /\ passo' = [passo EXCEPT ![h] = passo'[h]] /\ passo'[h] # "livre"
      /\ modo' = [modo EXCEPT ![h] = modo'[h]]
      /\ passo'[h] = "responder" /\ modo'[h] = "retry" => r = "abandoned"
    BY DEF Reivindicar, Desistir, ResponderCom, Ir, Em, Tipos, IInv, TypeOK
<1> HIDE DEF r
<1>3. \A p \in Operacoes : abandonada[p] => abandonada'[p]
    BY <1>1 DEF IInv, TypeOK
<1>4. ASSUME NEW k \in Pedidos, passo'[k] = "responder", modo'[k] = "retry"
      PROVE  abandonada'[operacao'[k]]
    <2>1. CASE k = h
        BY <1>1, <1>2, <1>4, <2>1 DEF IInv, TypeOK
    <2>2. CASE k # h
        BY <1>1, <1>2, <1>3, <1>4, <2>2 DEF IInv, TypeOK, AbaFiel
    <2> QED BY <2>1, <2>2
<1>5. (ouvinte # Ninguem => passo[ouvinte] # "livre" /\ operacao[ouvinte] = guardado)'
    BY <1>1, <1>2 DEF IInv, TypeOK, AbaFiel
<1> QED BY <1>1, <1>4, <1>5 DEF AbaFiel

\* The other steps of a request neither answer "start again" nor touch the tab.
LEMMA AbaPassoInterno ==
    ASSUME IInv, AbaFiel, NEW h \in Pedidos,
           \/ Preparar(h) \/ Recusar(h) \/ ChamarCriar(h) \/ ChamarLer(h)
           \/ ConcluirComSessao(h) \/ ConcluirSemSessao(h) \/ Confirmar(h)
    PROVE  AbaFiel'
<1>1. /\ passo[h] \notin {"livre", "responder"}
      /\ UNCHANGED <<via, abandonada, guardado, montados, ouvinte, operacao>>
    BY DEF Preparar, Recusar, ChamarCriar, ChamarLer, ConcluirComSessao,
       ConcluirSemSessao, Confirmar, Em, linha, aba
<1>2. /\ passo' = [passo EXCEPT ![h] = passo'[h]] /\ passo'[h] # "livre"
      /\ modo' = [modo EXCEPT ![h] = modo'[h]]
      /\ ~(passo'[h] = "responder" /\ modo'[h] = "retry")
    <2> USE DEF IInv, TypeOK, Em, Ir, ResponderCom
    <2>1. CASE Preparar(h) \/ Recusar(h)
        BY <2>1 DEF Preparar, Recusar
    <2>2. CASE ChamarCriar(h) \/ ChamarLer(h)
        BY <2>2 DEF ChamarCriar, ChamarLer
    <2>3. CASE ConcluirComSessao(h) \/ ConcluirSemSessao(h) \/ Confirmar(h)
        BY <2>3 DEF ConcluirComSessao, ConcluirSemSessao, Confirmar
    <2> QED BY <2>1, <2>2, <2>3
<1> QED BY <1>1, <1>2 DEF IInv, TypeOK, AbaFiel

\* A page told to start again shows no code: what it keeps was given up, and a
\* code is only shown for an operation that was not.
LEMMA AbaEntregar ==
    ASSUME IInv, AbaFiel, NEW h \in Pedidos, Entregar(h) PROVE AbaFiel'
<1> DEFINE o == operacao[h]
           solta == modo[h] = "retry" \/ (modo[h] = "material" /\ via = "stripe")
<1>1. /\ passo[h] = "responder" /\ ouvinte = h /\ ouvinte' = Ninguem
      /\ montados' = IF modo[h] = "material"
                     THEN montados \cup {<<o, obtida[h]>>} ELSE montados
      /\ guardado' = IF solta THEN NenhumaOp ELSE guardado
      /\ passo' = [passo EXCEPT ![h] = "livre"]
      /\ modo' = [modo EXCEPT ![h] = "nenhum"]
      /\ operacao' = [operacao EXCEPT ![h] = NenhumaOp]
      /\ UNCHANGED <<via, abandonada>>
    BY DEF Entregar, Em, Ir, Sair, linha
<1>2. o = guardado
    BY <1>1, SuposicaoCheckout DEF AbaFiel
<1>3. (via = "inter" => \A m \in montados : m[1] = guardado)'
    <2>1. ASSUME via = "inter" PROVE \A m \in montados' : m[1] = guardado'
        <3>1. CASE modo[h] = "retry"
            <4>1. montados = {}
                BY <1>1, <1>2, <2>1, <3>1 DEF AbaFiel, IInv, MontadoVinculado
            <4> QED BY <1>1, <3>1, <4>1
        <3>2. CASE modo[h] # "retry"
            BY <1>1, <1>2, <2>1, <3>2 DEF AbaFiel
        <3> QED BY <3>1, <3>2
    <2> QED BY <1>1, <2>1
<1>4. (\A k \in Pedidos :
          passo[k] = "responder" /\ modo[k] = "retry" => abandonada[operacao[k]])'
    BY <1>1 DEF IInv, TypeOK, AbaFiel
<1> QED BY <1>1, <1>3, <1>4 DEF AbaFiel

\* A request that ends without an answer takes nothing from the tab.
LEMMA AbaSemResposta ==
    ASSUME IInv, AbaFiel, NEW h \in Pedidos, PerderResposta(h) \/ Morrer(h)
    PROVE  AbaFiel'
<1>1. /\ ouvinte' = IF ouvinte = h THEN Ninguem ELSE ouvinte
      /\ passo' = [passo EXCEPT ![h] = "livre"]
      /\ modo' = [modo EXCEPT ![h] = "nenhum"]
      /\ operacao' = [operacao EXCEPT ![h] = NenhumaOp]
      /\ UNCHANGED <<via, abandonada, montados, guardado>>
    BY DEF PerderResposta, Morrer, Sair, Ir, linha, aba
<1> QED BY <1>1 DEF IInv, TypeOK, AbaFiel

\* Time, the browser and a reload leave the operation the tab keeps.
LEMMA AbaOutros ==
    ASSUME IInv, AbaFiel,
           \/ \E o \in Operacoes : Tempo(o)
           \/ Recarregar
           \/ UNCHANGED vars
    PROVE  AbaFiel'
<1>1. /\ ouvinte' \in {ouvinte, Ninguem}
      /\ UNCHANGED <<via, abandonada, guardado, montados, passo, operacao, modo>>
    BY DEF Tempo, VencerPrazo, FecharJanela, Esquecer, PerderCookie, Recarregar,
       vars, linha, aba, pedido
<1> QED BY <1>1 DEF AbaFiel

\* The tab is faithful in every state.
LEMMA AbaFielSempre == Spec => []AbaFiel
<1>1. Init => AbaFiel
    BY DEF Init, AbaFiel
<1>2. ASSUME IInv, AbaFiel, [Next]_vars PROVE AbaFiel'
    <2>1. ASSUME NEW h \in Pedidos, Submeter(h) \/ Passo(h) \/ Morrer(h)
          PROVE  AbaFiel'
        BY <1>2, <2>1, AbaSubmeter, AbaReserva, AbaPassoInterno, AbaEntregar,
           AbaSemResposta DEF Passo
    <2> QED BY <1>2, <2>1, AbaOutros DEF Next
<1> QED BY <1>1, <1>2, InvarianteCorreto, PTL DEF Spec

\* A cart in one tab never shows two PIX charges, for any number of operations
\* the tab draws, requests, crashes and expired leases: a delivered QR "remains
\* bound to this identity, even after rerender/reload" (checkoutOperationClient.ts),
\* and the tab is told to start again only once the operation can never be bound.
THEOREM UmQr == Spec => []UmQrPorAba
<1>1. ASSUME IInv, AbaFiel PROVE UmQrPorAba
    <2> SUFFICES ASSUME via = "inter", NEW m \in montados, NEW n \in montados
                 PROVE  m = n
        BY DEF UmQrPorAba
    <2>1. m = <<m[1], m[2]>> /\ n = <<n[1], n[2]>>
        BY <1>1 DEF IInv, TypeOK
    <2>2. m[1] = guardado /\ n[1] = guardado
        BY <1>1 DEF AbaFiel
    <2>3. m[2] = vinculo[guardado] /\ n[2] = vinculo[guardado]
        BY <1>1, <2>2 DEF IInv, MontadoVinculado
    <2> QED BY <2>1, <2>2, <2>3
<1> QED BY <1>1, AbaFielSempre, InvarianteCorreto, PTL

-----------------------------------------------------------------------------
(* A lost capability *)

\* The tab keeps an operation that was reserved, the cookie of its capability is
\* not in the browser, no answer that brings it is awaited, and no request that
\* carried it is about to claim.
AbaPresa(o) ==
    /\ guardado = o /\ estado[o] = "reserved" /\ o \notin cookies
    /\ \A h \in Pedidos :
          operacao[h] = o =>
              /\ passo[h] # "executar"
              /\ ~(passo[h] = "responder" /\ modo[h] = "prepared" /\ ouvinte = h)

\* Such a tab stays so: no retry, reload or passing of time lets it pay the cart.
AbaPresaNaoSai == [][\A o \in Operacoes : AbaPresa(o) => AbaPresa(o)']_vars

\* Once the answer of a prepare request was lost the tab is stuck for as long as
\* it lives: each submission sends the stored id without its cookie, prepare finds
\* the operation under another digest and answers CONFLICT, and the client drops
\* an id only on an answer (pagina-router.ts, checkoutOperationClient.ts, whose
\* comment promises that "a response lost after provider acceptance therefore
\* leaves the same id for a reload"; before the provider it is no help).
THEOREM CapacidadePerdida == Spec => AbaPresaNaoSai
<1>1. Spec => []AbaFiel
    BY AbaFielSempre
<1>2. ASSUME IInv, AbaFiel, [Next]_vars, NEW o \in Operacoes, AbaPresa(o)
      PROVE  AbaPresa(o)'
    <2> USE <1>2 DEF AbaPresa
    <2>1. \A h \in Pedidos : operacao[h] = o =>
              passo[h] \notin {"executar", "chamar", "concluir", "desistir", "confirmar"}
        BY DEF IInv, SabeDoPedido
    <2>2. \A h \in Pedidos : operacao[h] = o /\ passo[h] = "responder" /\ ouvinte = h
              => modo[h] \notin {"prepared", "retry", "material"}
        BY DEF IInv, TypeOK, SabeDaOperacao, SabeDoPedido, AbaFiel
    <2>3. ASSUME NEW h \in Pedidos, Submeter(h) PROVE AbaPresa(o)'
        BY <2>3, SuposicaoCheckout DEF Submeter, Em, Ir, linha, IInv, TypeOK
    <2>4. ASSUME NEW h \in Pedidos, Preparar(h) PROVE AbaPresa(o)'
        BY <2>4 DEF Preparar, Em, Ir, ResponderCom, aba, IInv, TypeOK
    <2>5. ASSUME NEW h \in Pedidos, Entregar(h) PROVE AbaPresa(o)'
        BY <2>2, <2>5, SuposicaoCheckout
           DEF Entregar, Em, Ir, Sair, linha, IInv, TypeOK, AbaFiel
    <2>6. ASSUME NEW h \in Pedidos, Recusar(h) PROVE AbaPresa(o)'
        BY <2>6 DEF Recusar, Em, Ir, ResponderCom, linha, aba, IInv, TypeOK
    <2>7. ASSUME NEW h \in Pedidos, PerderResposta(h) \/ Morrer(h) PROVE AbaPresa(o)'
        BY <2>7, SuposicaoCheckout
           DEF PerderResposta, Morrer, Em, Ir, Sair, linha, aba, IInv, TypeOK
    <2>8. ASSUME NEW h \in Pedidos, operacao[h] # o,
                 \/ Reivindicar(h) \/ ChamarCriar(h) \/ ChamarLer(h)
                 \/ ConcluirComSessao(h) \/ ConcluirSemSessao(h) \/ Desistir(h)
                 \/ Confirmar(h)
          PROVE  AbaPresa(o)'
        <3>1. UNCHANGED <<guardado, cookies, ouvinte, operacao>>
            BY <2>8 DEF Reivindicar, ChamarCriar, ChamarLer, ConcluirComSessao,
               ConcluirSemSessao, Desistir, Confirmar, aba
        <3>2. estado'[o] = estado[o]
            BY <2>8 DEF Reivindicar, ChamarCriar, ChamarLer, ConcluirComSessao,
               ConcluirSemSessao, Desistir, Confirmar, GravarReserva, linha, IInv, TypeOK
        <3>3. \A k \in Pedidos : k # h => passo'[k] = passo[k] /\ modo'[k] = modo[k]
            BY <2>8 DEF Reivindicar, ChamarCriar, ChamarLer, ConcluirComSessao,
               ConcluirSemSessao, Desistir, Confirmar, Ir, ResponderCom, IInv, TypeOK
        <3> QED BY <2>8, <3>1, <3>2, <3>3
    <2>9. ASSUME NEW h \in Pedidos, Passo(h) PROVE AbaPresa(o)'
        BY <2>1, <2>4, <2>5, <2>6, <2>7, <2>8, <2>9
           DEF Passo, Em, Reivindicar, ChamarCriar, ChamarLer, ConcluirComSessao,
               ConcluirSemSessao, Desistir, Confirmar
    <2>10. CASE (\E p \in Operacoes : Tempo(p)) \/ Recarregar \/ UNCHANGED vars
        BY <2>10, SuposicaoCheckout DEF Tempo, VencerPrazo, FecharJanela, Esquecer, PerderCookie,
           Recarregar, vars, linha, aba, pedido
    <2> QED BY <2>3, <2>7, <2>9, <2>10 DEF Next
<1>3. IInv /\ AbaFiel /\ [Next]_vars => \A o \in Operacoes : AbaPresa(o) => AbaPresa(o)'
    BY <1>2
<1> QED BY <1>1, <1>3, InvarianteCorreto, PTL DEF Spec, AbaPresaNaoSai

=============================================================================
