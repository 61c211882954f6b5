----------------------- MODULE CorreioCicloDeVidaProvas -----------------------
(***************************************************************************)
(* Proofs about CorreioCicloDeVida, for any payments, users, jobs and      *)
(* failures.  A delivery that is held by a job is sending or unknown, and  *)
(* neither state is ever claimed or rearmed: so a delivery has one sender  *)
(* in its life that reaches SMTP.                                          *)
(***************************************************************************)
EXTENDS CorreioCicloDeVida, TLAPS

Presente(p) == <<<<"presente", p>>, Dono>>
Recado(p) == <<<<"recado", p>>, Dono>>

\* What the step of a job says of the delivery it holds.
SabeDoJob(w) ==
    LET d == trab[w].d IN
    /\ trab[w].passo = "livre" <=> d = Ninguem
    /\ trab[w].passo = "livre" => trab[w].ende = Ninguem /\ trab[w].saida = "nenhuma"
    /\ d # Ninguem => estado[d] \in {"sending", "unknown"}
    /\ trab[w].passo \in {"preparando", "conferindo", "transmitindo"} => envios[d] = 0
    /\ trab[w].passo = "registrando" =>
          /\ trab[w].saida = "aceita" => envios[d] > 0
          /\ envios[d] > 0 => trab[w].saida \in {"aceita", "ambigua"}
    /\ trab[w].passo \in {"conferindo", "transmitindo", "registrando"} =>
          trab[w].ende # Ninguem /\ chave[d] = trab[w].ende

\* No two jobs hold the same delivery.
PosseUnica ==
    \A w, x \in Trabalhadores : trab[w].d # Ninguem /\ trab[w].d = trab[x].d => w = x

\* What the state of a delivery says of SMTP and of its key.
SabeDaEntrega(d) ==
    /\ envios[d] <= 1
    /\ estado[d] = "sent" => envios[d] > 0
    /\ envios[d] > 0 => estado[d] \in PodeTerSaido
    /\ estado[d] = "pending" => tentativas[d] < MaxTentativas
    /\ para[d] # Ninguem => envios[d] > 0 /\ chave[d] = para[d]
    /\ estado[d] # "absent" => d[1] \in admitidos

\* No two deliveries of an event have the same key.
ChavesUnicas ==
    \A d, f \in Entregas :
        d[1] = f[1] /\ chave[d] # Ninguem /\ chave[d] = chave[f] => d = f

\* An alert that goes out, or is about to, finds the payment's e-mail settled.
RecadoSai(p) ==
    \/ envios[Recado(p)] > 0
    \/ \E w \in Trabalhadores : /\ trab[w].d = Recado(p)
                                /\ trab[w].passo \in {"transmitindo", "registrando"}
SabeDoRecado(p) ==
    /\ <<"recado", p>> \in admitidos => <<"presente", p>> \in admitidos
    /\ RecadoSai(p) => estado[Presente(p)] \notin {"pending", "sending", "sent", "unknown"}

IInv ==
    /\ TypeOK
    /\ \A w \in Trabalhadores : SabeDoJob(w)
    /\ PosseUnica
    /\ \A d \in Entregas : SabeDaEntrega(d)
    /\ ChavesUnicas
    /\ \A p \in Pagamentos \ recadoAntes : SabeDoRecado(p)

TipoDoJob == [passo : Passos, itens : SUBSET Itens, d : Entregas \cup {Ninguem},
              ende : Enderecos \cup {Ninguem},
              saida : {"nenhuma", "aceita", "ambigua", "rejeitada", "permanente"}]

-----------------------------------------------------------------------------
LEMMA Nomes ==
    /\ \A p \in Pagamentos : /\ Presente(p) \in Entregas /\ Presente(p)[1] = <<"presente", p>>
                             /\ Recado(p) \in Entregas /\ Recado(p)[1] = <<"recado", p>>
    /\ \A d \in Entregas : d # Ninguem /\ d[1] \in Eventos
BY SuposicaoCorreio DEF Presente, Recado, Entregas, Eventos

\* The initial states satisfy the invariant.
LEMMA IInvInicial == Init => IInv
<1> SUFFICES ASSUME Init PROVE IInv
    OBVIOUS
<1> USE DEF Init, Livre
<1>1. TypeOK
    <2>1. PICK i \in Partidas :
              /\ aprovados = i.pagamentos /\ mudancas = i.mudancas /\ falhas = i.falhas
              /\ gancho = [p \in Pagamentos |-> IF p \in i.ganchos THEN "presente" ELSE "fim"]
              /\ preferencia = i.preferencias
              /\ data \in [Campanhas -> 0..UltimoDia]
        OBVIOUS
    <2>2. /\ i.pagamentos \subseteq Pagamentos /\ i.mudancas \in Nat /\ i.falhas \in Nat
          /\ i.preferencias \in [Usuarios -> Preferencias]
        BY SuposicaoCorreio
    <2> QED BY <2>1, <2>2, SuposicaoCorreio DEF TypeOK, Estados, Passos
<1>2. \A w \in Trabalhadores : SabeDoJob(w)
    BY DEF SabeDoJob
<1>3. PosseUnica
    BY DEF PosseUnica
<1>4. \A d \in Entregas : SabeDaEntrega(d)
    <2> TAKE d \in Entregas
    <2>1. envios[d] = 0 /\ estado[d] = "absent" /\ para[d] = Ninguem /\ ~(0 > 0)
        OBVIOUS
    <2> QED BY <2>1 DEF SabeDaEntrega
<1>5. ChavesUnicas
    BY DEF ChavesUnicas
<1>6. ASSUME NEW p \in Pagamentos PROVE SabeDoRecado(p)
    <2>1. envios[Recado(p)] = 0 /\ ~(0 > 0) /\ Recado(p) # Ninguem
        BY Nomes
    <2>2. ~RecadoSai(p)
        BY <2>1 DEF RecadoSai
    <2> QED BY <2>2 DEF SabeDoRecado
<1> QED BY <1>1, <1>2, <1>3, <1>4, <1>5, <1>6 DEF IInv

\* Users, days, hooks and scans change nothing the invariant is about.
LEMMA SoOResto ==
    ASSUME IInv, TypeOK', UNCHANGED <<eventos, caixa, smtp>>,
           \A w \in Trabalhadores : /\ trab'[w].passo = trab[w].passo /\ trab'[w].d = trab[w].d
                                    /\ trab'[w].ende = trab[w].ende
                                    /\ trab'[w].saida = trab[w].saida
    PROVE  IInv'
<1> USE DEF eventos, caixa, smtp
<1>1. \A w \in Trabalhadores : SabeDoJob(w)'
    BY DEF IInv, SabeDoJob
<1>2. PosseUnica'
    BY DEF IInv, PosseUnica
<1>3. \A d \in Entregas : SabeDaEntrega(d)'
    BY DEF IInv, SabeDaEntrega
<1>4. ChavesUnicas'
    BY DEF IInv, ChavesUnicas
<1>5. \A p \in Pagamentos \ recadoAntes' : SabeDoRecado(p)'
    BY DEF IInv, SabeDoRecado, RecadoSai
<1> QED BY <1>1, <1>2, <1>3, <1>4, <1>5 DEF IInv

\* One job moves; the others and what they hold stay.
SoOJob(w) ==
    /\ trab' \in [Trabalhadores -> TipoDoJob]
    /\ \A x \in Trabalhadores : x # w => trab'[x] = trab[x]

\* A job lets go of its delivery, writing to it only if it is still sending.
LEMMA Solta ==
    ASSUME IInv, NEW w \in Trabalhadores, NEW s \in Estados, NEW d, d = trab[w].d,
           SoOJob(w), trab'[w].passo = "livre", trab'[w].d = Ninguem,
           trab'[w].ende = Ninguem, trab'[w].saida = "nenhuma",
           UNCHANGED <<eventos, chave, gancho, mundo, smtp, cursor>>, falhas' \in Nat,
           \/ UNCHANGED <<estado, tentativas>>
           \/ /\ d \in Entregas /\ estado[d] = "sending"
              /\ estado' = [estado EXCEPT ![d] = s]
              /\ tentativas' \in [Entregas -> 0..MaxTentativas]
              /\ \A x \in Entregas : x # d => tentativas'[x] = tentativas[x]
              /\ s # "absent"
              /\ s = "pending" => tentativas'[d] < MaxTentativas
              /\ s = "sent" => envios[d] > 0
              /\ envios[d] > 0 => s \in {"sent", "unknown"}
    PROVE  IInv'
<1> USE DEF eventos, mundo, smtp, SoOJob
<1>1. TypeOK'
    BY DEF IInv, TypeOK, TipoDoJob
<1>t. /\ estado \in [Entregas -> Estados] /\ estado' \in [Entregas -> Estados]
      /\ envios \in [Entregas -> Nat]
    BY <1>1 DEF IInv, TypeOK
<1>2. ASSUME NEW x \in Trabalhadores PROVE SabeDoJob(x)'
    <2>1. CASE x = w
        BY <2>1 DEF SabeDoJob
    <2>2. CASE x # w
        <3>1. trab'[x] = trab[x] /\ SabeDoJob(x)
            BY <2>2 DEF IInv
        <3>2. CASE trab[x].d = Ninguem
            BY <3>1, <3>2 DEF SabeDoJob
        <3>3. CASE trab[x].d # Ninguem
            <4>1. trab[x].d # d /\ trab[x].d \in Entregas
                BY <2>2, <3>3 DEF IInv, PosseUnica, TypeOK
            <4>2. estado'[trab[x].d] = estado[trab[x].d]
                BY <4>1, <1>t
            <4> QED BY <3>1, <4>2 DEF SabeDoJob
        <3> QED BY <3>2, <3>3
    <2> QED BY <2>1, <2>2
<1>3. PosseUnica'
    BY DEF IInv, PosseUnica
<1>4. ASSUME NEW f \in Entregas PROVE SabeDaEntrega(f)'
    <2>1. SabeDaEntrega(f)
        BY DEF IInv
    <2>2. CASE UNCHANGED <<estado, tentativas>> \/ f # d
        <3>1. estado'[f] = estado[f] /\ tentativas'[f] = tentativas[f]
            BY <2>2, <1>t
        <3> QED BY <2>1, <3>1 DEF SabeDaEntrega
    <2>3. CASE ~UNCHANGED <<estado, tentativas>> /\ f = d
        <3>1. estado'[d] = s
            BY <2>3, <1>t
        <3> QED BY <2>1, <2>3, <3>1 DEF SabeDaEntrega, PodeTerSaido
    <2> QED BY <2>2, <2>3
<1>5. ChavesUnicas'
    BY DEF IInv, ChavesUnicas
<1>6. ASSUME NEW p \in Pagamentos \ recadoAntes PROVE SabeDoRecado(p)'
    <2>1. SabeDoRecado(p) /\ Presente(p) \in Entregas
        BY Nomes DEF IInv
    <2>2. RecadoSai(p)' => RecadoSai(p)
        BY DEF RecadoSai
    <2>3. estado[Presente(p)] \notin {"pending", "sending", "sent", "unknown"} =>
             estado'[Presente(p)] = estado[Presente(p)]
        BY <2>1, <1>t
    <2> QED BY <2>1, <2>2, <2>3 DEF SabeDoRecado
<1> QED BY <1>1, <1>2, <1>3, <1>4, <1>5, <1>6 DEF IInv

\* What is rearmed is held by no job and was not sent.
LEMMA RearmavelSolta ==
    ASSUME IInv, NEW e \in Eventos, NEW R, NEW n, e \notin admitidos \/ Rearmavel(e, R, n),
           NEW d \in Entregas, d[1] = e
    PROVE  /\ estado[d] \notin PodeTerSaido /\ envios[d] = 0 /\ para[d] = Ninguem
           /\ \A w \in Trabalhadores : trab[w].d # d
<1>1. SabeDaEntrega(d) /\ envios[d] \in Nat /\ d # Ninguem
    BY Nomes DEF IInv, TypeOK
<1>2. estado[d] \notin PodeTerSaido
    BY <1>1 DEF SabeDaEntrega, Rearmavel, PodeTerSaido
<1>3. \A w \in Trabalhadores : trab[w].d # d
    BY <1>1, <1>2 DEF IInv, SabeDoJob, PodeTerSaido
<1> QED BY <1>1, <1>2, <1>3 DEF SabeDaEntrega

\* An admission arms deliveries of one event that nobody holds, or does nothing.
LEMMA Admite ==
    ASSUME IInv, NEW e \in Eventos, NEW R \in SUBSET Usuarios, NEW n, Admitir(e, R, n),
           e[1] = "lembrete" => n \in 0..UltimoDia,
           e[1] = "recado" => R \subseteq {Dono},
           UNCHANGED <<mundo, smtp, cursor, falhas>>,
           gancho' \in [Pagamentos -> {"presente", "recado", "fim"}],
           trab' \in [Trabalhadores -> TipoDoJob],
           \A w \in Trabalhadores : /\ trab'[w].passo = trab[w].passo /\ trab'[w].d = trab[w].d
                                    /\ trab'[w].ende = trab[w].ende
                                    /\ trab'[w].saida = trab[w].saida
    PROVE  IInv'
<1> DEFINE armar == R # {} /\ (e \notin admitidos \/ Rearmavel(e, R, n))
<1> USE DEF mundo, smtp
<1>a. /\ admitidos' = IF armar THEN admitidos \cup {e} ELSE admitidos
      /\ \A d \in Entregas : estado'[d] # estado[d] \/ tentativas'[d] # tentativas[d]
                                \/ chave'[d] # chave[d] => armar /\ d[1] = e
      /\ \A d \in Entregas : estado'[d] # estado[d] => estado'[d] \in {"pending", "remarcada"}
      /\ \A d \in Entregas : armar /\ d[1] = e =>
            \/ estado'[d] = "pending" /\ tentativas'[d] = 0 /\ chave'[d] = Ninguem
            \/ estado'[d] = "remarcada" /\ chave'[d] = chave[d]
            \/ UNCHANGED <<estado[d], tentativas[d], chave[d]>>
    BY DEF Admitir
<1>b. /\ estado' \in [Entregas -> Estados] /\ tentativas' \in [Entregas -> 0..MaxTentativas]
      /\ chave' \in [Entregas -> Enderecos \cup {Ninguem}]
      /\ snapshot' \in [Campanhas -> 0..UltimoDia]
      /\ recadoAntes' \subseteq Pagamentos /\ recadoAntes \subseteq recadoAntes'
    <2>1. 0 \in 0..MaxTentativas
        BY SuposicaoCorreio
    <2>2. \A c \in Campanhas : armar /\ e = <<"lembrete", c>> => n \in 0..UltimoDia
        OBVIOUS
    <2> QED BY <2>1, <2>2 DEF Admitir, IInv, TypeOK, Estados
<1>c. ASSUME armar, NEW d \in Entregas, d[1] = e
      PROVE  /\ estado[d] \notin PodeTerSaido /\ envios[d] = 0 /\ para[d] = Ninguem
             /\ \A w \in Trabalhadores : trab[w].d # d
    BY <1>c, RearmavelSolta
<1>d. ASSUME armar, \E w \in Trabalhadores : trab[w].d \in Entregas /\ trab[w].d[1] = e
      PROVE  FALSE
    BY <1>c, <1>d
<1> HIDE DEF armar
<1>1. TypeOK'
    <2>1. admitidos' \subseteq Eventos
        BY <1>a DEF IInv, TypeOK
    <2> QED BY <2>1, <1>b DEF IInv, TypeOK, TipoDoJob
<1>2. ASSUME NEW w \in Trabalhadores PROVE SabeDoJob(w)'
    <2>1. SabeDoJob(w)
        BY DEF IInv
    <2>2. trab[w].d # Ninguem => trab[w].d \in Entregas
        BY DEF IInv, TypeOK
    <2>3. trab[w].d # Ninguem => /\ estado'[trab[w].d] = estado[trab[w].d]
                                 /\ chave'[trab[w].d] = chave[trab[w].d]
        BY <1>a, <1>d, <2>2
    <2> QED BY <2>1, <2>3 DEF SabeDoJob
<1>3. PosseUnica'
    BY DEF IInv, PosseUnica
<1>4. ASSUME NEW d \in Entregas PROVE SabeDaEntrega(d)'
    <2>1. SabeDaEntrega(d) /\ admitidos \subseteq admitidos'
        BY <1>a DEF IInv
    <2>2. CASE UNCHANGED <<estado[d], tentativas[d], chave[d]>>
        <3>1. estado'[d] = estado[d] /\ tentativas'[d] = tentativas[d] /\ chave'[d] = chave[d]
            BY <2>2
        <3> QED BY <2>1, <3>1 DEF SabeDaEntrega
    <2>3. CASE ~UNCHANGED <<estado[d], tentativas[d], chave[d]>>
        <3>1. armar /\ d[1] = e /\ e \in admitidos'
            BY <1>a, <2>3
        <3>2. envios[d] = 0 /\ para[d] = Ninguem /\ ~(0 > 0) /\ 0 <= 1
            BY <1>c, <3>1
        <3>3. \/ estado'[d] = "pending" /\ tentativas'[d] = 0
              \/ estado'[d] = "remarcada"
            BY <1>a, <2>3, <3>1
        <3>4. 0 < MaxTentativas
            BY SuposicaoCorreio
        <3> QED BY <3>1, <3>2, <3>3, <3>4 DEF SabeDaEntrega
    <2> QED BY <2>2, <2>3
<1>5. ChavesUnicas'
    <2>1. \A d \in Entregas : chave'[d] = chave[d] \/ chave'[d] = Ninguem
        BY <1>a
    <2> QED BY <2>1 DEF IInv, ChavesUnicas
<1>6. ASSUME NEW p \in Pagamentos \ recadoAntes' PROVE SabeDoRecado(p)'
    <2>1. SabeDoRecado(p)
        BY <1>b DEF IInv
    <2>2. RecadoSai(p)' <=> RecadoSai(p)
        BY DEF RecadoSai
    <2>3. e = <<"recado", p>> /\ armar => <<"presente", p>> \in admitidos
        BY DEF Admitir, armar
    <2>4. <<"recado", p>> \in admitidos' => <<"presente", p>> \in admitidos'
        BY <1>a, <2>1, <2>3 DEF SabeDoRecado
    <2>5. CASE estado'[Presente(p)] = estado[Presente(p)]
        BY <2>1, <2>2, <2>4, <2>5 DEF SabeDoRecado
    <2>6. CASE estado'[Presente(p)] # estado[Presente(p)]
        <3>1. armar /\ e = <<"presente", p>>
            BY <1>a, <2>6, Nomes
        <3>2. <<"presente", p>> \notin admitidos
            BY <3>1 DEF armar, Rearmavel
        <3>3. estado[Recado(p)] = "absent"
            BY <2>1, <3>2, Nomes DEF SabeDoRecado, IInv, SabeDaEntrega
        <3>4. envios[Recado(p)] \in Nat /\ ~(envios[Recado(p)] > 0)
            BY <3>3, Nomes DEF IInv, TypeOK, SabeDaEntrega, PodeTerSaido
        <3>5. ~RecadoSai(p)
            BY <3>3, <3>4, Nomes DEF RecadoSai, IInv, SabeDoJob
        <3> QED BY <2>2, <2>4, <3>5 DEF SabeDoRecado
    <2> QED BY <2>5, <2>6
<1> QED BY <1>1, <1>2, <1>3, <1>4, <1>5, <1>6 DEF IInv

LEMMA DestinatariosSao ==
    ASSUME NEW b \in BOOLEAN
    PROVE  /\ Elegiveis(b) \in SUBSET Usuarios /\ (b => Elegiveis(b) \subseteq {Dono})
           /\ \A R \in Destinatarios(b) : R \in SUBSET Usuarios /\ (b => R \subseteq {Dono})
BY DEF Elegiveis, Destinatarios

LEMMA AvisarPasso ==
    ASSUME IInv, NEW p \in Pagamentos, Avisar(p)
    PROVE  IInv'
<1>1. PICK R \in Destinatarios(gancho[p] = "recado") : Admitir(<<gancho[p], p>>, R, 0)
    BY DEF Avisar
<1>2. gancho[p] \in {"presente", "recado"} /\ <<gancho[p], p>> \in Eventos
    BY DEF Avisar, IInv, TypeOK, Eventos
<1>3. R \in SUBSET Usuarios /\ (gancho[p] = "recado" => R \subseteq {Dono})
    BY DestinatariosSao
<1>4. gancho' \in [Pagamentos -> {"presente", "recado", "fim"}]
    BY DEF Avisar, IInv, TypeOK
<1>5. /\ trab' = trab /\ trab \in [Trabalhadores -> TipoDoJob]
      /\ UNCHANGED <<mundo, smtp, cursor, falhas>>
    BY DEF Avisar, IInv, TypeOK, TipoDoJob
<1> QED BY <1>1, <1>2, <1>3, <1>4, <1>5, Admite

LEMMA AdmitirItemPasso ==
    ASSUME IInv, NEW w \in Trabalhadores, NEW i \in Itens, AdmitirItem(w, i)
    PROVE  IInv'
<1> DEFINE e == <<i[1], i[2]>>
<1>2. e \in Eventos /\ (e[1] = "lembrete" => i[3] \in 0..UltimoDia)
    BY SuposicaoCorreio DEF Itens, Eventos
<1>3. Elegiveis(TRUE) \in SUBSET Usuarios /\ Elegiveis(TRUE) \subseteq {Dono}
    BY DestinatariosSao
<1>4. Restam(w, i) \in SUBSET Itens
    BY DEF Restam, IInv, TypeOK, Itens
<1>5. /\ trab' \in [Trabalhadores -> TipoDoJob]
      /\ \A x \in Trabalhadores : /\ trab'[x].passo = trab[x].passo /\ trab'[x].d = trab[x].d
                                  /\ trab'[x].ende = trab[x].ende /\ trab'[x].saida = trab[x].saida
    BY <1>4 DEF AdmitirItem, IInv, TypeOK, TipoDoJob
<1>6. /\ Admitir(e, Elegiveis(TRUE), i[3]) /\ UNCHANGED <<mundo, smtp, cursor, falhas>>
      /\ gancho' \in [Pagamentos -> {"presente", "recado", "fim"}]
    BY DEF AdmitirItem, IInv, TypeOK
<1> QED BY <1>2, <1>3, <1>5, <1>6, Admite

-----------------------------------------------------------------------------
\* A job that is sending holds a delivery.
LEMMA TemEntrega ==
    ASSUME IInv, NEW w \in Trabalhadores, trab[w].passo # "livre"
    PROVE  trab[w].d \in Entregas /\ SabeDoJob(w) /\ SabeDaEntrega(trab[w].d)
BY DEF IInv, TypeOK, SabeDoJob

\* A job goes on with its delivery, with a new key and an outcome of SMTP, perhaps.
LEMMA Segue ==
    ASSUME IInv, NEW w \in Trabalhadores, trab[w].passo # "livre", NEW d, d = trab[w].d,
           SoOJob(w), trab'[w].passo # "livre", trab'[w].d = d, SabeDoJob(w)',
           UNCHANGED <<eventos, estado, tentativas, gancho, mundo, falhas, cursor>>,
           chave' \in [Entregas -> Enderecos \cup {Ninguem}],
           envios' \in [Entregas -> Nat], para' \in [Entregas -> Enderecos \cup {Ninguem}],
           \A f \in Entregas : f # d => /\ chave'[f] = chave[f] /\ envios'[f] = envios[f]
                                        /\ para'[f] = para[f],
           SabeDaEntrega(d)', ChavesUnicas',
           \A p \in Pagamentos \ recadoAntes :
              d = Recado(p) /\ trab'[w].passo = "transmitindo" =>
                 estado[Presente(p)] \notin {"pending", "sending", "sent", "unknown"},
           \/ trab[w].passo = "transmitindo" /\ trab'[w].passo = "registrando"
           \/ trab'[w].passo \in {"conferindo", "transmitindo"} /\ envios' = envios
    PROVE  IInv'
<1> USE DEF eventos, mundo, SoOJob
<1>0. d \in Entregas /\ d # Ninguem
    BY TemEntrega, Nomes
<1>1. TypeOK'
    BY DEF IInv, TypeOK, TipoDoJob
<1>2. ASSUME NEW x \in Trabalhadores, x # w PROVE SabeDoJob(x)'
    <2>1. SabeDoJob(x) /\ trab'[x] = trab[x] /\ trab[x].d # d
        BY <1>0, <1>2 DEF IInv, PosseUnica
    <2>2. trab[x].d # Ninguem => trab[x].d \in Entregas
        BY DEF IInv, TypeOK
    <2>3. trab[x].d # Ninguem => /\ chave'[trab[x].d] = chave[trab[x].d]
                                 /\ envios'[trab[x].d] = envios[trab[x].d]
        BY <2>1, <2>2
    <2> QED BY <2>1, <2>3 DEF SabeDoJob
<1>3. PosseUnica'
    BY DEF IInv, PosseUnica
<1>4. ASSUME NEW f \in Entregas, f # d PROVE SabeDaEntrega(f)'
    BY <1>4 DEF IInv, SabeDaEntrega
<1>6. ASSUME NEW p \in Pagamentos \ recadoAntes PROVE SabeDoRecado(p)'
    <2>1. SabeDoRecado(p) /\ Recado(p) \in Entregas
        BY Nomes DEF IInv
    <2>2. CASE d # Recado(p)
        <3>1. RecadoSai(p)' => RecadoSai(p)
            BY <2>1, <2>2 DEF RecadoSai
        <3> QED BY <2>1, <3>1 DEF SabeDoRecado
    <2>3. CASE d = Recado(p)
        <3>1. CASE trab[w].passo = "transmitindo"
            <4>1. RecadoSai(p)
                BY <2>3, <3>1 DEF RecadoSai
            <4> QED BY <2>1, <4>1 DEF SabeDoRecado
        <3>2. CASE trab'[w].passo = "transmitindo"
            BY <2>1, <2>3, <3>2 DEF SabeDoRecado
        <3>3. CASE trab[w].passo # "transmitindo" /\ trab'[w].passo = "conferindo"
            <4>1. RecadoSai(p)' => envios[Recado(p)] > 0
                BY <1>0, <2>3, <3>3 DEF RecadoSai, IInv, PosseUnica
            <4> QED BY <2>1, <4>1 DEF SabeDoRecado, RecadoSai
        <3> QED BY <3>1, <3>2, <3>3
    <2> QED BY <2>2, <2>3
<1> QED BY <1>1, <1>2, <1>3, <1>4, <1>6 DEF IInv

LEMMA ReservarPasso ==
    ASSUME IInv, NEW w \in Trabalhadores, Reservar(w)
    PROVE  IInv'
<1>1. PICK d \in Entregas : /\ trab[w].passo = "preparando" /\ d = trab[w].d /\ d # Ninguem
                            /\ SabeDoJob(w) /\ SabeDaEntrega(d)
    BY TemEntrega, Nomes DEF Reservar, Em
<1>2. PICK a \in Enderecos : a = EnderecoAtual(w) /\ a # Ninguem
    <2>1. d[2] \in Usuarios
        BY <1>1 DEF Entregas
    <2> QED BY <1>1, <2>1, SuposicaoCorreio DEF EnderecoAtual, IInv, TypeOK
<1>3. /\ chave' \in [Entregas -> Enderecos \cup {Ninguem}] /\ chave'[d] = a
      /\ \A f \in Entregas : f # d => chave'[f] = chave[f]
    BY <1>1, <1>2 DEF Reservar, IInv, TypeOK
<1>4. /\ SoOJob(w) /\ trab'[w].passo = "conferindo" /\ trab'[w].d = d /\ trab'[w].ende = a
      /\ trab'[w].saida = trab[w].saida
    <2> DEFINE r == [trab[w] EXCEPT !.passo = "conferindo", !.ende = a]
    <2>1. trab \in [Trabalhadores -> TipoDoJob] /\ trab[w] \in TipoDoJob
        BY DEF IInv, TypeOK, TipoDoJob
    <2>2. r \in TipoDoJob /\ r.passo = "conferindo" /\ r.d = d
          /\ r.ende = a /\ r.saida = trab[w].saida
        BY <1>1, <1>2, <2>1 DEF TipoDoJob, Passos
    <2>3. trab' = [trab EXCEPT ![w] = r]
        BY <1>1, <1>2, <2>1 DEF Reservar, TipoDoJob
    <2> HIDE DEF r
    <2> QED BY <1>1, <1>2, <2>1, <2>2, <2>3 DEF SoOJob
<1>5. UNCHANGED <<eventos, estado, tentativas, gancho, mundo, smtp, cursor, falhas>>
    BY DEF Reservar
<1> USE DEF smtp
<1>6. ChavesUnicas'
    <2>1. \A f \in Entregas : f # d /\ f[1] = d[1] => chave[f] # a
        BY <1>1, <1>2 DEF Reservar, EnderecoLivre
    <2> QED BY <1>1, <1>3, <2>1 DEF IInv, ChavesUnicas
<1>7. SabeDoJob(w)'
    BY <1>1, <1>2, <1>3, <1>4, <1>5 DEF SabeDoJob
<1>8. SabeDaEntrega(d)'
    <2>1. ~(envios[d] > 0) /\ para[d] = Ninguem
        BY <1>1 DEF SabeDoJob, SabeDaEntrega
    <2> QED BY <1>1, <1>5, <2>1 DEF SabeDaEntrega, eventos
<1>9. envios' \in [Entregas -> Nat] /\ para' \in [Entregas -> Enderecos \cup {Ninguem}]
    BY <1>5 DEF IInv, TypeOK
<1> QED BY <1>1, <1>3, <1>4, <1>5, <1>6, <1>7, <1>8, <1>9, Segue

LEMMA ConferirPasso ==
    ASSUME IInv, NEW w \in Trabalhadores, Conferir(w)
    PROVE  IInv'
<1>1. PICK d \in Entregas : /\ trab[w].passo = "conferindo" /\ d = trab[w].d
                            /\ SabeDoJob(w) /\ SabeDaEntrega(d)
    BY TemEntrega DEF Conferir, Em
<1>2. /\ SoOJob(w) /\ trab'[w].passo = "transmitindo" /\ trab'[w].d = d
      /\ trab'[w].ende = trab[w].ende
    BY <1>1 DEF Conferir, Ir, IInv, TypeOK, TipoDoJob, SoOJob, Passos
<1>3. UNCHANGED <<eventos, caixa, gancho, mundo, smtp, cursor, falhas>>
    BY DEF Conferir
<1>4. SabeDoJob(w)' /\ SabeDaEntrega(d)' /\ ChavesUnicas'
    <2>1. SabeDoJob(w)'
        BY <1>1, <1>2, <1>3 DEF SabeDoJob, caixa, smtp
    <2>2. SabeDaEntrega(d)' /\ ChavesUnicas'
        BY <1>1, <1>3 DEF IInv, SabeDaEntrega, ChavesUnicas, caixa, smtp, eventos
    <2> QED BY <2>1, <2>2
<1>5. ASSUME NEW p \in Pagamentos, d = Recado(p)
      PROVE  estado[Presente(p)] \notin {"pending", "sending", "sent", "unknown"}
    <2>1. Cobertura(d) = estado[Presente(p)]
        BY <1>5 DEF Cobertura, Recado, Presente
    <2>2. Veredito(d) = "sending"
        BY <1>1 DEF Conferir
    <2> QED BY <2>1, <2>2 DEF Veredito
<1>6. /\ chave' \in [Entregas -> Enderecos \cup {Ninguem}]
      /\ envios' \in [Entregas -> Nat] /\ para' \in [Entregas -> Enderecos \cup {Ninguem}]
      /\ UNCHANGED <<estado, tentativas, chave, envios, para>>
    BY <1>3 DEF IInv, TypeOK, caixa, smtp
<1> QED BY <1>1, <1>2, <1>3, <1>4, <1>5, <1>6, Segue

LEMMA TransmitirPasso ==
    ASSUME IInv, NEW w \in Trabalhadores, NEW aceita \in BOOLEAN,
           NEW saida \in {"aceita", "ambigua", "rejeitada", "permanente"},
           Transmitir(w, aceita, saida)
    PROVE  IInv'
<1>1. PICK d \in Entregas : /\ trab[w].passo = "transmitindo" /\ d = trab[w].d /\ d # Ninguem
                            /\ SabeDoJob(w) /\ SabeDaEntrega(d)
    BY TemEntrega, Nomes DEF Transmitir, Em
<1>2. /\ SoOJob(w) /\ trab'[w].passo = "registrando" /\ trab'[w].d = d
      /\ trab'[w].ende = trab[w].ende /\ trab'[w].saida = saida
    <2> DEFINE r == [trab[w] EXCEPT !.passo = "registrando", !.saida = saida]
    <2>1. trab \in [Trabalhadores -> TipoDoJob] /\ trab[w] \in TipoDoJob
        BY DEF IInv, TypeOK, TipoDoJob
    <2>2. r \in TipoDoJob /\ r.passo = "registrando" /\ r.d = d
          /\ r.ende = trab[w].ende /\ r.saida = saida
        BY <1>1, <2>1 DEF TipoDoJob, Passos
    <2>3. trab' = [trab EXCEPT ![w] = r]
        BY <1>1, <2>1 DEF Transmitir, TipoDoJob
    <2> HIDE DEF r
    <2> QED BY <1>1, <2>1, <2>2, <2>3 DEF SoOJob
<1>3. UNCHANGED <<eventos, caixa, gancho, mundo, falhas, cursor>>
    BY DEF Transmitir
<1>4. /\ envios[d] = 0 /\ trab[w].ende # Ninguem /\ chave[d] = trab[w].ende
      /\ para[d] = Ninguem /\ estado[d] \in PodeTerSaido /\ estado[d] # "sent"
      /\ trab[w].ende \in Enderecos
    BY <1>1 DEF SabeDoJob, SabeDaEntrega, IInv, TypeOK, PodeTerSaido
<1>5. /\ envios' \in [Entregas -> Nat] /\ para' \in [Entregas -> Enderecos \cup {Ninguem}]
      /\ \A f \in Entregas : f # d => envios'[f] = envios[f] /\ para'[f] = para[f]
      /\ envios'[d] = IF aceita THEN 1 ELSE 0
      /\ para'[d] = IF aceita THEN trab[w].ende ELSE Ninguem
    BY <1>1, <1>4 DEF Transmitir, IInv, TypeOK
<1>6. /\ aceita => saida \in {"aceita", "ambigua"}
      /\ ~aceita => saida # "aceita"
    BY DEF Transmitir
<1>7. SabeDoJob(w)'
    BY <1>1, <1>2, <1>3, <1>4, <1>5, <1>6 DEF SabeDoJob, caixa
<1>8. SabeDaEntrega(d)'
    BY <1>1, <1>3, <1>4, <1>5 DEF SabeDaEntrega, caixa, eventos
<1>9. ChavesUnicas' /\ chave' \in [Entregas -> Enderecos \cup {Ninguem}]
      /\ UNCHANGED <<estado, tentativas, chave>>
    BY <1>3 DEF IInv, TypeOK, ChavesUnicas, caixa
<1> QED BY <1>1, <1>2, <1>3, <1>5, <1>7, <1>8, <1>9, Segue

\* The endings of a job: a refusal, a deferral, an outcome.
LEMMA EncerrarPasso ==
    ASSUME IInv, NEW w \in Trabalhadores, trab[w].passo # "livre", NEW s \in Estados \ {"absent"},
           NEW devolve \in BOOLEAN, Encerrar(w, s, devolve),
           s = "pending" => devolve \/ tentativas[trab[w].d] < MaxTentativas,
           s = "sent" => envios[trab[w].d] > 0,
           envios[trab[w].d] > 0 => s \in {"sent", "unknown"}
    PROVE  IInv'
<1> DEFINE d == trab[w].d
<1>1. d \in Entregas
    BY TemEntrega
<1>2. /\ SoOJob(w) /\ trab'[w].passo = "livre" /\ trab'[w].d = Ninguem
      /\ trab'[w].ende = Ninguem /\ trab'[w].saida = "nenhuma"
    BY DEF Encerrar, IInv, TypeOK, TipoDoJob, SoOJob, Passos, Livre
<1>3. UNCHANGED <<eventos, chave, gancho, mundo, smtp, cursor>> /\ falhas' \in Nat
    BY DEF Encerrar, IInv, TypeOK
<1>4. CASE estado[d] # "sending"
    <2>1. UNCHANGED <<estado, tentativas>>
        BY <1>4 DEF Encerrar, IInv, TypeOK
    <2> QED BY <1>1, <1>2, <1>3, <2>1, Solta
<1>5. CASE estado[d] = "sending"
    <2>1. estado' = [estado EXCEPT ![d] = s]
        BY <1>1, <1>5 DEF Encerrar, IInv, TypeOK
    <2>2. /\ tentativas' \in [Entregas -> 0..MaxTentativas]
          /\ \A x \in Entregas : x # d => tentativas'[x] = tentativas[x]
        BY <1>5, SuposicaoCorreio DEF Encerrar, IInv, TypeOK
    <2>3. s = "pending" => tentativas'[d] < MaxTentativas
        BY <1>1, <1>5, SuposicaoCorreio DEF Encerrar, IInv, TypeOK
    <2> QED BY <1>1, <1>2, <1>3, <1>5, <2>1, <2>2, <2>3, Solta
<1> QED BY <1>4, <1>5

LEMMA DispensarPasso ==
    ASSUME IInv, NEW w \in Trabalhadores, NEW passo \in {"preparando", "conferindo"},
           Dispensar(w, passo)
    PROVE  IInv'
<1> DEFINE v == Veredito(trab[w].d)
<1>1. trab[w].passo = passo /\ trab[w].passo # "livre" /\ Encerrar(w, v,
v = "pending") /\ v # "sending"
    BY DEF Dispensar, Em
<1>2. v \in {"suppressed", "pending", "remarcada"}
    BY <1>1 DEF Veredito
<1>3. ~(envios[trab[w].d] > 0)
    <2>1. envios[trab[w].d] = 0
        BY <1>1, TemEntrega DEF SabeDoJob
    <2> QED BY <2>1
<1> HIDE DEF v
<1> QED BY <1>1, <1>2, <1>3, EncerrarPasso DEF Estados

LEMMA RecusarPasso ==
    ASSUME IInv, NEW w \in Trabalhadores, RecusarDuplicado(w) \/ RecusarEndereco(w)
    PROVE  IInv'
<1>1. trab[w].passo \in {"preparando", "conferindo"} /\ Encerrar(w, "suppressed", FALSE)
    BY DEF RecusarDuplicado, RecusarEndereco, Em
<1>2. ~(envios[trab[w].d] > 0)
    <2>1. envios[trab[w].d] = 0
        BY <1>1, TemEntrega DEF SabeDoJob
    <2> QED BY <2>1
<1> QED BY <1>1, <1>2, EncerrarPasso DEF Estados

LEMMA RegistrarPasso ==
    ASSUME IInv, NEW w \in Trabalhadores, Registrar(w)
    PROVE  IInv'
<1> DEFINE s == EstadoFinal(w)
<1>1. trab[w].passo = "registrando" /\ Encerrar(w, s, FALSE)
    BY DEF Registrar, Em
<1>2. SabeDoJob(w)
    BY DEF IInv
<1>3. /\ s \in {"sent", "unknown", "pending", "failed"}
      /\ s = "sent" <=> trab[w].saida = "aceita"
      /\ s = "unknown" <=> trab[w].saida = "ambigua"
      /\ s = "pending" => tentativas[trab[w].d] < MaxTentativas
    BY DEF EstadoFinal
<1>4. /\ s = "sent" => envios[trab[w].d] > 0
      /\ envios[trab[w].d] > 0 => s \in {"sent", "unknown"}
    BY <1>1, <1>2, <1>3 DEF SabeDoJob
<1> HIDE DEF s
<1> QED BY <1>1, <1>3, <1>4, EncerrarPasso DEF Estados

LEMMA CairPasso ==
    ASSUME IInv, NEW w \in Trabalhadores, Cair(w)
    PROVE  IInv'
<1>1. /\ SoOJob(w) /\ trab'[w].passo = "livre" /\ trab'[w].d = Ninguem
      /\ trab'[w].ende = Ninguem /\ trab'[w].saida = "nenhuma"
    BY DEF Cair, IInv, TypeOK, TipoDoJob, SoOJob, Passos, Livre
<1>2. /\ UNCHANGED <<eventos, chave, gancho, mundo, smtp, cursor>>
      /\ UNCHANGED <<estado, tentativas>>
      /\ falhas' \in Nat
    BY DEF Cair, IInv, TypeOK, caixa
<1> QED BY <1>1, <1>2, Solta DEF Estados

LEMMA ReclamarPasso ==
    ASSUME IInv, NEW w \in Trabalhadores, NEW d \in Entregas, Reclamar(w, d)
    PROVE  IInv'
<1> USE DEF eventos, mundo, smtp
<1>1. /\ trab[w].passo = "livre" /\ estado[d] = "pending" /\ SabeDaEntrega(d) /\ d # Ninguem
      /\ tentativas[d] < MaxTentativas /\ envios[d] = 0
      /\ \A x \in Trabalhadores : trab[x].d # d
    <2>1. trab[w].passo = "livre" /\ estado[d] = "pending" /\ SabeDaEntrega(d) /\ d # Ninguem
        BY Nomes DEF Reclamar, Ocioso, Livre, IInv
    <2>2. tentativas[d] < MaxTentativas /\ envios[d] = 0
        BY <2>1 DEF SabeDaEntrega, PodeTerSaido, IInv, TypeOK
    <2>3. \A x \in Trabalhadores : trab[x].d # d
        BY <2>1 DEF IInv, SabeDoJob
    <2> QED BY <2>1, <2>2, <2>3
<1>2. /\ SoOJob(w) /\ trab'[w].passo = "preparando" /\ trab'[w].d = d
      /\ trab'[w].ende = trab[w].ende /\ trab'[w].saida = trab[w].saida
    <2> DEFINE r == [trab[w] EXCEPT !.passo = "preparando", !.d = d]
    <2>1. trab \in [Trabalhadores -> TipoDoJob] /\ trab[w] \in TipoDoJob
        BY DEF IInv, TypeOK, TipoDoJob
    <2>2. r \in TipoDoJob /\ r.passo = "preparando" /\ r.d = d
          /\ r.ende = trab[w].ende /\ r.saida = trab[w].saida
        BY <2>1 DEF TipoDoJob, Passos
    <2>3. trab' = [trab EXCEPT ![w] = r]
        BY <2>1 DEF Reclamar, TipoDoJob
    <2> HIDE DEF r
    <2> QED BY <2>1, <2>2, <2>3 DEF SoOJob
<1>3. /\ estado' \in [Entregas -> Estados] /\ tentativas' \in [Entregas -> 0..MaxTentativas]
      /\ estado'[d] = "sending"
      /\ \A f \in Entregas : f # d => estado'[f] = estado[f] /\ tentativas'[f] = tentativas[f]
    BY <1>1, SuposicaoCorreio DEF Reclamar, IInv, TypeOK, Estados
<1>4. UNCHANGED <<eventos, chave, gancho, mundo, smtp, cursor, falhas>>
    BY DEF Reclamar
<1>5. TypeOK'
    BY <1>2, <1>3, <1>4 DEF IInv, TypeOK, SoOJob, TipoDoJob
<1>6. ASSUME NEW x \in Trabalhadores PROVE SabeDoJob(x)'
    <2>1. CASE x = w
        BY <1>1, <1>2, <1>3, <1>4, <2>1 DEF SabeDoJob
    <2>2. CASE x # w
        <3>1. SabeDoJob(x) /\ trab'[x] = trab[x] /\ trab[x].d # d
            BY <1>1, <1>2, <2>2 DEF IInv, SoOJob
        <3>2. trab[x].d # Ninguem => estado'[trab[x].d] = estado[trab[x].d]
            BY <1>3, <3>1 DEF IInv, TypeOK
        <3> QED BY <1>4, <3>1, <3>2 DEF SabeDoJob
    <2> QED BY <2>1, <2>2
<1>7. PosseUnica'
    BY <1>1, <1>2 DEF IInv, PosseUnica, SoOJob
<1>8. ASSUME NEW f \in Entregas PROVE SabeDaEntrega(f)'
    <2>1. CASE f = d
        BY <1>1, <1>3, <1>4, <2>1 DEF SabeDaEntrega, PodeTerSaido
    <2>2. CASE f # d
        BY <1>3, <1>4, <2>2 DEF IInv, SabeDaEntrega
    <2> QED BY <2>1, <2>2
<1>9. ChavesUnicas'
    BY <1>4 DEF IInv, ChavesUnicas
<1>10. ASSUME NEW p \in Pagamentos \ recadoAntes PROVE SabeDoRecado(p)'
    <2>1. SabeDoRecado(p) /\ Presente(p) \in Entregas
        BY Nomes DEF IInv
    <2>2. RecadoSai(p)' => RecadoSai(p)
        BY <1>2, <1>4 DEF RecadoSai, SoOJob
    <2>3. estado'[Presente(p)] = estado[Presente(p)] \/ estado[Presente(p)] = "pending"
        BY <1>1, <1>3, <2>1
    <2> QED BY <1>4, <2>1, <2>2, <2>3 DEF SabeDoRecado
<1> QED BY <1>4, <1>5, <1>6, <1>7, <1>8, <1>9, <1>10 DEF IInv

LEMMA RecuperarVelhaPasso ==
    ASSUME IInv, NEW d \in Entregas, RecuperarVelha(d)
    PROVE  IInv'
<1> USE DEF eventos, mundo, smtp
<1>1. /\ estado[d] = "sending" /\ estado' = [estado EXCEPT ![d] = "unknown"]
      /\ UNCHANGED <<eventos, tentativas, chave, gancho, mundo, trab, smtp, cursor, falhas>>
    BY DEF RecuperarVelha
<1>2. TypeOK'
    BY <1>1 DEF IInv, TypeOK, Estados
<1>3. /\ estado'[d] = "unknown"
      /\ \A f \in Entregas : f # d => estado'[f] = estado[f]
    BY <1>1 DEF IInv, TypeOK
<1>4. ASSUME NEW w \in Trabalhadores PROVE SabeDoJob(w)'
    <2>1. trab[w].d # Ninguem => trab[w].d \in Entregas
        BY DEF IInv, TypeOK
    <2> QED BY <1>1, <1>3, <2>1 DEF IInv, SabeDoJob
<1>5. PosseUnica' /\ ChavesUnicas'
    BY <1>1 DEF IInv, PosseUnica, ChavesUnicas
<1>6. ASSUME NEW f \in Entregas PROVE SabeDaEntrega(f)'
    BY <1>1, <1>3 DEF IInv, SabeDaEntrega, PodeTerSaido
<1>7. ASSUME NEW p \in Pagamentos \ recadoAntes PROVE SabeDoRecado(p)'
    <2>1. SabeDoRecado(p) /\ Presente(p) \in Entregas
        BY Nomes DEF IInv
    <2>2. RecadoSai(p)' <=> RecadoSai(p)
        BY <1>1 DEF RecadoSai
    <2>3. estado'[Presente(p)] = estado[Presente(p)] \/ estado[Presente(p)] = "sending"
        BY <1>1, <1>3, <2>1
    <2> QED BY <1>1, <2>1, <2>2, <2>3 DEF SabeDoRecado
<1> QED BY <1>1, <1>2, <1>4, <1>5, <1>6, <1>7 DEF IInv

\* What touches neither the deliveries nor the senders.
LEMMA RestoPasso ==
    ASSUME IInv,
           \/ PassoDoMundo
           \/ \E p \in Pagamentos : PerderAviso(p)
           \/ \E w \in Trabalhadores : Varrer(w) \/ \E i \in Itens : PularItem(w, i)
    PROVE  IInv'
<1>1. CASE PassoDoMundo
    <2>1. UNCHANGED <<eventos, caixa, gancho, trab, smtp, cursor, falhas>>
        BY <1>1 DEF PassoDoMundo, Estornar, Preferir, MudarEndereco, MudarData, PassarDia, SoMundo
    <2>2. /\ aprovados' \subseteq Pagamentos
          /\ preferencia' \in [Usuarios -> Preferencias]
          /\ endereco' \in [Usuarios -> Enderecos]
          /\ data' \in [Campanhas -> 0..UltimoDia] /\ dia' \in 0..UltimoDia /\ mudancas' \in Nat
        BY <1>1, SuposicaoCorreio DEF PassoDoMundo, Estornar, Preferir, MudarEndereco, MudarData,
           PassarDia, Mudar, IInv, TypeOK
    <2>3. TypeOK'
        BY <2>1, <2>2 DEF IInv, TypeOK, eventos, caixa, smtp
    <2> QED BY <2>1, <2>3, SoOResto
<1>2. CASE \E p \in Pagamentos : PerderAviso(p)
    <2>1. UNCHANGED <<eventos, caixa, mundo, trab, smtp, cursor>> /\ falhas' \in Nat
        BY <1>2 DEF PerderAviso, IInv, TypeOK
    <2>2. gancho' \in [Pagamentos -> {"presente", "recado", "fim"}]
        BY <1>2 DEF PerderAviso, IInv, TypeOK
    <2>3. TypeOK'
        BY <2>1, <2>2 DEF IInv, TypeOK, eventos, caixa, smtp, mundo
    <2> QED BY <2>1, <2>3, SoOResto
<1>3. CASE \E w \in Trabalhadores : Varrer(w) \/ \E i \in Itens : PularItem(w, i)
    <2>1. PICK w \in Trabalhadores, I \in SUBSET Itens : trab' = [trab EXCEPT ![w].itens = I]
        <3>1. UNION {PaginaDe(t) : t \in Tipos} \in SUBSET Itens
            BY DEF PaginaDe, Candidatos
        <3>2. CASE \E w \in Trabalhadores : Varrer(w)
            BY <3>1, <3>2 DEF Varrer
        <3>3. CASE \E w \in Trabalhadores : \E i \in Itens : PularItem(w, i)
            <4>1. PICK w \in Trabalhadores, i \in Itens : PularItem(w, i)
                BY <3>3
            <4>2. trab[w].itens \ {i} \in SUBSET Itens
                BY DEF IInv, TypeOK
            <4>3. trab' = [trab EXCEPT ![w].itens = trab[w].itens \ {i}]
                BY <4>1 DEF PularItem
            <4> QED BY <4>1, <4>2, <4>3
        <3> QED BY <1>3, <3>2, <3>3
    <2>2. /\ trab' \in [Trabalhadores -> TipoDoJob]
          /\ \A x \in Trabalhadores : /\ trab'[x].passo = trab[x].passo /\ trab'[x].d = trab[x].d
                                      /\ trab'[x].ende = trab[x].ende
                                      /\ trab'[x].saida = trab[x].saida
        BY <2>1 DEF IInv, TypeOK, TipoDoJob
    <2>3. /\ UNCHANGED <<eventos, caixa, gancho, mundo, smtp>> /\ falhas' \in Nat
          /\ cursor' \in [Tipos -> SUBSET (Pagamentos \cup Campanhas)]
        BY <1>3 DEF Varrer, PularItem, CursorSeguinte, IInv, TypeOK
    <2>4. TypeOK'
        BY <2>2, <2>3 DEF IInv, TypeOK, TipoDoJob, eventos, caixa, mundo, smtp
    <2> QED BY <2>2, <2>3, <2>4, SoOResto
<1> QED BY <1>1, <1>2, <1>3

\* Every step keeps the invariant.
LEMMA IInvPasso == IInv /\ [Next]_vars => IInv'
<1> SUFFICES ASSUME IInv, [Next]_vars PROVE IInv'
    OBVIOUS
<1>1. CASE UNCHANGED vars
    <2>1. UNCHANGED <<eventos, caixa, gancho, mundo, trab, smtp, cursor, falhas>>
        BY <1>1 DEF vars
    <2>2. TypeOK'
        BY <2>1 DEF IInv, TypeOK, eventos, caixa, mundo, smtp
    <2> QED BY <2>1, <2>2, SoOResto
<1>2. ASSUME NEW w \in Trabalhadores, Enviar(w) PROVE IInv'
    BY <1>2, ReservarPasso, RecusarPasso, ConferirPasso, RegistrarPasso, DispensarPasso,
       TransmitirPasso DEF Enviar
<1>3. ASSUME NEW w \in Trabalhadores, PassoDoJob(w) PROVE IInv'
    BY <1>2, <1>3, AdmitirItemPasso, RestoPasso, ReclamarPasso DEF PassoDoJob
<1> QED BY <1>1, <1>3, AvisarPasso, RestoPasso, RecuperarVelhaPasso, CairPasso DEF Next

-----------------------------------------------------------------------------
\* The invariant holds of every behaviour.
THEOREM InvarianteCorreto == Spec => []IInv
<1>1. Init => IInv
    BY IInvInicial
<1>2. IInv /\ [Next]_vars => IInv'
    BY IInvPasso
<1> QED BY <1>1, <1>2, PTL DEF Spec

\* The outbox, its jobs and the world keep their types; in particular no delivery is
\* attempted more than MaxTentativas times.
THEOREM TipoCorreto == Spec => []TypeOK
<1>1. IInv => TypeOK
    BY DEF IInv
<1> QED BY <1>1, InvarianteCorreto, PTL

\* No delivery is accepted by SMTP twice.
THEOREM EnvioUnico == Spec => []NuncaRepete
<1>1. IInv => NuncaRepete
    BY DEF IInv, SabeDaEntrega, NuncaRepete
<1> QED BY <1>1, InvarianteCorreto, PTL

\* The table does not lie about SMTP.
THEOREM EstadoVerdadeiro == Spec => []CaixaNaoMente
<1>1. IInv => CaixaNaoMente
    BY DEF IInv, SabeDaEntrega, CaixaNaoMente
<1> QED BY <1>1, InvarianteCorreto, PTL

\* One accepted delivery of an event per address.
THEOREM EnderecoUnico == Spec => []UmPorEndereco
<1>1. IInv => UmPorEndereco
    BY DEF IInv, SabeDaEntrega, ChavesUnicas, UmPorEndereco
<1> QED BY <1>1, InvarianteCorreto, PTL

\* A payment's recipient gets its e-mail or the alert of its message, not both, unless
\* the alert was admitted first.
THEOREM RecadoOuPresente == Spec => []UmEmailPorPagamento
<1>1. IInv => UmEmailPorPagamento
    <2> SUFFICES ASSUME IInv, NEW p \in Pagamentos \ recadoAntes,
                        envios[Presente(p)] # 0, envios[Recado(p)] # 0
                 PROVE  FALSE
        BY DEF UmEmailPorPagamento, Presente, Recado
    <2>1. envios[Presente(p)] > 0 /\ envios[Recado(p)] > 0 /\ Presente(p) \in Entregas
        BY Nomes DEF IInv, TypeOK
    <2>2. estado[Presente(p)] \in PodeTerSaido
        BY <2>1 DEF IInv, SabeDaEntrega
    <2> QED BY <2>1, <2>2 DEF IInv, SabeDoRecado, RecadoSai, PodeTerSaido
<1> QED BY <1>1, InvarianteCorreto, PTL

=============================================================================
