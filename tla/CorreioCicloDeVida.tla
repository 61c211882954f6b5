------------------------- MODULE CorreioCicloDeVida -------------------------
(***************************************************************************)
(* The lifecycle e-mail outbox: the hook of a finalised payment and the    *)
(* scanner admit events, one delivery per recipient; every minute a job    *)
(* reads a page of candidates of each type, moving the durable cursor of   *)
(* the type past it, and then dispatches, claiming one delivery at a time  *)
(* and calling SMTP outside of any transaction.  A job that outlives its   *)
(* expiration overlaps the next one.  One database call or SMTP call per   *)
(* step; the reads between two writes are one step.                        *)
(*                                                                         *)
(* Three types stand for the six: payment_received and new_message of one  *)
(* payment, of which a recipient is to get one, and event_reminder, the    *)
(* only type whose deliveries are ever rearmed.  SMTP is external.  Of     *)
(* time only the day counts: retries may come and claims grow old at once. *)
(***************************************************************************)
EXTENDS Naturals, FiniteSets

CONSTANTS
    Pagamentos,      \* payments approved since the launch
    ComRecado,       \* those whose contributor left a message
    Campanhas,       \* campaigns with an event
    Usuarios, Dono,  \* the administrators, and the owner among them
    Enderecos,       \* e-mail addresses
    EnderecoInicial, \* of each user
    Trabalhadores,   \* BOUND: jobs running at the same time
    Ordem,           \* of the ids of payments and of campaigns
    Pagina,          \* candidates per type and scan: 100
    MaxTentativas,   \* attempts before a rejected delivery is given up: 3
    UltimoDia,       \* BOUND on days
    Ninguem,         \* no delivery, no address
    Partidas         \* BOUND: at the start, who paid, whose hook is still to run, who
                     \* has a date, who is reached; how much may change and fail

Eventos == ({"presente", "recado"} \X Pagamentos) \cup ({"lembrete"} \X Campanhas)
Entregas == {d \in Eventos \X Usuarios : d[1][1] # "presente" => d[2] = Dono}

Preferencias == {"recebe", "recusa", "inelegivel"}

ASSUME SuposicaoCorreio ==
    /\ ComRecado \subseteq Pagamentos
    /\ Dono \in Usuarios
    /\ EnderecoInicial \in [Usuarios -> Enderecos]
    /\ Ninguem \notin Entregas \cup Enderecos
    /\ Partidas \subseteq [pagamentos : SUBSET Pagamentos, ganchos : SUBSET Pagamentos,
                           campanhas : SUBSET Campanhas,
                           preferencias : [Usuarios -> Preferencias],
                           mudancas : Nat, falhas : Nat]
    /\ Ordem \in [Pagamentos \cup Campanhas -> Nat]
    /\ \A x, y \in Pagamentos \cup Campanhas : Ordem[x] = Ordem[y] => x = y
    /\ Pagina \in Nat \ {0} /\ UltimoDia \in Nat /\ MaxTentativas \in Nat \ {0}

VARIABLES
    admitidos,   \* lifecycle_email_events
    recadoAntes, \* payments whose message was admitted before the payment itself
    snapshot,    \* the date in the event of each campaign's reminder
    estado,      \* state of each delivery; "remarcada" is suppressed for its date
    tentativas,  \* attempts
    chave,       \* email_key
    aprovados,   \* payments that are aprovado, with their ledger rows
    cursor,      \* lifecycle_email_scan_cursors: of each type, the ids up to last_id
    gancho,      \* what the hook of each payment has still to admit
    preferencia, \* of each user: reached, opted out or not eligible
    endereco,    \* the verified address of each user
    data, dia,   \* the day each campaign's reminder is due, and today
    trab,        \* where each job is
    envios,      \* how often SMTP accepted a delivery
    para,        \* the address it was accepted for
    mudancas,    \* changes still to come
    falhas       \* crashes and failed calls still to come

eventos == <<admitidos, recadoAntes, snapshot>>
caixa == <<estado, tentativas, chave>>
mundo == <<aprovados, preferencia, endereco, data, dia, mudancas>>
smtp == <<envios, para>>
vars == <<eventos, caixa, gancho, mundo, trab, smtp, cursor, falhas>>

Estados == {"absent", "pending", "sending", "sent", "unknown", "failed", "suppressed",
            "remarcada"}
PodeTerSaido == {"sending", "sent", "unknown"}

Itens == ({"presente", "recado"} \X Pagamentos \X {0})
             \cup ({"lembrete"} \X Campanhas \X (1..UltimoDia))
Tipos == {"presente", "recado", "lembrete"}
Passos == {"livre", "preparando", "conferindo", "transmitindo", "registrando"}
Livre == [passo |-> "livre", itens |-> {}, d |-> Ninguem, ende |-> Ninguem,
          saida |-> "nenhuma"]

TypeOK ==
    /\ admitidos \subseteq Eventos
    /\ recadoAntes \subseteq Pagamentos
    /\ snapshot \in [Campanhas -> 0..UltimoDia]
    /\ estado \in [Entregas -> Estados]
    /\ tentativas \in [Entregas -> 0..MaxTentativas]
    /\ chave \in [Entregas -> Enderecos \cup {Ninguem}]
    /\ aprovados \subseteq Pagamentos
    /\ cursor \in [Tipos -> SUBSET (Pagamentos \cup Campanhas)]
    /\ gancho \in [Pagamentos -> {"presente", "recado", "fim"}]
    /\ preferencia \in [Usuarios -> Preferencias]
    /\ endereco \in [Usuarios -> Enderecos]
    /\ data \in [Campanhas -> 0..UltimoDia]
    /\ dia \in 0..UltimoDia
    /\ trab \in [Trabalhadores ->
                   [passo : Passos, itens : SUBSET Itens, d : Entregas \cup {Ninguem},
                    ende : Enderecos \cup {Ninguem},
                    saida : {"nenhuma", "aceita", "ambigua", "rejeitada", "permanente"}]]
    /\ envios \in [Entregas -> Nat]
    /\ para \in [Entregas -> Enderecos \cup {Ninguem}]
    /\ mudancas \in Nat
    /\ falhas \in Nat

\* The payments were just finalised, some by a process that died before the hook;
\* nothing was admitted yet.
Init ==
    /\ admitidos = {}
    /\ recadoAntes = {}
    /\ cursor = [t \in Tipos |-> {}]
    /\ snapshot = [c \in Campanhas |-> 0]
    /\ estado = [d \in Entregas |-> "absent"]
    /\ tentativas = [d \in Entregas |-> 0]
    /\ chave = [d \in Entregas |-> Ninguem]
    /\ \E i \in Partidas :
          /\ aprovados = i.pagamentos
          /\ gancho = [p \in Pagamentos |-> IF p \in i.ganchos THEN "presente" ELSE "fim"]
          /\ preferencia = i.preferencias
          /\ data \in [Campanhas -> 0..UltimoDia]
          /\ \A c \in Campanhas : data[c] > 0 <=> c \in i.campanhas
          /\ mudancas = i.mudancas
          /\ falhas = i.falhas
    /\ endereco = EnderecoInicial
    /\ dia = 0
    /\ trab = [w \in Trabalhadores |-> Livre]
    /\ envios = [d \in Entregas |-> 0]
    /\ para = [d \in Entregas |-> Ninguem]

-----------------------------------------------------------------------------
(* Users, refunds and days *)

Mudar == mudancas > 0 /\ mudancas' = mudancas - 1
SoMundo == UNCHANGED <<eventos, caixa, gancho, trab, smtp, cursor, falhas>>

Estornar(p) ==
    /\ p \in aprovados /\ Mudar
    /\ aprovados' = aprovados \ {p}
    /\ UNCHANGED <<preferencia, endereco, data, dia>> /\ SoMundo

Preferir(u, v) ==
    /\ preferencia[u] # v /\ Mudar
    /\ preferencia' = [preferencia EXCEPT ![u] = v]
    /\ UNCHANGED <<aprovados, endereco, data, dia>> /\ SoMundo

\* Two users may come to share an address but for its case.
MudarEndereco(u, a) ==
    /\ endereco[u] # a /\ Mudar
    /\ endereco' = [endereco EXCEPT ![u] = a]
    /\ UNCHANGED <<aprovados, preferencia, data, dia>> /\ SoMundo

MudarData(c, n) ==
    /\ data[c] \notin {0, n} /\ Mudar
    /\ data' = [data EXCEPT ![c] = n]
    /\ UNCHANGED <<aprovados, preferencia, endereco, dia>> /\ SoMundo

PassarDia ==
    /\ dia < UltimoDia
    /\ dia' = dia + 1
    /\ UNCHANGED <<aprovados, preferencia, endereco, data, mudancas>> /\ SoMundo

-----------------------------------------------------------------------------
(* Admission *)

\* recipients: the owner and, of a contemporaneous payment, the members, none of them
\* unless the owner is eligible (eligibleCampaignOwner); of those that share an address
\* one, rather the owner.
Elegiveis(soDono) ==
    {u \in Usuarios : /\ preferencia[u] # "inelegivel" /\ preferencia[Dono] # "inelegivel"
                      /\ soDono => u = Dono}

Destinatarios(soDono) ==
    {R \in SUBSET Elegiveis(soDono) :
        /\ Elegiveis(TRUE) \subseteq R
        /\ \A u \in Elegiveis(soDono) : \E v \in R : endereco[v] = endereco[u]
        /\ \A u, v \in R : endereco[u] = endereco[v] => u = v}

\* A date edit replaces a reminder nothing of which was or may have been sent.
Rearmavel(e, R, n) ==
    /\ e[1] = "lembrete"
    /\ snapshot[e[2]] = n => \E d \in Entregas : d[1] = e /\ d[2] \in R /\ estado[d] = "remarcada"
    /\ \A d \in Entregas : d[1] = e => estado[d] \notin PodeTerSaido

\* admit, which inserts the event once: its deliveries for R, and the reminder's date.
Admitir(e, R, n) ==
    LET armar == R # {} /\ (e \notin admitidos \/ Rearmavel(e, R, n))
        novas == {d \in Entregas : armar /\ d[1] = e /\ d[2] \in R}
        velhas == {d \in Entregas : armar /\ d[1] = e /\ estado[d] # "absent"}
    IN  /\ admitidos' = IF armar THEN admitidos \cup {e} ELSE admitidos
        /\ recadoAntes' = recadoAntes \cup {p \in Pagamentos : /\ armar /\ e = <<"recado", p>>
                                                             /\ <<"presente", p>> \notin admitidos}
        /\ snapshot' = [c \in Campanhas |->
                          IF armar /\ e = <<"lembrete", c>> THEN n ELSE snapshot[c]]
        /\ estado' = [d \in Entregas |-> IF d \in novas THEN "pending"
                                         ELSE IF d \in velhas THEN "remarcada"
                                         ELSE estado[d]]
        /\ tentativas' = [d \in Entregas |-> IF d \in novas THEN 0 ELSE tentativas[d]]
        /\ chave' = [d \in Entregas |-> IF d \in novas THEN Ninguem ELSE chave[d]]

\* paymentFinalized, called once the ledger has the rows.  Both admissions follow
\* checks of the payment they do not lock.
Avisar(p) ==
    /\ gancho[p] # "fim"
    /\ \E R \in Destinatarios(gancho[p] = "recado") : Admitir(<<gancho[p], p>>, R, 0)
    /\ gancho' = [gancho EXCEPT ![p] = IF @ = "presente" /\ p \in ComRecado THEN "recado"
                                       ELSE "fim"]
    /\ UNCHANGED <<mundo, trab, smtp, cursor, falhas>>

\* The hook's process dies, or a call of it fails.
PerderAviso(p) ==
    /\ gancho[p] # "fim" /\ falhas > 0
    /\ gancho' = [gancho EXCEPT ![p] = "fim"]
    /\ falhas' = falhas - 1
    /\ UNCHANGED <<eventos, caixa, mundo, trab, smtp, cursor>>

-----------------------------------------------------------------------------
(* The job: scan *)

\* Between two deliveries, or between two jobs: no scan is under way.
Ocioso(w) == trab[w] = Livre
Em(w, passo) == trab[w].passo = passo
Ir(w, passo) == trab' = [trab EXCEPT ![w].passo = passo]

PagamentoCandidato(tipo, p) ==
    /\ p \in aprovados /\ <<tipo, p>> \notin admitidos
    /\ tipo = "recado" => p \in ComRecado

LembreteCandidato(c, n) ==
    /\ n = data[c] /\ n = dia
    /\ <<"lembrete", c>> \in admitidos => Rearmavel(<<"lembrete", c>>, Elegiveis(TRUE), n)

\* candidates, in the order of their ids, after the cursor of their type.
Candidatos(tipo) ==
    {i \in Itens : /\ i[1] = tipo /\ i[2] \notin cursor[tipo] /\ Elegiveis(TRUE) # {}
                   /\ IF tipo = "lembrete" THEN LembreteCandidato(i[2], i[3])
                                           ELSE PagamentoCandidato(tipo, i[2])}

PaginaDe(tipo) ==
    LET todos == Candidatos(tipo)
    IN  {i \in todos : Cardinality({j \in todos : Ordem[j[2]] < Ordem[i[2]]}) < Pagina}

\* Mutant: after the last page the cursor stays where it is.
CursorSemVolta(tipo) ==
    cursor[tipo] \cup {x \in Pagamentos \cup Campanhas :
                         \E i \in PaginaDe(tipo) : Ordem[x] <= Ordem[i[2]]}
\* advance: to the last id of a full page, and back to the start after a partial one.
CursorSeguinte(tipo) ==
    LET pagina == PaginaDe(tipo)
    IN  {x \in Pagamentos \cup Campanhas : /\ Cardinality(pagina) = Pagina
                                         /\ \E i \in pagina : Ordem[x] <= Ordem[i[2]]}

\* The cursors advance with the read, so that what follows may lose the page.
Varrer(w) ==
    /\ Ocioso(w)
    /\ trab' = [trab EXCEPT ![w].itens = UNION {PaginaDe(t) : t \in Tipos}]
    /\ cursor' = [t \in Tipos |-> CursorSeguinte(t)]
    /\ UNCHANGED <<eventos, caixa, gancho, mundo, smtp, falhas>>

\* Mutant: an old claim is given back to be sent again.
RecuperarParaEnvio(d) ==
    /\ estado[d] = "sending"
    /\ estado' = [estado EXCEPT ![d] = "pending"]
    /\ UNCHANGED <<eventos, tentativas, chave, gancho, mundo, trab, smtp, cursor, falhas>>
\* recoverStale of a job that starts: the claim is fifteen minutes old, whatever
\* became of its sender.
RecuperarVelha(d) ==
    /\ estado[d] = "sending"
    /\ estado' = [estado EXCEPT ![d] = "unknown"]
    /\ UNCHANGED <<eventos, tentativas, chave, gancho, mundo, trab, smtp, cursor, falhas>>

\* Reminders come before payments and payments before messages.
Proximo(w, i) ==
    /\ i \in trab[w].itens
    /\ i[1] = "presente" => \A j \in trab[w].itens : j[1] # "lembrete"
    /\ i[1] = "recado" => \A j \in trab[w].itens : j[1] = "recado"

\* What is left after i: a payment that was admitted has its message next.
Restam(w, i) ==
    (trab[w].itens \ {i}) \cup (IF i[1] = "presente" /\ i[2] \in ComRecado
                                THEN {<<"recado", i[2], 0>>} ELSE {})

AdmitirItem(w, i) ==
    /\ Proximo(w, i)
    /\ Admitir(<<i[1], i[2]>>, Elegiveis(TRUE), i[3])
    /\ trab' = [trab EXCEPT ![w].itens = Restam(w, i)]
    /\ UNCHANGED <<gancho, mundo, smtp, cursor, falhas>>

\* A payment refunded since, or one the scanner could not admit: it goes on.
PularItem(w, i) ==
    /\ Proximo(w, i) /\ i[1] # "lembrete"
    /\ i[2] \in aprovados => falhas > 0
    /\ falhas' = IF i[2] \in aprovados THEN falhas - 1 ELSE falhas
    /\ trab' = [trab EXCEPT ![w].itens = @ \ {i}]
    /\ UNCHANGED <<eventos, caixa, gancho, mundo, smtp, cursor>>

-----------------------------------------------------------------------------
(* The job: dispatch *)

\* claim
Reclamar(w, d) ==
    /\ Ocioso(w) /\ estado[d] = "pending"
    /\ estado' = [estado EXCEPT ![d] = "sending"]
    /\ tentativas' = [tentativas EXCEPT ![d] = @ + 1]
    /\ trab' = [trab EXCEPT ![w].passo = "preparando", ![w].d = d]
    /\ UNCHANGED <<eventos, chave, gancho, mundo, smtp, cursor, falhas>>

\* Mutant: a payment's e-mail that is still queued does not count.
CoberturaSoDeAceitas(d) ==
    LET e == estado[<<<<"presente", d[1][2]>>, d[2]>>]
    IN  IF d[1][1] = "recado" /\ e \in {"sent", "unknown"} THEN e ELSE "absent"
\* paymentEmailState, of an alert: the payment's e-mail to the same user.
Cobertura(d) ==
    IF d[1][1] = "recado" THEN estado[<<<<"presente", d[1][2]>>, d[2]>>] ELSE "absent"

EmDia(c) == data[c] = snapshot[c] /\ data[c] = dia

\* The state in which send leaves a delivery it must not transmit now; "sending"
\* when it may.
Veredito(d) ==
    LET tipo == d[1][1]
        assunto == d[1][2]
        apto == d[2] \in Elegiveis(tipo # "presente") /\ preferencia[d[2]] = "recebe"
    IN  IF ~apto \/ Cobertura(d) \in {"sent", "unknown"}
        THEN "suppressed"
        ELSE IF Cobertura(d) \in {"pending", "sending"} THEN "pending"
        ELSE IF tipo # "lembrete" /\ assunto \notin aprovados THEN "suppressed"
        ELSE IF tipo = "lembrete" /\ ~EmDia(assunto) THEN "remarcada"
        ELSE "sending"

\* finish, retry and defer write only a delivery that is still sending; defer gives
\* the attempt back.
Encerrar(w, s, devolve) ==
    LET d == trab[w].d
        valem == {x \in {d} : estado[x] = "sending"}
    IN  /\ estado' = [x \in Entregas |-> IF x \in valem THEN s ELSE estado[x]]
        /\ tentativas' = [x \in Entregas |-> IF x \in valem /\ devolve /\ tentativas[x] > 0
                                             THEN tentativas[x] - 1 ELSE tentativas[x]]
        /\ trab' = [trab EXCEPT ![w] = Livre]
        /\ UNCHANGED <<eventos, chave, gancho, mundo, smtp, cursor, falhas>>

Dispensar(w, passo) ==
    LET v == Veredito(trab[w].d)
    IN  Em(w, passo) /\ v # "sending" /\ Encerrar(w, v, v = "pending")

\* reserveEmail: one delivery of an event per address.
EnderecoAtual(w) == endereco[trab[w].d[2]]

\* Mutant: deliveries are told apart by their users alone.
EnderecoSemOlhar(w) == TRUE
EnderecoLivre(w) ==
    \A d \in Entregas : LET minha == trab[w].d
                        IN  d # minha /\ d[1] = minha[1] => chave[d] # EnderecoAtual(w)

\* The first round of checks, for the address of that time.
Reservar(w) ==
    /\ Em(w, "preparando") /\ Veredito(trab[w].d) = "sending" /\ EnderecoLivre(w)
    /\ chave' = [chave EXCEPT ![trab[w].d] = EnderecoAtual(w)]
    /\ trab' = [trab EXCEPT ![w].passo = "conferindo", ![w].ende = EnderecoAtual(w)]
    /\ UNCHANGED <<eventos, estado, tentativas, gancho, mundo, smtp, cursor, falhas>>

RecusarDuplicado(w) ==
    /\ Em(w, "preparando") /\ Veredito(trab[w].d) = "sending" /\ ~EnderecoLivre(w)
    /\ Encerrar(w, "suppressed", FALSE)

\* The second round, after all rendering and claim work.
Conferir(w) ==
    /\ Em(w, "conferindo") /\ EnderecoAtual(w) = trab[w].ende /\ Veredito(trab[w].d) = "sending"
    /\ Ir(w, "transmitindo")
    /\ UNCHANGED <<eventos, caixa, gancho, mundo, smtp, cursor, falhas>>

RecusarEndereco(w) ==
    Em(w, "conferindo") /\ EnderecoAtual(w) # trab[w].ende /\ Encerrar(w, "suppressed", FALSE)

\* The SMTP server accepts the message, or not, and its answer says so, or not.
Transmitir(w, aceita, saida) ==
    LET d == trab[w].d
    IN  /\ Em(w, "transmitindo")
        /\ aceita => saida \in {"aceita", "ambigua"}
        /\ ~aceita => saida \in {"ambigua", "rejeitada", "permanente"}
        /\ envios' = IF aceita THEN [envios EXCEPT ![d] = @ + 1] ELSE envios
        /\ para' = IF aceita THEN [para EXCEPT ![d] = trab[w].ende] ELSE para
        /\ trab' = [trab EXCEPT ![w].passo = "registrando", ![w].saida = saida]
        /\ UNCHANGED <<eventos, caixa, gancho, mundo, falhas, cursor>>

\* Mutant: an answer that was lost is taken for a rejection.
EstadoFinalOtimista(w) ==
    LET saida == trab[w].saida
    IN  IF saida = "aceita" THEN "sent"
        ELSE IF saida = "rejeitada" /\ tentativas[trab[w].d] < MaxTentativas THEN "pending"
        ELSE "failed"
\* Mutant: one attempt too many.
EstadoFinalUmaAMais(w) ==
    LET saida == trab[w].saida
    IN  IF saida = "aceita" THEN "sent"
        ELSE IF saida = "ambigua" THEN "unknown"
        ELSE IF saida = "rejeitada" /\ tentativas[trab[w].d] <= MaxTentativas THEN "pending"
        ELSE "failed"
EstadoFinal(w) ==
    LET saida == trab[w].saida
    IN  IF saida = "aceita" THEN "sent"
        ELSE IF saida = "ambigua" THEN "unknown"
        ELSE IF saida = "rejeitada" /\ tentativas[trab[w].d] < MaxTentativas THEN "pending"
        ELSE "failed"

\* Mutant: a retry gives its attempt back, as defer does.
RegistrarSemContar(w) == Em(w, "registrando") /\ Encerrar(w, EstadoFinal(w), TRUE)
Registrar(w) == Em(w, "registrando") /\ Encerrar(w, EstadoFinal(w), FALSE)

\* The process dies, or a database call throws out of the job: nothing is undone.
Cair(w) ==
    /\ ~Ocioso(w) /\ falhas > 0
    /\ trab' = [trab EXCEPT ![w] = Livre]
    /\ falhas' = falhas - 1
    /\ UNCHANGED <<eventos, caixa, gancho, mundo, smtp, cursor>>

-----------------------------------------------------------------------------
Enviar(w) ==
    \/ Reservar(w) \/ RecusarDuplicado(w)
    \/ Conferir(w) \/ RecusarEndereco(w) \/ Registrar(w)
    \/ \E passo \in {"preparando", "conferindo"} : Dispensar(w, passo)
    \/ \E aceita \in BOOLEAN, saida \in {"aceita", "ambigua", "rejeitada", "permanente"} :
          Transmitir(w, aceita, saida)

PassoDoJob(w) ==
    \/ Enviar(w)
    \/ \E d \in Entregas : Reclamar(w, d)
    \/ \E i \in Itens : AdmitirItem(w, i) \/ PularItem(w, i)
    \/ Varrer(w)

PassoDoMundo ==
    \/ \E p \in Pagamentos : Estornar(p)
    \/ \E u \in Usuarios, v \in Preferencias : Preferir(u, v)
    \/ \E u \in Usuarios, a \in Enderecos : MudarEndereco(u, a)
    \/ \E c \in Campanhas, n \in 1..UltimoDia : MudarData(c, n)
    \/ PassarDia

Next ==
    \/ PassoDoMundo
    \/ \E p \in Pagamentos : Avisar(p) \/ PerderAviso(p)
    \/ \E d \in Entregas : RecuperarVelha(d)
    \/ \E w \in Trabalhadores : PassoDoJob(w) \/ Cair(w)

Spec == Init /\ [][Next]_vars

\* A job starts every minute and goes on until it dies; a claim whose sender died
\* grows old.  claim takes the delivery that has waited longest, so one that comes
\* due again and again does not pass over another for ever.  Nothing is assumed of
\* users, days or SMTP.
SemRemetente(d) == \A w \in Trabalhadores : trab[w].d # d
Justica ==
    /\ \A w \in Trabalhadores : WF_vars(PassoDoJob(w))
    /\ \A p \in ComRecado :
          SF_vars(\E w \in Trabalhadores : Reclamar(w, <<<<"presente", p>>, Dono>>))
    /\ WF_vars(\E d \in Entregas : SemRemetente(d) /\ RecuperarVelha(d))

SpecJusta == Spec /\ Justica

-----------------------------------------------------------------------------
(* Correctness *)

\* SMTP accepts a delivery at most once, whatever dies, is rejected, is claimed by
\* another job or is rearmed for another date: an outcome that is not known is
\* never sent again (lifecycle-email.ts: "NEVER a blind retry").
NuncaRepete == \A d \in Entregas : envios[d] <= 1

\* What the table says of a delivery is true of SMTP: sent was accepted, and what
\* was accepted is sent, unknown, or still held as sending.
CaixaNaoMente ==
    \A d \in Entregas : /\ estado[d] = "sent" => envios[d] > 0
                        /\ envios[d] > 0 => estado[d] \in PodeTerSaido

\* Two recipients of an event who come to share an address do not both have it
\* accepted there (reserveEmail).
UmPorEndereco ==
    \A d \in Entregas : para[d] # Ninguem =>
        \A f \in Entregas : f[1] = d[1] /\ para[f] = para[d] => f = d

\* "One email per payment": a recipient does not get both the payment's e-mail and
\* the alert of the message it carries, unless the alert was admitted first.
UmEmailPorPagamento ==
    \A p \in Pagamentos \ recadoAntes :
        \/ envios[<<<<"presente", p>>, Dono>>] = 0
        \/ envios[<<<<"recado", p>>, Dono>>] = 0

\* Every admitted delivery is settled, in one way or another: none is left to a dead
\* sender, none is rejected or deferred for ever.
CaixaSeEsvazia == []<>(\A d \in Entregas : estado[d] \notin {"pending", "sending"})

\* A finalised payment is announced though its hook was lost, unless it is refunded
\* or its owner may not be written to.
PagamentosSeAvisam ==
    []<>(\A p \in aprovados : \/ <<"presente", p>> \in admitidos
                              \/ preferencia[Dono] = "inelegivel")
=============================================================================
