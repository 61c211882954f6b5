------------------------- MODULE LivroRepassesProvas -------------------------
(***************************************************************************)
(* Theorems about LivroRepasses, for every set of payments, rows, payouts  *)
(* and campaigns.                                                          *)
(***************************************************************************)
EXTENDS LivroRepasses, TLAPS

USE SuposicaoLivro

-----------------------------------------------------------------------------
(* Type correctness *)

LEMMA TipoInicial == Init => TypeOK
  BY DEF Init, TypeOK

LEMMA TipoDoRepasse ==
  ASSUME TypeOK, NEW r \in Repasses, PassoDoRepasse(r)
  PROVE  TypeOK'
<1> USE DEF TypeOK, estornoVars, linhaVars, repasseVars, StatusRepasse
<1>1. CASE \E c \in Campanhas : PreflightSolicitar(r, c)
  BY <1>1 DEF PreflightSolicitar
<1>2. CASE SolicitarRepasse(r)
  BY <1>2 DEF SolicitarRepasse, DisponiveisDa
<1>3. CASE \E comRef \in BOOLEAN : AprovarRepasse(r, comRef)
  BY <1>3 DEF AprovarRepasse, Carimbar, LinhasDe
<1>4. CASE AprovarRepassePix(r)
  BY <1>4 DEF AprovarRepassePix
<1>5. CASE ReenviarContaPeloInter(r)
  BY <1>5 DEF ReenviarContaPeloInter
<1>6. CASE IniciarTransferencia(r)
  BY <1>6 DEF IniciarTransferencia
<1>7. CASE FinalizarEnviado(r)
  BY <1>7 DEF FinalizarEnviado
<1>8. CASE FinalizarPago(r)
  BY <1>8 DEF FinalizarPago, Carimbar, LinhasDe
<1>9. CASE FinalizarVerificando(r)
  BY <1>9 DEF FinalizarVerificando
<1>10. CASE FinalizarFalhou(r)
  BY <1>10 DEF FinalizarFalhou
<1>11. CASE FinalizarTransitorio(r)
  BY <1>11 DEF FinalizarTransitorio
<1>12. CASE CancelarRepasse(r)
  BY <1>12 DEF CancelarRepasse
<1>13. CASE SinalizarManual(r)
  BY <1>13 DEF SinalizarManual
<1>14. CASE \E n \in 0..MaxTentativas : RecuperarRepasse(r, n)
  BY <1>14 DEF RecuperarRepasse
<1>15. CASE ResolverManualPago(r)
  BY <1>15 DEF ResolverManualPago, Carimbar, LinhasDe
<1>16. CASE ResolverManualFalhou(r)
  BY <1>16 DEF ResolverManualFalhou
<1> QED
  BY <1>1, <1>2, <1>3, <1>4, <1>5, <1>6, <1>7, <1>8, <1>9, <1>10, <1>11, <1>12,
     <1>13, <1>14, <1>15, <1>16 DEF PassoDoRepasse, ResolverVerificacao

LEMMA TipoDoEstorno ==
  ASSUME TypeOK, NEW p \in Pagamentos, PassoDoEstorno(p)
  PROVE  TypeOK'
<1> USE DEF TypeOK, estornoVars, linhaVars, repasseVars, StatusDevolucaoPix,
            StatusOperacaoStripe
<1>1. CASE \E s \in StatusDevolucaoPix \cup StatusOperacaoStripe \cup {"nenhum"} :
              MudarEstorno(p, s)
  BY <1>1 DEF MudarEstorno
<1>2. CASE ConvergirStripe(p)
  BY <1>2 DEF ConvergirStripe, CancelarLinhas, LinhasDoPagamento
<1>3. CASE EstornarPagamentoPix(p)
  BY <1>3 DEF EstornarPagamentoPix
<1>4. CASE CancelarLinhasPix(p)
  BY <1>4 DEF CancelarLinhasPix, CancelarLinhas, LinhasDoPagamento
<1> QED
  BY <1>1, <1>2, <1>3, <1>4
  DEF PassoDoEstorno, ReservarEstornoStripe, IniciarEstornoStripe,
      RegistrarRespostaStripe, ConvergirEstornoStripe, ObservarEstornoStripe,
      CriarDevolucaoPix, ApagarDevolucaoPix, AtualizarDevolucaoPix

LEMMA TipoDosDemais ==
  ASSUME TypeOK,
         \/ \E ls \in SUBSET Lancamentos : MarcarTransferidos(ls)
         \/ \E p \in Pagamentos : PassoDaContestacao(p) \/ LiberarSaldo(p)
  PROVE  TypeOK'
<1> USE DEF TypeOK, estornoVars, linhaVars, repasseVars, StatusMed
<1>1. CASE \E ls \in SUBSET Lancamentos : MarcarTransferidos(ls)
  BY <1>1 DEF MarcarTransferidos
<1>2. CASE \E p \in Pagamentos : RegistrarContestacao(p)
  BY <1>2 DEF RegistrarContestacao
<1>3. CASE \E p \in Pagamentos, d \in {"liberada", "devolvida"} :
              ResolverContestacao(p, d)
  BY <1>3 DEF ResolverContestacao
<1>4. CASE \E p \in Pagamentos : LiberarSaldo(p)
  BY <1>4 DEF LiberarSaldo
<1> QED
  BY <1>1, <1>2, <1>3, <1>4 DEF PassoDaContestacao

LEMMA TipoMantido == TypeOK /\ [Next]_vars => TypeOK'
<1>1. TypeOK /\ UNCHANGED vars => TypeOK'
  BY DEF TypeOK, vars, estornoVars, linhaVars, repasseVars
<1> QED
  BY <1>1, TipoDoRepasse, TipoDoEstorno, TipoDosDemais DEF Next

\* Every variable keeps its type (livro-repository.postgres.ts and the zod
\* schemas of the entities): the statuses are the ones the code names.
THEOREM TipoCorreto == Spec => []TypeOK
  BY TipoInicial, TipoMantido, PTL DEF Spec

-----------------------------------------------------------------------------
(* How a step moves money *)

\* What a payout's step does to the money: it only takes credits away from the
\* platform, and none of a payment with an active refund, or it only brings
\* credits back; and it touches neither payments nor refunds.
LEMMA EfeitoDoRepasse ==
  ASSUME TypeOK, NEW r \in Repasses, PassoDoRepasse(r)
  PROVE  /\ UNCHANGED <<pagamento, estorno, cancelado>>
         /\ \/ \A l \in Lancamentos :
                  /\ EmMovimento(l) => EmMovimento(l)'
                  /\ EmMovimento(l)' => EmMovimento(l) \/ ~EstornoAtivo(PagamentoDe[l])
            \/ \A l \in Lancamentos : EmMovimento(l)' => EmMovimento(l)
<1> USE DEF TypeOK, estornoVars, linhaVars, repasseVars, EmMovimento,
            BLOCKING_REPASSE_STATUSES, LinhasDe, PagamentosDoRepasse,
            TransferenciaPermitida
<1>1. CASE \E c \in Campanhas : PreflightSolicitar(r, c)
  BY <1>1 DEF PreflightSolicitar
<1>2. CASE SolicitarRepasse(r)
  BY <1>2 DEF SolicitarRepasse
<1>3. CASE \E comRef \in BOOLEAN : AprovarRepasse(r, comRef)
  BY <1>3 DEF AprovarRepasse, Carimbar
<1>4. CASE AprovarRepassePix(r)
  BY <1>4 DEF AprovarRepassePix
<1>5. CASE ReenviarContaPeloInter(r)
  BY <1>5 DEF ReenviarContaPeloInter
<1>6. CASE IniciarTransferencia(r)
  BY <1>6 DEF IniciarTransferencia, AcaoIniciar
<1>7. CASE FinalizarEnviado(r)
  BY <1>7 DEF FinalizarEnviado
<1>8. CASE FinalizarPago(r)
  BY <1>8 DEF FinalizarPago, Carimbar
<1>9. CASE FinalizarVerificando(r)
  BY <1>9 DEF FinalizarVerificando
<1>10. CASE FinalizarFalhou(r)
  BY <1>10 DEF FinalizarFalhou
<1>11. CASE FinalizarTransitorio(r)
  BY <1>11 DEF FinalizarTransitorio
<1>12. CASE CancelarRepasse(r)
  BY <1>12 DEF CancelarRepasse
<1>13. CASE SinalizarManual(r)
  BY <1>13 DEF SinalizarManual
<1>14. CASE \E n \in 0..MaxTentativas : RecuperarRepasse(r, n)
  BY <1>14 DEF RecuperarRepasse
<1>15. CASE ResolverManualPago(r)
  BY <1>15 DEF ResolverManualPago, Carimbar
<1>16. CASE ResolverManualFalhou(r)
  BY <1>16 DEF ResolverManualFalhou
<1> QED
  BY <1>1, <1>2, <1>3, <1>4, <1>5, <1>6, <1>7, <1>8, <1>9, <1>10, <1>11, <1>12,
     <1>13, <1>14, <1>15, <1>16 DEF PassoDoRepasse, ResolverVerificacao

\* The admin's manual journal entry takes credits away, none of a payment with
\* an active refund.
LEMMA EfeitoDeMarcar ==
  ASSUME TypeOK, NEW ls \in SUBSET Lancamentos, MarcarTransferidos(ls)
  PROVE  /\ UNCHANGED <<pagamento, estorno, cancelado>>
         /\ \A l \in Lancamentos :
               /\ EmMovimento(l) => EmMovimento(l)'
               /\ EmMovimento(l)' => EmMovimento(l) \/ ~EstornoAtivo(PagamentoDe[l])
  BY DEF TypeOK, estornoVars, linhaVars, repasseVars, EmMovimento,
         MarcarTransferidos, TransferenciaPermitida

\* A refund's step moves no credit to or from a receiver, and opens or advances
\* a refund only while none of the payment's credits has left.
LEMMA EfeitoDoEstorno ==
  ASSUME TypeOK, EstornoExcluiSaida, NEW p \in Pagamentos, PassoDoEstorno(p)
  PROVE  /\ UNCHANGED <<repasseDe, status, transferido>>
         /\ \A q \in Pagamentos : q # p => /\ estorno'[q] = estorno[q]
                                          /\ pagamento'[q] = pagamento[q]
         /\ estorno'[p] \in EstornoSemConflito => ~Movimentado(p)
         /\ \/ pagamento'[p] = pagamento[p]
            \/ pagamento'[p] = "estornado" /\ ~Movimentado(p)
<1> USE DEF TypeOK, estornoVars, linhaVars, repasseVars, EstornoExcluiSaida,
            EstornoSemConflito, EstornoBloqueante, StatusOperacaoStripe,
            CriacaoDeEstornoPermitida, MudarEstorno, ConvergirStripe
<1>1. CASE ReservarEstornoStripe(p) \/ IniciarEstornoStripe(p) \/ CriarDevolucaoPix(p)
  BY <1>1 DEF ReservarEstornoStripe, IniciarEstornoStripe, CriarDevolucaoPix
<1>2. CASE RegistrarRespostaStripe(p)
  BY <1>2 DEF RegistrarRespostaStripe
<1>3. CASE ConvergirEstornoStripe(p)
  BY <1>3 DEF ConvergirEstornoStripe
<1>4. CASE \E exato \in BOOLEAN : ObservarEstornoStripe(p, exato)
  BY <1>4 DEF ObservarEstornoStripe
<1>5. CASE ApagarDevolucaoPix(p)
  BY <1>5 DEF ApagarDevolucaoPix
<1>6. CASE \E s \in StatusDevolucaoPix : AtualizarDevolucaoPix(p, s)
  BY <1>6 DEF AtualizarDevolucaoPix
<1>7. CASE EstornarPagamentoPix(p)
  BY <1>7 DEF EstornarPagamentoPix
<1>8. CASE CancelarLinhasPix(p)
  BY <1>8 DEF CancelarLinhasPix
<1> QED
  BY <1>1, <1>2, <1>3, <1>4, <1>5, <1>6, <1>7, <1>8 DEF PassoDoEstorno

\* Disputes and the clock move nothing.
LEMMA EfeitoDosDemais ==
  ASSUME NEW p \in Pagamentos, PassoDaContestacao(p) \/ LiberarSaldo(p)
  PROVE  UNCHANGED <<pagamento, estorno, linhaVars, repasseVars>>
  BY DEF PassoDaContestacao, RegistrarContestacao, ResolverContestacao,
         LiberarSaldo, repasseVars, linhaVars

-----------------------------------------------------------------------------
(* The same money never goes both ways *)

LEMMA ExclusaoInicial == Init => EstornoExcluiSaida
  BY DEF Init, EstornoExcluiSaida, EstornoSemConflito, EstornoBloqueante,
         StatusOperacaoStripe

LEMMA ExclusaoMantida ==
  ASSUME TypeOK, EstornoExcluiSaida, [Next]_vars
  PROVE  EstornoExcluiSaida'
<1> USE DEF EstornoExcluiSaida, Movimentado, LinhasDoPagamento
<1>1. CASE \E r \in Repasses : PassoDoRepasse(r)
  BY <1>1, EfeitoDoRepasse DEF EstornoAtivo, EstornoSemConflito
<1>2. CASE \E ls \in SUBSET Lancamentos : MarcarTransferidos(ls)
  BY <1>2, EfeitoDeMarcar DEF EstornoAtivo, EstornoSemConflito
<1>3. CASE \E p \in Pagamentos : PassoDoEstorno(p)
  BY <1>3, EfeitoDoEstorno DEF EmMovimento
<1>4. CASE \E p \in Pagamentos : PassoDaContestacao(p) \/ LiberarSaldo(p)
  BY <1>4, EfeitoDosDemais DEF EmMovimento, linhaVars, repasseVars
<1>5. CASE UNCHANGED vars
  BY <1>5 DEF vars, estornoVars, linhaVars, repasseVars, EmMovimento
<1> QED
  BY <1>1, <1>2, <1>3, <1>4, <1>5 DEF Next

\* No payment has both an open or finished refund and a credit that left or may
\* be leaving for its receiver (payment-money-movement-lock.postgres.ts), however
\* payouts, manual entries, refunds and disputes interleave.
THEOREM ExclusaoCorreta == Spec => []EstornoExcluiSaida
<1>1. Init => TypeOK /\ EstornoExcluiSaida
  BY TipoInicial, ExclusaoInicial
<1>2. TypeOK /\ EstornoExcluiSaida /\ [Next]_vars => EstornoExcluiSaida'
  BY ExclusaoMantida
<1> QED
  BY <1>1, <1>2, TipoCorreto, PTL DEF Spec

-----------------------------------------------------------------------------
(* The batch of a payout *)

\* While a payout lives, the rows summed in its amount are linked to it.
LoteLigado ==
  \A r \in Repasses : \A l \in lote[r] :
      status[r] # "cancelado" => repasseDe[l] = r

\* A paid payout stamped its whole batch.
PagoCarimbado ==
  \A r \in Repasses : status[r] = "pago" => lote[r] \subseteq transferido

\* The refund row that explains a refunded payment or a cancelled row is final.
EstornoConsumado(p) == estorno[p] \in {"devolvida", "local_committed"}
EfeitosTemEstorno ==
  /\ \A p \in Pagamentos : pagamento[p] = "estornado" => EstornoConsumado(p)
  /\ \A l \in cancelado : EstornoConsumado(PagamentoDe[l])
  /\ \A p \in Pagamentos : ProvedorDe[p] = "stripe" => estorno[p] \notin StatusDevolucaoPix

Invariante ==
  /\ TypeOK
  /\ EstornoExcluiSaida
  /\ EfeitosTemEstorno
  /\ LoteLigado
  /\ PagoCarimbado

LEMMA InvarianteInicial == Init => Invariante
<1> SUFFICES ASSUME Init PROVE EfeitosTemEstorno /\ LoteLigado /\ PagoCarimbado
  BY TipoInicial, ExclusaoInicial DEF Invariante
<1> QED
  BY DEF Init, EfeitosTemEstorno, LoteLigado, PagoCarimbado, StatusDevolucaoPix

\* A row of a payout whose money may be moving was not cancelled by a refund.
LEMMA EmMovimentoNaoCancelado ==
  ASSUME Invariante, NEW l \in Lancamentos, EmMovimento(l)
  PROVE  l \notin cancelado
  BY DEF Invariante, TypeOK, EstornoExcluiSaida, EfeitosTemEstorno, EstornoConsumado,
         EstornoSemConflito, EstornoBloqueante, StatusOperacaoStripe, Movimentado,
         LinhasDoPagamento

\* Refunds never leave their final states, and cancel rows only in them.
LEMMA EstornoConsumadoMantido ==
  ASSUME Invariante, NEW p \in Pagamentos, PassoDoEstorno(p)
  PROVE  EfeitosTemEstorno'
<1> USE DEF Invariante, TypeOK, EfeitosTemEstorno, EstornoConsumado, estornoVars,
            linhaVars, repasseVars, StatusDevolucaoPix, StatusOperacaoStripe,
            MudarEstorno, ConvergirStripe, CancelarLinhas, LinhasDoPagamento
<1>1. CASE ReservarEstornoStripe(p) \/ IniciarEstornoStripe(p) \/ CriarDevolucaoPix(p)
  BY <1>1 DEF ReservarEstornoStripe, IniciarEstornoStripe, CriarDevolucaoPix
<1>2. CASE RegistrarRespostaStripe(p)
  BY <1>2 DEF RegistrarRespostaStripe
<1>3. CASE ConvergirEstornoStripe(p)
  BY <1>3 DEF ConvergirEstornoStripe
<1>4. CASE \E exato \in BOOLEAN : ObservarEstornoStripe(p, exato)
  BY <1>4 DEF ObservarEstornoStripe
<1>5. CASE ApagarDevolucaoPix(p)
  BY <1>5 DEF ApagarDevolucaoPix
<1>6. CASE \E s \in StatusDevolucaoPix : AtualizarDevolucaoPix(p, s)
  BY <1>6 DEF AtualizarDevolucaoPix
<1>7. CASE EstornarPagamentoPix(p)
  BY <1>7 DEF EstornarPagamentoPix
<1>8. CASE CancelarLinhasPix(p)
  BY <1>8 DEF CancelarLinhasPix
<1> QED
  BY <1>1, <1>2, <1>3, <1>4, <1>5, <1>6, <1>7, <1>8 DEF PassoDoEstorno

LEMMA LoteDoRepasse ==
  ASSUME Invariante, NEW r \in Repasses, PassoDoRepasse(r)
  PROVE  LoteLigado' /\ PagoCarimbado'
<1> USE DEF Invariante, TypeOK, LoteLigado, PagoCarimbado, estornoVars, linhaVars,
            repasseVars, LinhasDe
<1>1. CASE \E c \in Campanhas : PreflightSolicitar(r, c)
  BY <1>1 DEF PreflightSolicitar
<1>2. CASE SolicitarRepasse(r)
  BY <1>2 DEF SolicitarRepasse, DisponiveisDa, Disponivel
<1>3. CASE \E comRef \in BOOLEAN : AprovarRepasse(r, comRef)
  BY <1>3 DEF AprovarRepasse, Carimbar
<1>4. CASE AprovarRepassePix(r)
  BY <1>4 DEF AprovarRepassePix
<1>5. CASE ReenviarContaPeloInter(r)
  <2>1. LoteLigado'
    BY <1>5 DEF ReenviarContaPeloInter
  <2>2. ASSUME NEW q \in Repasses, status[q] = "pago", NEW l \in lote[q]
        PROVE  l \in transferido'
    <3>1. l \in transferido /\ repasseDe[l] = q /\ q # r
      BY <1>5, <2>2 DEF ReenviarContaPeloInter
    <3> QED
      BY <1>5, <3>1 DEF ReenviarContaPeloInter
  <2>3. status' = status /\ lote' = lote
    BY <1>5 DEF ReenviarContaPeloInter
  <2>4. PagoCarimbado'
    BY ONLY <2>2, <2>3 DEF PagoCarimbado
  <2> QED
    BY <2>1, <2>4
<1>6. CASE IniciarTransferencia(r)
  BY <1>6 DEF IniciarTransferencia, AcaoIniciar
<1>7. CASE FinalizarEnviado(r)
  BY <1>7 DEF FinalizarEnviado
<1>8. CASE FinalizarPago(r)
  BY <1>8, EmMovimentoNaoCancelado
  DEF FinalizarPago, Carimbar, EmMovimento, BLOCKING_REPASSE_STATUSES
<1>9. CASE FinalizarVerificando(r)
  BY <1>9 DEF FinalizarVerificando
<1>10. CASE FinalizarFalhou(r)
  BY <1>10 DEF FinalizarFalhou
<1>11. CASE FinalizarTransitorio(r)
  BY <1>11 DEF FinalizarTransitorio
<1>12. CASE CancelarRepasse(r)
  BY <1>12 DEF CancelarRepasse
<1>13. CASE SinalizarManual(r)
  BY <1>13 DEF SinalizarManual
<1>14. CASE \E n \in 0..MaxTentativas : RecuperarRepasse(r, n)
  BY <1>14 DEF RecuperarRepasse
<1>15. CASE ResolverManualPago(r)
  BY <1>15, EmMovimentoNaoCancelado
  DEF ResolverManualPago, Carimbar, EmMovimento, BLOCKING_REPASSE_STATUSES
<1>16. CASE ResolverManualFalhou(r)
  BY <1>16 DEF ResolverManualFalhou
<1> QED
  BY <1>1, <1>2, <1>3, <1>4, <1>5, <1>6, <1>7, <1>8, <1>9, <1>10, <1>11, <1>12,
     <1>13, <1>14, <1>15, <1>16 DEF PassoDoRepasse, ResolverVerificacao

LEMMA LoteDosDemais ==
  ASSUME LoteLigado, PagoCarimbado,
         UNCHANGED <<repasseDe, status, lote>>, transferido \subseteq transferido'
  PROVE  LoteLigado' /\ PagoCarimbado'
  BY DEF LoteLigado, PagoCarimbado

LEMMA InvarianteMantido ==
  ASSUME Invariante, [Next]_vars
  PROVE  Invariante'
<1> USE DEF vars, estornoVars, linhaVars, repasseVars
<1>1. TypeOK' /\ EstornoExcluiSaida'
  BY TipoMantido, ExclusaoMantida DEF Invariante
<1>2. CASE \E r \in Repasses : PassoDoRepasse(r)
  <2>1. EfeitosTemEstorno'
    BY <1>2, EfeitoDoRepasse DEF Invariante, EfeitosTemEstorno, EstornoConsumado
  <2> QED
    BY <1>1, <1>2, <2>1, LoteDoRepasse DEF Invariante
<1>3. CASE \E ls \in SUBSET Lancamentos : MarcarTransferidos(ls)
  <2>1. EfeitosTemEstorno'
    BY <1>3, EfeitoDeMarcar DEF Invariante, EfeitosTemEstorno, EstornoConsumado
  <2>2. UNCHANGED <<repasseDe, status, lote>> /\ transferido \subseteq transferido'
    BY <1>3 DEF MarcarTransferidos
  <2> QED
    BY <1>1, <2>1, <2>2, LoteDosDemais DEF Invariante
<1>4. CASE \E p \in Pagamentos : PassoDoEstorno(p)
  <2>1. UNCHANGED <<repasseDe, status, lote, transferido>>
    BY <1>4 DEF PassoDoEstorno, ReservarEstornoStripe, IniciarEstornoStripe,
       RegistrarRespostaStripe, ConvergirEstornoStripe, ObservarEstornoStripe,
       CriarDevolucaoPix, ApagarDevolucaoPix, AtualizarDevolucaoPix,
       EstornarPagamentoPix, CancelarLinhasPix, MudarEstorno, ConvergirStripe
  <2> QED
    BY <1>1, <1>4, <2>1, EstornoConsumadoMantido, LoteDosDemais DEF Invariante
<1>5. CASE \E p \in Pagamentos : PassoDaContestacao(p) \/ LiberarSaldo(p)
  <2>1. UNCHANGED <<pagamento, estorno, linhaVars, repasseVars>>
    BY <1>5, EfeitoDosDemais
  <2> QED
    BY <1>1, <2>1, LoteDosDemais DEF Invariante, EfeitosTemEstorno, EstornoConsumado
<1>6. CASE UNCHANGED vars
  BY <1>1, <1>6, LoteDosDemais DEF Invariante, EfeitosTemEstorno, EstornoConsumado
<1> QED
  BY <1>2, <1>3, <1>4, <1>5, <1>6 DEF Next

\* The strengthening every theorem below rests on.
THEOREM InvarianteCorreto == Spec => []Invariante
  BY InvarianteInicial, InvarianteMantido, PTL DEF Spec

\* What a payout sends is what it swept: no refund or cancellation hollows out
\* the frozen amount of a payout whose money may be moving.
THEOREM LoteCoberto == Spec => []SaidaCobreLote
<1>1. Invariante => SaidaCobreLote
  <2> SUFFICES ASSUME Invariante, NEW r \in Repasses, NEW l \in lote[r]
               PROVE  /\ status[r] \in BLOCKING_REPASSE_STATUSES =>
                             repasseDe[l] = r /\ l \notin cancelado
                      /\ status[r] = "pago" => l \in transferido
    BY DEF SaidaCobreLote
  <2>1. l \in Lancamentos
    BY DEF Invariante, TypeOK
  <2> QED
    BY <2>1, EmMovimentoNaoCancelado
    DEF Invariante, LoteLigado, PagoCarimbado, EmMovimento, BLOCKING_REPASSE_STATUSES
<1> QED
  BY <1>1, InvarianteCorreto, PTL

\* No credit is summed in the amounts of two payouts that both may be paid.
THEOREM CreditoNaoDobra == Spec => []CreditoEmUmSoLote
<1>1. ASSUME Invariante, NEW r \in Repasses, NEW s \in Repasses, r # s,
             {status[r], status[s]} \cap {"inexistente", "cancelado"} = {}
      PROVE  lote[r] \cap lote[s] = {}
  <2>1. status[r] # "cancelado" /\ status[s] # "cancelado"
    BY <1>1
  <2>2. /\ \A l \in lote[r] : repasseDe[l] = r
        /\ \A l \in lote[s] : repasseDe[l] = s
    BY <1>1, <2>1 DEF Invariante, LoteLigado
  <2> QED
    BY <1>1, <2>2
<1>2. Invariante => CreditoEmUmSoLote
  BY <1>1 DEF CreditoEmUmSoLote
<1> QED
  BY <1>2, InvarianteCorreto, PTL

-----------------------------------------------------------------------------
(* What no step may do *)

\* cancelado is the only way out of a payout, and never for money that moved.
THEOREM ReservaSegura == Spec => ReservaNaoVaza
<1> DEFINE NaoVaza == \A l \in Lancamentos :
          repasseDe[l] \in Repasses /\ repasseDe'[l] # repasseDe[l] =>
              /\ status[repasseDe[l]] \notin BLOCKING_REPASSE_STATUSES
              /\ status'[repasseDe[l]] = "cancelado"
              /\ l \notin transferido
<1>1. ASSUME TypeOK, [Next]_vars PROVE NaoVaza
  <2> USE <1>1 DEF TypeOK, vars, estornoVars, linhaVars, repasseVars
  <2>1. ASSUME NEW r \in Repasses, SolicitarRepasse(r) PROVE NaoVaza
    BY <2>1 DEF SolicitarRepasse, DisponiveisDa, Disponivel
  <2>2. ASSUME NEW r \in Repasses, CancelarRepasse(r) PROVE NaoVaza
    BY <2>2 DEF CancelarRepasse, PodeCancelar, CancelamentoMed,
       BLOCKING_REPASSE_STATUSES
  <2>3. CASE UNCHANGED repasseDe
    BY <2>3
  <2>4. ASSUME NEW r \in Repasses, PassoDoRepasse(r)
        PROVE  SolicitarRepasse(r) \/ CancelarRepasse(r) \/ UNCHANGED repasseDe
    BY <2>4 DEF PassoDoRepasse, PreflightSolicitar, AprovarRepasse, AprovarRepassePix,
       ReenviarContaPeloInter, IniciarTransferencia, FinalizarEnviado, FinalizarPago,
       FinalizarVerificando, FinalizarFalhou, FinalizarTransitorio,
       ResolverVerificacao, SinalizarManual, RecuperarRepasse, ResolverManualPago,
       ResolverManualFalhou
  <2>5. ASSUME NEW p \in Pagamentos, PassoDoEstorno(p) PROVE UNCHANGED repasseDe
    BY <2>5 DEF PassoDoEstorno, ReservarEstornoStripe, IniciarEstornoStripe,
       RegistrarRespostaStripe, ConvergirEstornoStripe, ObservarEstornoStripe,
       CriarDevolucaoPix, ApagarDevolucaoPix, AtualizarDevolucaoPix,
       EstornarPagamentoPix, CancelarLinhasPix, MudarEstorno, ConvergirStripe
  <2>6. ASSUME NEW p \in Pagamentos, PassoDaContestacao(p) \/ LiberarSaldo(p)
        PROVE  UNCHANGED repasseDe
    BY <2>6, EfeitoDosDemais
  <2>7. ASSUME NEW ls \in SUBSET Lancamentos, MarcarTransferidos(ls)
        PROVE  UNCHANGED repasseDe
    BY <2>7 DEF MarcarTransferidos
  <2> QED
    BY <2>1, <2>2, <2>3, <2>4, <2>5, <2>6, <2>7 DEF Next
<1> QED
  BY <1>1, TipoCorreto, PTL DEF Spec, ReservaNaoVaza

\* A refunded payment's credits are out of reach of every later transfer.
THEOREM EstornoFinal == Spec => EstornadoENaoSaiMais
<1> DEFINE NaoSai(l) ==
        pagamento[PagamentoDe[l]] = "estornado" =>
            /\ pagamento'[PagamentoDe[l]] = "estornado"
            /\ l \in transferido' => l \in transferido
            /\ l \in cancelado => l \in cancelado'
            /\ repasseDe'[l] \in {repasseDe[l], SemRepasse}
<1>1. ASSUME Invariante, [Next]_vars, NEW l \in Lancamentos,
             pagamento[PagamentoDe[l]] = "estornado"
      PROVE  NaoSai(l)
  <2> USE <1>1 DEF Invariante, TypeOK, vars, estornoVars, linhaVars, repasseVars
  <2>1. EstornoAtivo(PagamentoDe[l])
    BY DEF EfeitosTemEstorno, EstornoConsumado, EstornoAtivo, EstornoBloqueante,
       StatusOperacaoStripe
  <2>2. ASSUME NEW r \in Repasses, PassoDoRepasse(r) PROVE NaoSai(l)
    <3>1. l \in transferido' => l \in transferido
      BY <2>1, <2>2 DEF PassoDoRepasse, PreflightSolicitar, SolicitarRepasse,
         AprovarRepasse, AprovarRepassePix, ReenviarContaPeloInter,
         IniciarTransferencia, FinalizarEnviado, FinalizarPago, FinalizarVerificando,
         FinalizarFalhou, FinalizarTransitorio, ResolverVerificacao, CancelarRepasse,
         SinalizarManual, RecuperarRepasse, ResolverManualPago, ResolverManualFalhou,
         Carimbar, TransferenciaPermitida, PagamentosDoRepasse, LinhasDe
    <3>2. repasseDe'[l] \in {repasseDe[l], SemRepasse}
      BY <2>1, <2>2 DEF PassoDoRepasse, PreflightSolicitar, SolicitarRepasse,
         AprovarRepasse, AprovarRepassePix, ReenviarContaPeloInter,
         IniciarTransferencia, FinalizarEnviado, FinalizarPago, FinalizarVerificando,
         FinalizarFalhou, FinalizarTransitorio, ResolverVerificacao, CancelarRepasse,
         SinalizarManual, RecuperarRepasse, ResolverManualPago, ResolverManualFalhou,
         DisponiveisDa, Disponivel
    <3> QED
      BY <2>2, <3>1, <3>2, EfeitoDoRepasse
  <2>3. ASSUME NEW p \in Pagamentos, PassoDoEstorno(p) PROVE NaoSai(l)
    <3>1. UNCHANGED <<repasseDe, transferido>> /\ pagamento'[PagamentoDe[l]] = "estornado"
      BY <2>3, EfeitoDoEstorno
    <3>2. cancelado \subseteq cancelado'
      BY <2>3 DEF PassoDoEstorno, ReservarEstornoStripe, IniciarEstornoStripe,
         RegistrarRespostaStripe, ConvergirEstornoStripe, ObservarEstornoStripe,
         CriarDevolucaoPix, ApagarDevolucaoPix, AtualizarDevolucaoPix,
         EstornarPagamentoPix, CancelarLinhasPix, MudarEstorno, ConvergirStripe,
         CancelarLinhas
    <3> QED
      BY <3>1, <3>2
  <2>4. ASSUME NEW ls \in SUBSET Lancamentos, MarcarTransferidos(ls) PROVE NaoSai(l)
    BY <2>1, <2>4 DEF MarcarTransferidos, TransferenciaPermitida
  <2>5. ASSUME NEW p \in Pagamentos, PassoDaContestacao(p) \/ LiberarSaldo(p)
        PROVE  NaoSai(l)
    BY <2>5, EfeitoDosDemais
  <2>6. CASE UNCHANGED vars
    BY <2>6
  <2> QED
    BY <2>2, <2>3, <2>4, <2>5, <2>6 DEF Next
<1>2. Invariante /\ [Next]_vars => \A l \in Lancamentos : NaoSai(l)
  BY <1>1
<1> QED
  BY <1>2, InvarianteCorreto, PTL DEF Spec, EstornadoENaoSaiMais

-----------------------------------------------------------------------------
(* The ledger implements DestinoDoCredito *)

\* Taking credits away from the platform, or bringing them back, is one step of
\* the abstract specification whatever the number of payments it concerns.
LEMMA CreditosSaem ==
  ASSUME TypeOK, pagamento' = pagamento,
         \A l \in Lancamentos : EmMovimento(l) => EmMovimento(l)'
  PROVE  Destino!Entregar
<1> DEFINE ps == {p \in Pagamentos : DestinoDoPagamento'[p] # DestinoDoPagamento[p]}
<1>1. \A p \in ps : DestinoDoPagamento[p] = "plataforma" /\ DestinoDoPagamento'[p] = "recebedor"
  BY DEF DestinoDoPagamento, Movimentado, LinhasDoPagamento
<1>2. DestinoDoPagamento' = [p \in Pagamentos |->
                               IF p \in ps THEN "recebedor" ELSE DestinoDoPagamento[p]]
  BY <1>1 DEF DestinoDoPagamento
<1>3. ps \in SUBSET Pagamentos
  OBVIOUS
<1> HIDE DEF ps
<1> QED
  BY <1>1, <1>2, <1>3 DEF Destino!Entregar, Destino!Mover

LEMMA CreditosVoltam ==
  ASSUME TypeOK, pagamento' = pagamento,
         \A l \in Lancamentos : EmMovimento(l)' => EmMovimento(l)
  PROVE  Destino!Desfazer
<1> DEFINE ps == {p \in Pagamentos : DestinoDoPagamento'[p] # DestinoDoPagamento[p]}
<1>1. \A p \in ps : DestinoDoPagamento[p] = "recebedor" /\ DestinoDoPagamento'[p] = "plataforma"
  BY DEF DestinoDoPagamento, Movimentado, LinhasDoPagamento
<1>2. DestinoDoPagamento' = [p \in Pagamentos |->
                               IF p \in ps THEN "plataforma" ELSE DestinoDoPagamento[p]]
  BY <1>1 DEF DestinoDoPagamento
<1>3. ps \in SUBSET Pagamentos
  OBVIOUS
<1> HIDE DEF ps
<1> QED
  BY <1>1, <1>2, <1>3 DEF Destino!Desfazer, Destino!Mover

LEMMA CreditoDevolvido ==
  ASSUME TypeOK, EstornoExcluiSaida, NEW p \in Pagamentos, PassoDoEstorno(p)
  PROVE  Destino!Devolver
<1> DEFINE ps == {q \in Pagamentos : DestinoDoPagamento'[q] # DestinoDoPagamento[q]}
<1>1. \A q \in Pagamentos : Movimentado(q)' = Movimentado(q)
  BY EfeitoDoEstorno DEF Movimentado, EmMovimento, LinhasDoPagamento
<1>2. \A q \in ps : DestinoDoPagamento[q] = "plataforma" /\ DestinoDoPagamento'[q] = "contribuinte"
  BY <1>1, EfeitoDoEstorno DEF DestinoDoPagamento
<1>3. DestinoDoPagamento' = [q \in Pagamentos |->
                               IF q \in ps THEN "contribuinte" ELSE DestinoDoPagamento[q]]
  BY <1>2 DEF DestinoDoPagamento
<1>4. ps \in SUBSET Pagamentos
  OBVIOUS
<1> HIDE DEF ps
<1> QED
  BY <1>2, <1>3, <1>4 DEF Destino!Devolver, Destino!Mover

\* Seen from the money, the ledger is DestinoDoCredito: no interleaving of
\* payouts, refunds, disputes and manual entries takes money from the receiver
\* to the contributor, nor out of the contributor's hands.
THEOREM LivroImplementaDestino == Spec => ImplementaDestino
<1>1. Init => Destino!Init
  BY DEF Init, Destino!Init, DestinoDoPagamento, Movimentado, EmMovimento,
     LinhasDoPagamento
<1>2. ASSUME TypeOK, EstornoExcluiSaida, [Next]_vars
      PROVE  [Destino!Next]_DestinoDoPagamento
  <2>1. CASE \E r \in Repasses : PassoDoRepasse(r)
    BY <1>2, <2>1, EfeitoDoRepasse, CreditosSaem, CreditosVoltam DEF Destino!Next
  <2>2. CASE \E ls \in SUBSET Lancamentos : MarcarTransferidos(ls)
    BY <1>2, <2>2, EfeitoDeMarcar, CreditosSaem DEF Destino!Next
  <2>3. CASE \E p \in Pagamentos : PassoDoEstorno(p)
    BY <1>2, <2>3, CreditoDevolvido DEF Destino!Next
  <2>4. CASE \E p \in Pagamentos : PassoDaContestacao(p) \/ LiberarSaldo(p)
    BY <2>4, EfeitoDosDemais
    DEF DestinoDoPagamento, Movimentado, EmMovimento, linhaVars, repasseVars
  <2>5. CASE UNCHANGED vars
    BY <2>5 DEF vars, estornoVars, linhaVars, repasseVars, DestinoDoPagamento,
       Movimentado, EmMovimento
  <2> QED
    BY <1>2, <2>1, <2>2, <2>3, <2>4, <2>5 DEF Next
<1> QED
  BY <1>1, <1>2, TipoCorreto, ExclusaoCorreta, PTL DEF Spec, ImplementaDestino, Destino!Spec

-----------------------------------------------------------------------------
(* A batch with a refunded payment, before the transfer *)

\* A payout that was requested or approved, and not sent, holds a row of a
\* refunded payment; nobody disputed a payment of it.
PresoPeloEstorno(r) ==
  /\ status[r] \in {"solicitado", "aprovado"}
  /\ \E p \in PagamentosDoRepasse(r) : pagamento[p] = "estornado"
SemContestacao(r) == \A p \in PagamentosDoRepasse(r) : med[p] = "nenhuma"

\* Such a payout stays as it is: approving or sending it is refused for good, and
\* it is not falhou, so that only a dispute would let it be cancelled.  While it
\* is a request its campaign gets no other, since the index on pending requests
\* refuses a second one.
LotePresoNaoAnda ==
  [][\A r \in Repasses : PresoPeloEstorno(r) /\ SemContestacao(r) =>
        /\ PresoPeloEstorno(r)' /\ status'[r] = status[r]
        /\ LinhasDe(r)' = LinhasDe(r)
        /\ status[r] = "solicitado" => \A s \in Repasses :
              campanhaDoRepasse[s] = campanhaDoRepasse[r] /\ status[s] = "inexistente"
                  => status'[s] = "inexistente"]_vars

\* A refund of one gift stops for good the payout that had swept it, and with a
\* request that is still pending every later payout of the campaign
\* (aprovarRepasseTransaction, iniciarTransferenciaTransaction,
\* cancelarRepasseTransaction and solicitarRepasseTransaction,
\* livro-repository.postgres.ts), for any number of payments, rows and payouts.
THEOREM LotePreso == Spec => LotePresoNaoAnda
<1> DEFINE Fica(r) ==
        /\ PresoPeloEstorno(r)' /\ status'[r] = status[r]
        /\ LinhasDe(r)' = LinhasDe(r)
        /\ status[r] = "solicitado" => \A s \in Repasses :
              campanhaDoRepasse[s] = campanhaDoRepasse[r] /\ status[s] = "inexistente"
                  => status'[s] = "inexistente"
<1>1. ASSUME Invariante, [Next]_vars, NEW r \in Repasses,
             PresoPeloEstorno(r), SemContestacao(r)
      PROVE  Fica(r)
  <2> USE <1>1 DEF Invariante, TypeOK, vars, estornoVars, linhaVars, repasseVars
  <2>1. PICK l \in Lancamentos : repasseDe[l] = r /\ pagamento[PagamentoDe[l]] = "estornado"
    BY DEF PresoPeloEstorno, PagamentosDoRepasse, LinhasDe
  <2>2. /\ PagamentoDe[l] \in PagamentosDoRepasse(r)
        /\ ~TransferenciaPermitida(PagamentosDoRepasse(r))
    BY <2>1 DEF EfeitosTemEstorno, EstornoConsumado, EstornoAtivo, EstornoBloqueante,
       StatusOperacaoStripe, TransferenciaPermitida, PagamentosDoRepasse, LinhasDe
  <2>3. status[r] \in {"solicitado", "aprovado"} /\ ~PodeCancelar(r)
    BY DEF PresoPeloEstorno, SemContestacao, PodeCancelar, CancelamentoMed
  <2>4. ASSUME pagamento'[PagamentoDe[l]] = "estornado",
               status'[r] = status[r],
               \A k \in Lancamentos : repasseDe'[k] = r <=> repasseDe[k] = r,
               status[r] = "solicitado" => \A s \in Repasses :
                   campanhaDoRepasse[s] = campanhaDoRepasse[r]
                   /\ status[s] = "inexistente" => status'[s] = "inexistente"
        PROVE  Fica(r)
    <3>1. LinhasDe(r)' = LinhasDe(r)
      BY <2>4 DEF LinhasDe
    <3>2. PresoPeloEstorno(r)'
      BY <2>1, <2>4 DEF PresoPeloEstorno, PagamentosDoRepasse, LinhasDe
    <3> QED
      BY <2>4, <3>1, <3>2
  <2>5. ASSUME NEW s \in Repasses, SolicitarRepasse(s) PROVE Fica(r)
    <3>1. /\ status[r] = "solicitado" => campanhaDoRepasse[s] # campanhaDoRepasse[r]
          /\ s # r
          /\ status' = [status EXCEPT ![s] = "solicitado"]
          /\ UNCHANGED pagamento
      BY <2>3, <2>5 DEF SolicitarRepasse
    <3>2. ASSUME NEW k \in Lancamentos PROVE repasseDe'[k] = r <=> repasseDe[k] = r
      BY <2>5, <3>1 DEF SolicitarRepasse, DisponiveisDa, Disponivel
    <3> QED
      BY <2>1, <2>3, <2>4, <3>1, <3>2
  <2>6. ASSUME NEW s \in Repasses, PassoDoRepasse(s), ~SolicitarRepasse(s)
        PROVE  Fica(r)
    <3>1. UNCHANGED pagamento
      BY <2>6, EfeitoDoRepasse
    <3>2. status'[r] = status[r]
      BY <2>2, <2>3, <2>6 DEF PassoDoRepasse, PreflightSolicitar, AprovarRepasse,
         AprovarRepassePix, ReenviarContaPeloInter, IniciarTransferencia, AcaoIniciar,
         FinalizarEnviado, FinalizarPago, FinalizarVerificando, FinalizarFalhou,
         FinalizarTransitorio, ResolverVerificacao, CancelarRepasse, SinalizarManual,
         RecuperarRepasse, ResolverManualPago, ResolverManualFalhou
    <3>3. \A q \in Repasses : status[q] = "inexistente" => status'[q] = "inexistente"
      BY <2>6 DEF PassoDoRepasse, PreflightSolicitar, AprovarRepasse,
         AprovarRepassePix, ReenviarContaPeloInter, IniciarTransferencia, AcaoIniciar,
         FinalizarEnviado, FinalizarPago, FinalizarVerificando, FinalizarFalhou,
         FinalizarTransitorio, ResolverVerificacao, CancelarRepasse, PodeCancelar,
         CancelamentoMed, SinalizarManual, RecuperarRepasse, ResolverManualPago,
         ResolverManualFalhou
    <3>4. ASSUME NEW k \in Lancamentos PROVE repasseDe'[k] = r <=> repasseDe[k] = r
      <4>1. CASE CancelarRepasse(s)
        BY <2>3, <4>1 DEF CancelarRepasse
      <4>2. CASE ~CancelarRepasse(s)
        BY <2>6, <4>2 DEF PassoDoRepasse, PreflightSolicitar, AprovarRepasse,
           AprovarRepassePix, ReenviarContaPeloInter, IniciarTransferencia,
           FinalizarEnviado, FinalizarPago, FinalizarVerificando, FinalizarFalhou,
           FinalizarTransitorio, ResolverVerificacao, SinalizarManual,
           RecuperarRepasse, ResolverManualPago, ResolverManualFalhou
      <4> QED
        BY <4>1, <4>2
    <3> QED
      BY <2>1, <2>4, <3>1, <3>2, <3>3, <3>4
  <2>7. ASSUME NEW p \in Pagamentos, PassoDoEstorno(p) PROVE Fica(r)
    BY <2>1, <2>3, <2>4, <2>7, EfeitoDoEstorno
  <2>8. ASSUME NEW ls \in SUBSET Lancamentos, MarcarTransferidos(ls) PROVE Fica(r)
    BY <2>1, <2>3, <2>4, <2>8 DEF MarcarTransferidos
  <2>9. ASSUME NEW p \in Pagamentos, PassoDaContestacao(p) \/ LiberarSaldo(p)
         PROVE  Fica(r)
    BY <2>1, <2>3, <2>4, <2>9, EfeitoDosDemais
  <2>10. CASE UNCHANGED vars
    BY <2>1, <2>3, <2>4, <2>10
  <2> QED
    BY <2>5, <2>6, <2>7, <2>8, <2>9, <2>10 DEF Next
<1>2. Invariante /\ [Next]_vars =>
          \A r \in Repasses : PresoPeloEstorno(r) /\ SemContestacao(r) => Fica(r)
  BY <1>1
<1> QED
  BY <1>2, InvarianteCorreto, PTL DEF Spec, LotePresoNaoAnda

=============================================================================
