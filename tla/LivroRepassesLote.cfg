SPECIFICATION Spec
CONSTANTS
    p1 = p1
    p2 = p2
    l1 = l1
    l2 = l2
    r1 = r1
    r2 = r2
    c1 = c1
    Pagamentos = {p1, p2}
    Lancamentos = {l1, l2}
    Repasses = {r1, r2}
    Campanhas = {c1}
    PagamentoDe <- MCPagamentoDe
    CampanhaDe <- MCCampanhaDe
    ProvedorDe <- MCProvedorDe
    PagosPorPix <- MCPagosPorPix
    SemRepasse = SemRepasse
    SemCampanha = SemCampanha
    MaxTentativas = 1
SYMMETRY Simetria
CHECK_DEADLOCK FALSE
INVARIANTS
    TypeOK
    EstornoExcluiSaida
    SaidaCobreLote
    CreditoEmUmSoLote
PROPERTIES
    ReservaNaoVaza
    EstornadoENaoSaiMais
    ImplementaDestino
