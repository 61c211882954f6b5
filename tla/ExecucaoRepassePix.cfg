SPECIFICATION SpecExecucao
CONSTANTS
    p1 = p1
    l1 = l1
    r1 = r1
    c1 = c1
    Pagamentos = {p1}
    Lancamentos = {l1}
    Repasses = {r1}
    Campanhas = {c1}
    PagamentoDe <- MCPagamentoDe
    CampanhaDe <- MCCampanhaDe
    ProvedorDe <- MCProvedorInter
    PagosPorPix = {p1}
    SemRepasse = SemRepasse
    SemCampanha = SemCampanha
    MaxTentativas = 2
    Jobs = {j1, j2}
    Execucoes = {e1, e2}
    SemJob = SemJob
    RetryLimit = 2
    MaxTransitorias = 1
    MaxQuedas = 1
    Ambiente = {"estornos", "expiracao", "destino"}
CHECK_DEADLOCK FALSE
SYMMETRY Simetria
INVARIANTS
    EstornoExcluiPix
    TypeOKExecucao
    PixCobertoPorDecisao
    FalhaSemPix
    EnviadoTemPix
