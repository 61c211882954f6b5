SPECIFICATION SpecJusta
CONSTANTS
    p1 = p1
    l1 = l1
    r1 = r1
    c1 = c1
    Pagamentos = {p1}
    Lancamentos = {l1}
    Repasses = {r1}
    Campanhas = {c1}
    PagamentoDe <- MCPagamentoDe
    CampanhaDe <- MCCampanhaDe
    ProvedorDe <- MCProvedorInter
    PagosPorPix = {p1}
    SemRepasse = SemRepasse
    SemCampanha = SemCampanha
    MaxTentativas = 14
    Jobs = {j1, j2}
    Execucoes = {e1, e2}
    SemJob = SemJob
    RetryLimit = 6
    MaxTransitorias = 4
    MaxQuedas = 2
    Ambiente = {}
CHECK_DEADLOCK FALSE
PROPERTIES
    AprovadoSeDecide
