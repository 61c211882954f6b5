SPECIFICATION SpecExecucao
CONSTANTS
    p1 = p1
    l1 = l1
    r1 = r1
    c1 = c1
    Pagamentos = {p1}
    Lancamentos = {l1}
    Repasses = {r1}
    Campanhas = {c1}
    PagamentoDe <- MCPagamentoDe
    CampanhaDe <- MCCampanhaDe
    ProvedorDe <- MCProvedorInter
    PagosPorPix = {p1}
    SemRepasse = SemRepasse
    SemCampanha = SemCampanha
    MaxTentativas = 3
    Jobs = {j1, j2, j3}
    Execucoes = {e1, e2}
    SemJob = SemJob
    RetryLimit = 3
    MaxTransitorias = 2
    MaxQuedas = 2
    Ambiente = {"expiracao", "confere"}
CHECK_DEADLOCK FALSE
SYMMETRY Simetria
INVARIANTS
    FalhouSemDinheiro
