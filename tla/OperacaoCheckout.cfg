SPECIFICATION Spec
CONSTANTS
    Operacoes = {o1, o2}
    Pedidos = {h1, h2}
    Vias = {"inter", "stripe"}
    NenhumaOp = NenhumaOp
    Ninguem = Ninguem
    MaxQuedas = 1
CHECK_DEADLOCK FALSE
INVARIANTS
    TypeOK
    MontadoVinculado
    UmaSessao
PROPERTIES
    ImplementaDecisao
    PixInsistenteTermina
