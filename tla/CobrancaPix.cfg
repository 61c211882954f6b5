SPECIFICATION SpecJusta
CONSTANTS
    Pagamentos = {p1, p2}
    Webhooks = {w1}
    Varreduras = {v1}
    Ninguem = Ninguem
    PagaDepois = {p2}
    MaxFalhas = 1
CHECK_DEADLOCK FALSE
INVARIANTS
    TypeOK
    AprovadoPago
    RejeitadoNaoPago
PROPERTIES
    ImplementaMaquina
    PagoSeDecide
