SPECIFICATION SpecEntrega
CONSTANTS
    Pagamentos = {p1}
    Webhooks = {w1}
    Varreduras = {v1}
    Ninguem = Ninguem
    PagaDepois = {}
    MaxFalhas = 1
CHECK_DEADLOCK FALSE
PROPERTIES
    AprovadoSeRegistra
