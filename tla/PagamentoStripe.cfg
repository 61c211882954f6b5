SPECIFICATION SpecCompletada
CONSTANTS
    Pagamentos = {p1}
    Handlers = {h1, h2}
    HandlersPix = {h1}
    Ninguem = Ninguem
    MaxFalhas = 1
CHECK_DEADLOCK FALSE
INVARIANTS
    TypeOK
    SoOPagoProduzEfeitos
    CartaoPagoNaoERejeitado
PROPERTIES
    CartoesImplementamMaquina
    CartaoPagoSeRegistra
