SPECIFICATION SpecJusta
CONSTANTS
    Pagamentos = {p1}
    Handlers = {h1}
    HandlersPix = {h1}
    Ninguem = Ninguem
    MaxFalhas = 0
CHECK_DEADLOCK FALSE
PROPERTIES
    PixPagoSeAprova
