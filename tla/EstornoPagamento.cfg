SPECIFICATION SpecJusta
CONSTANTS
    Pagamentos = {p1}
    Admins = {a1, a2}
    Avisos = {h1, h2}
    MaxFalhas = 2
    Ninguem = Ninguem
INVARIANTS
    TypeOK
    DevolveUmaVez
    EstornadoFoiDevolvido
PROPERTIES
    ImplementaDestino
    DevolvidoSeRegistra
