SPECIFICATION SpecJusta
CONSTANTS
    p1 = p1
    p2 = p2
    p3 = p3
    p4 = p4
    c1 = c1
    u1 = u1
    u2 = u2
    a1 = a1
    a2 = a2
    Pagamentos = {p1, p2, p3, p4}
    ComRecado = {p1}
    Campanhas = {c1}
    Usuarios = {u1, u2}
    Dono = u1
    Enderecos = {a1, a2}
    EnderecoInicial <- MCEnderecoInicial
    Trabalhadores = {w1, w2}
    Ordem <- MCOrdem
    Pagina = 2
    MaxTentativas = 2
    UltimoDia = 2
    Partidas <- MCPartidas
    Ninguem = Ninguem
CHECK_DEADLOCK FALSE
INVARIANTS
    TypeOK
    NuncaRepete
    CaixaNaoMente
    UmPorEndereco
    UmEmailPorPagamento
PROPERTIES
    CaixaSeEsvazia
    PagamentosSeAvisam
