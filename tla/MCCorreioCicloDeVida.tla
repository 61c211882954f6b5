------------------------ MODULE MCCorreioCicloDeVida ------------------------
(***************************************************************************)
(* Four starts, as an outbox is hard for independent reasons: a payment    *)
(* with a message, whose two e-mails depend on one another; a payment with *)
(* two recipients, who may come to share an address; a reminder, whose     *)
(* date may change; and more payments than a page of the scan has.         *)
(***************************************************************************)
EXTENDS CorreioCicloDeVida, TLC

CONSTANTS u1, u2, a1, a2, p1, p2, p3, p4, c1

MCEnderecoInicial == u1 :> a1 @@ u2 :> a2

MCOrdem == c1 :> 0 @@ p1 :> 1 @@ p2 :> 2 @@ p3 :> 3 @@ p4 :> 4

Partida(P, G, C, s1, s2, m, f) ==
    [pagamentos |-> P, ganchos |-> G, campanhas |-> C, preferencias |-> u1 :> s1 @@ u2 :> s2,
     mudancas |-> m, falhas |-> f]

MCPartidas ==
    {Partida({p1}, {p1}, {}, "recebe", "inelegivel", 0, 1),
     Partida({p2}, {p2}, {}, "recebe", "recebe", 1, 0),
     Partida({}, {}, {c1}, "recebe", "inelegivel", 2, 1),
     Partida({p2, p3, p4}, {}, {}, "recusa", "inelegivel", 0, 1)}

=============================================================================
