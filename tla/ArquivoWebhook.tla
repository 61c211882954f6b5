---------------------------- MODULE ArquivoWebhook ----------------------------
(***************************************************************************)
(* The archive of provider events (payment_webhook_events): a handler      *)
(* claims an event under a lease of 30 s, and only the holder of the latest*)
(* claim may record what became of it.  A fence token is drawn per claim;  *)
(* a handler serves one delivery at a time, so it stands for its token.    *)
(* An event no delivery archived yet is an unclaimed one.                  *)
(***************************************************************************)
CONSTANTS
    Eventos,    \* provider events
    Entregas,   \* handlers of webhook deliveries
    Ninguem     \* no holder

VARIABLE arquivo  \* of each event: processed_at set, and who holds its fence

EstadosDoArquivo == [Eventos -> [processado : BOOLEAN, dono : Entregas \cup {Ninguem}]]

ArquivoInicial == [e \in Eventos |-> [processado |-> FALSE, dono |-> Ninguem]]

\* saveReceived, which is idempotent, and claimForProcessing.
Reclamar(e, h) ==
    /\ ~arquivo[e].processado /\ arquivo[e].dono = Ninguem
    /\ arquivo' = [arquivo EXCEPT ![e].dono = h]

\* markProcessedFenced: a late holder writes nothing and answers 503.
Concluir(e, h) ==
    arquivo' = IF arquivo[e].dono = h
               THEN [arquivo EXCEPT ![e] = [processado |-> TRUE, dono |-> Ninguem]]
               ELSE arquivo

\* markFailedFenced: the event may be claimed again by the next delivery.
Recusar(e, h) ==
    arquivo' = IF arquivo[e].dono = h THEN [arquivo EXCEPT ![e].dono = Ninguem]
                                      ELSE arquivo

\* processing_lease_until passes.
VencerCerca(e) ==
    /\ arquivo[e].dono # Ninguem
    /\ arquivo' = [arquivo EXCEPT ![e].dono = Ninguem]

=============================================================================
