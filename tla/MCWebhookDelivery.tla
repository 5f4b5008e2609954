-------------------------- MODULE MCWebhookDelivery --------------------------
(* Two submissions, two workers, two callers of shutdown(), and a queue     *)
(* with fewer slots than there are workers, so that it overflows and drops  *)
(* a sentinel, and a task is drained while another is in flight.            *)
EXTENDS WebhookDelivery
CONSTANTS t1, t2, w1, w2, c1, c2
MCTasks == {t1, t2}
MCWorkers == {w1, w2}
MCClosers == {c1, c2}
=============================================================================
