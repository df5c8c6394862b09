-------------------------- MODULE MCWebhookDelivery --------------------------
(* Instances of WebhookDelivery for TLC.                                   *)
EXTENDS WebhookDelivery, TLC

(* Three delays, each as long as a lease of two ticks; a configured        *)
(* maximum of two or three attempts cuts the schedule short.               *)
LeaseLongSchedule == <<2, 2, 2>>

OneRetry == <<2>>

(* Runners and handlers are interchangeable, and so are fresh ids.         *)
Symmetry == Permutations(Workers) \cup Permutations(Handlers \ Unconfigured)
              \cup Permutations(Events) \cup Permutations(Jobs)
=============================================================================
