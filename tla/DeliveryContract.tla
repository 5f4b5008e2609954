-------------------------- MODULE DeliveryContract --------------------------
(***************************************************************************)
(* What the webhook delivery service promises its callers, with no queue,  *)
(* threads or sentinels: a submission is accepted or refused; an accepted  *)
(* one is attempted or, once the service is closed, dropped; an attempt    *)
(* settles; every fate is final.  WebhookDelivery is shown to implement    *)
(* it.                                                                     *)
(***************************************************************************)
CONSTANT Tasks      \* the submissions, one per call of deliver()

VARIABLES open,     \* new submissions may still be accepted
          fate,     \* what became of each submission
          up        \* the process is running

contractVars == <<open, fate, up>>

Fates == {"new", "accepted", "underway", "settled", "dropped", "refused"}

ContractTypeOK == /\ open \in BOOLEAN
                  /\ fate \in [Tasks -> Fates]
                  /\ up \in BOOLEAN

ContractInit == /\ open = TRUE
                /\ fate = [t \in Tasks |-> "new"]
                /\ up = TRUE

Become(t, from, to) == /\ up
                       /\ fate[t] = from
                       /\ fate' = [fate EXCEPT ![t] = to]
                       /\ UNCHANGED <<open, up>>

Accept(t) == open /\ Become(t, "new", "accepted")
Refuse(t) == Become(t, "new", "refused")
Begin(t)  == Become(t, "accepted", "underway")
Settle(t) == Become(t, "underway", "settled")
Drop(t)   == ~open /\ Become(t, "accepted", "dropped")

Close == /\ up
         /\ open
         /\ open' = FALSE
         /\ UNCHANGED <<fate, up>>

Halt == /\ up
        /\ up' = FALSE
        /\ UNCHANGED <<open, fate>>

ContractNext == \/ Close
                \/ Halt
                \/ \E t \in Tasks : \/ Accept(t) \/ Refuse(t) \/ Begin(t)
                                    \/ Settle(t) \/ Drop(t)

\* Nothing makes callers submit or close, but what was accepted is worked off.
ContractSpec == /\ ContractInit
                /\ [][ContractNext]_contractVars
                /\ \A t \in Tasks : /\ WF_contractVars(Begin(t) \/ Drop(t))
                                    /\ WF_contractVars(Settle(t))
=============================================================================
