------------------------ MODULE MCWebhookDeliveries ------------------------
EXTENDS WebhookDeliveries

\* What is run: one delivery under replays, faults and deactivations, two of
\* one dispatcher without any, or three it leaves to the loop while the calls
\* of the older two begin and cease to raise.
VARIABLE mode

Limit == [race |-> 1, batch |-> 2, jam |-> 3]

Dispatcher == CHOOSE w \in Workers : TRUE

MCInit ==
    /\ mode \in DOMAIN Limit
    /\ Init
    /\ raising \subseteq (IF mode = "jam" THEN {1, 2} ELSE {})

MCNext ==
    /\ Next
    /\ UNCHANGED mode
    /\ created' <= Limit[mode]
    /\ IF mode = "jam" THEN 3 \notin raising' ELSE UNCHANGED raising
    /\ mode # "race" => /\ replays' + faults' = 0
                        /\ UNCHANGED active
                        /\ \A w \in Workers \ {Dispatcher} : act'[w] = Idle
    /\ mode = "jam" => act'[Dispatcher].pc \notin {"acked", "refused"}

\* No mode holds back a step of the loop.
MCSpec ==
    /\ MCInit /\ [][MCNext]_<<mode, vars>>
    /\ WF_vars(LoopStep) /\ \A d \in Deliveries : WF_vars(TimePasses(d))
=============================================================================
