------------------------------- MODULE MCCallers -------------------------------
(* Three parts that call others over HTTP and share nothing: the dashboard, the *)
(* ledger's event webhooks, and the triage job's calls of Gemini.  Each         *)
(* behaviour is of one part, and the others stay as they began, where their     *)
(* fairness asks nothing of them: what is fair there starts with a click, an    *)
(* event or a batch.                                                            *)
EXTENDS WebClient, WebhookDispatch, GeminiCalls

CONSTANTS e1, e2, ev1, d1, d2

VARIABLE part   \* the part this behaviour is of

CallersInit == Init /\ DispatchInit /\ CallsInit /\ part \in {"dashboard", "webhooks", "triage"}

Dashboard == part = "dashboard" /\ Next /\ UNCHANGED <<dispatchVars, callVars, part>>
Webhooks == part = "webhooks" /\ DispatchNext /\ UNCHANGED <<vars, doubts, callVars, part>>
Triage == part = "triage" /\ CallsNext /\ UNCHANGED <<vars, doubts, dispatchVars, part>>

CallersNext == Dashboard \/ Webhooks \/ Triage

FairCallers ==
    /\ CallersInit /\ [][CallersNext]_<<vars, doubts, dispatchVars, callVars, part>>
    /\ DispatchFairness /\ CallsFairness

CallersSpec == FairCallers /\ PromptPolls
SlowSpec == FairCallers /\ SlowPolls
=============================================================================
