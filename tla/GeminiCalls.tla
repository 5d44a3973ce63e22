------------------------------ MODULE GeminiCalls ------------------------------
(* triage.py: run_batch has a pool of workers ask Gemini about each of some    *)
(* discrepancies; a call posts again while trying again may help; the batch's  *)
(* own thread saves what was found.  How long a call sleeps is left out.       *)
EXTENDS Integers, Sequences, FiniteSets

CONSTANTS
    Batch,       \* the discrepancies of the batch
    MaxTries,    \* max_tries of _post_with_retry
    MaxWorkers   \* max_workers of run_batch

ASSUME CallsAssumption == MaxTries \in Nat \ {0} /\ MaxWorkers \in Nat \ {0}

VARIABLES
    strict,   \* whether the model rejects thinkingConfig
    at,       \* at[d]: where the call about d is
    heard     \* heard[d]: how its posts went

callVars == <<strict, at, heard>>

\* busy: 429 with a hint, 500, 503, a timeout, or unreachable; refused: any
\* other status but 400; garbled: a reply without a finding in it; broken: an
\* error no handler expects, as of a connection dropped before the reply is
\* read, or of a reply that is not JSON; 400 for the field thinkingConfig, or
\* for another reason
Replies == {"finding", "busy", "thinking", "bad request", "refused", "garbled", "broken"}

CallsInit ==
    /\ strict \in BOOLEAN
    /\ at = [d \in Batch |-> "off"]
    /\ heard = [d \in Batch |-> <<>>]

CallGoes(d, from, to) == at[d] = from /\ at' = [at EXCEPT ![d] = to]

-----------------------------------------------------------------------------
(* run_batch                                                                  *)

SubmitAll ==
    /\ \A d \in Batch : at[d] = "off"
    /\ at' = [d \in Batch |-> "queued"]
    /\ UNCHANGED <<strict, heard>>

\* mutant: a call that fails takes its worker with it
OccupiesForever(d) == at[d] \in {"posting", "failed", "error"}
Occupies(d) == at[d] = "posting"

Work(d) ==
    /\ Cardinality({e \in Batch : Occupies(e)}) < MaxWorkers
    /\ CallGoes(d, "queued", "posting")
    /\ UNCHANGED <<strict, heard>>

\* the future's result is saved, or it or the save raises
Collect(d) ==
    /\ CallGoes(d, "found", "saved") \/ \E from \in {"found", "failed"} : CallGoes(d, from, "error")
    /\ UNCHANGED <<strict, heard>>

-----------------------------------------------------------------------------
(* generate and _post_with_retry                                              *)

Dropped(d) == \E i \in DOMAIN heard[d] : heard[d][i] \in {"thinking", "bad request"}

\* mutant: one try is not made
OneTryFewer(d) == Len(heard[d]) + 2 < MaxTries
MoreTries(d) == Len(heard[d]) + 1 < MaxTries
Retries(d, reply) ==
    \/ reply = "busy" /\ MoreTries(d)
    \/ reply \in {"thinking", "bad request"} /\ ~Dropped(d) /\ MoreTries(d)

PostCall(d, reply) ==
    /\ reply = "thinking" => strict /\ ~Dropped(d)
    /\ reply \in {"finding", "garbled", "bad request"} => ~strict \/ Dropped(d)
    /\ CallGoes(d, "posting",
            IF reply = "finding" THEN "found" ELSE IF Retries(d, reply) THEN "posting" ELSE "failed")
    /\ heard' = [heard EXCEPT ![d] = Append(@, reply)]
    /\ UNCHANGED strict

-----------------------------------------------------------------------------
Call(d) == \E reply \in Replies : PostCall(d, reply)

CallsNext == SubmitAll \/ \E d \in Batch : Work(d) \/ Call(d) \/ Collect(d)

CallsSpec == CallsInit /\ [][CallsNext]_callVars

\* the workers and the batch's thread go on, and every post has a timeout
CallsFairness == \A d \in Batch : WF_callVars(Work(d)) /\ WF_callVars(Call(d)) /\ WF_callVars(Collect(d))

-----------------------------------------------------------------------------
(* Properties.                                                                *)

\* Type invariant of the batch's calls.
CallsTypeOK ==
    /\ strict \in BOOLEAN
    /\ at \in [Batch -> {"off", "queued", "posting", "found", "failed", "saved", "error"}]
    /\ heard \in [Batch -> Seq(Replies)] /\ \A d \in Batch : Len(heard[d]) <= MaxTries

Times(d, reply) == Cardinality({i \in DOMAIN heard[d] : heard[d][i] = reply})

\* "Bounded resilience against a busy free tier": a call fails because of a
\* reply that trying again does not change, or of an error that no handler
\* expects, which ends it at once, or after so many busy replies that at most
\* one try is left, which a model that rejects thinkingConfig takes.
FailsOnlyIfHopeless == \A d \in Batch : at[d] = "failed" =>
    \/ \E reply \in {"bad request", "refused", "garbled", "broken"} : Times(d, reply) > 0
    \/ Times(d, "busy") >= MaxTries - (IF strict THEN 1 ELSE 0)

\* A batch ends with every one of its discrepancies saved or in error, however
\* busy Gemini is and however few workers there are.
BatchEnds == \A d \in Batch : at[d] # "off" ~> at[d] \in {"saved", "error"}

-----------------------------------------------------------------------------
(* What the documents or comments say of this code and the code does not do. *)

\* "Drop that field and retry once": no call fails on the field it dropped.
RetriedWithoutField == \A d \in Batch : at[d] = "failed" => heard[d][Len(heard[d])] # "thinking"
=============================================================================
