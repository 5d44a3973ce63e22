------------------------------ MODULE WebClient ------------------------------
(* web/src/app/state: the dashboard's store and its effects, with the server  *)
(* as the effects see it.  One row is shown.  Every request is sent, handled  *)
(* by the server, and answered; an answer may get lost, and switchMap gives   *)
(* up the request before.  Messages, filters and counts are left out.         *)
EXTENDS Integers, Sequences

CONSTANTS
    NoRow,      \* no row in a request that is not answered
    MaxClicks   \* bound on what the user clicks

ASSUME ClientAssumption == MaxClicks \in Nat /\ NoRow \notin [resolved : BOOLEAN, note : BOOLEAN]

VARIABLES
    server,   \* the row in the database
    job,      \* the triage job: none, started but not yet running, running
    row,      \* the row in the store
    busy,     \* busy in the store
    act,      \* the request of reconcile$ or startTriage$
    load,     \* the requests of load$
    poll,     \* where the loop of pollTriage$ is
    edits,    \* edits[op]: the queues of resolve$ and of reopen$
    clicks,   \* clicks so far
    wanted,   \* history: how the user last set the row
    failed,   \* history: whether a call of resolve$ or reopen$ failed
    stale,    \* history: whether the load under way met a resolve or a reopen
    doubt     \* history: whether the row shown may be wrong

doubts == <<stale, doubt>>
vars == <<server, job, row, busy, act, load, poll, edits, clicks, wanted, failed>>
view == <<row, busy>>
history == <<clicks, wanted, failed>>

Row == [resolved : BOOLEAN, note : BOOLEAN]
NoAct == [kind |-> "none", stage |-> "none", started |-> FALSE]
NoLoad == [stage |-> "none", row |-> NoRow]
LoadSent == [stage |-> "sent", row |-> NoRow]
Ops == {"resolve", "reopen"}

Init ==
    /\ server = [resolved |-> FALSE, note |-> FALSE]
    /\ job = "none"
    /\ row = server
    /\ busy = FALSE
    /\ act = NoAct /\ load = NoLoad /\ poll = "off"
    /\ edits = [op \in Ops |-> <<>>]
    /\ clicks = 0 /\ wanted = FALSE /\ failed = FALSE
    /\ stale = FALSE /\ doubt = FALSE

Click == clicks < MaxClicks /\ clicks' = clicks + 1

-----------------------------------------------------------------------------
(* reconcile$ and startTriage$; the buttons are disabled while busy           *)

ClickAct(kind) ==
    /\ ~busy /\ act = NoAct
    /\ Click
    /\ busy' = TRUE
    /\ act' = [kind |-> kind, stage |-> "sent", started |-> FALSE]
    /\ UNCHANGED <<server, job, row, load, poll, edits, wanted, failed>>

\* the server starts the job when it is not running and the row has no note (the
\* two jobs this can start are told apart in SettleGuardApp, not here)
HandleAct(stage) ==
    /\ act.stage = "sent"
    /\ LET starts == job # "running" /\ ~server.note IN
        /\ act' = [act EXCEPT !.stage = stage, !.started = starts]
        /\ job' = IF starts /\ job = "none" THEN "started" ELSE job
    /\ UNCHANGED <<server, view, load, poll, edits, history>>

RefuseAct ==
    /\ act.stage = "sent"
    /\ act' = [act EXCEPT !.stage = "failed"]
    /\ UNCHANGED <<server, job, view, load, poll, edits, history>>

\* reconcileSuccess and triageStarted: load, and poll if a job may be running
ActSuccess ==
    /\ act.stage = "answered"
    /\ busy' = FALSE
    /\ act' = NoAct
    /\ load' = LoadSent
    /\ poll' = IF act.kind = "triage" \/ act.started THEN "ask" ELSE poll
    /\ UNCHANGED <<server, job, row, edits, history>>

\* mutant: triageFailure leaves busy set
BusyAfterFailedTriage == act.kind = "triage"
BusyAfterFailure == FALSE

ActFailure ==
    /\ act.stage = "failed"
    /\ busy' = BusyAfterFailure
    /\ act' = NoAct
    /\ UNCHANGED <<server, job, row, load, poll, edits, history>>

-----------------------------------------------------------------------------
(* the triage job                                                             *)

JobRuns ==
    /\ job = "started" /\ job' = "running"
    /\ UNCHANGED <<server, view, act, load, poll, edits, history>>

JobEnds ==
    /\ job = "running" /\ job' = "none"
    /\ \E note \in {server.note, TRUE} : server' = [server EXCEPT !.note = note]
    /\ UNCHANGED <<view, act, load, poll, edits, history>>

-----------------------------------------------------------------------------
(* load$                                                                      *)

HandleLoad ==
    /\ load = LoadSent
    /\ load' = [stage |-> "answered", row |-> server]
    /\ UNCHANGED <<server, job, view, act, poll, edits, history>>

LoadSuccess ==
    /\ load.stage = "answered"
    /\ row' = load.row
    /\ load' = NoLoad
    /\ UNCHANGED <<server, job, busy, act, poll, edits, history>>

LoadFailure ==
    /\ load # NoLoad
    /\ load' = NoLoad
    /\ UNCHANGED <<server, job, view, act, poll, edits, history>>

-----------------------------------------------------------------------------
(* pollTriage$: ask for the summary every POLL_MS, until no job is running    *)

HandlePoll ==
    /\ poll = "ask"
    /\ poll' = IF job = "running" THEN "running" ELSE "stopped"
    /\ UNCHANGED <<server, job, view, act, load, edits, history>>

\* mutant: no takeWhile
PollAfterStopForever == "wait"
PollAfterStop == "off"

PollHears ==
    /\ \/ poll = "running" /\ poll' = "wait" /\ UNCHANGED load
       \/ poll = "stopped" /\ poll' = PollAfterStop /\ load' = LoadSent
    /\ UNCHANGED <<server, job, view, act, edits, history>>

PollFails ==
    /\ poll \in {"ask", "running", "stopped"} /\ poll' = "wait"
    /\ UNCHANGED <<server, job, view, act, load, edits, history>>

\* the timer: a request that is not answered by now is given up
PollTick ==
    /\ poll \in {"wait", "running", "stopped"} /\ poll' = "ask"
    /\ UNCHANGED <<server, job, view, act, load, edits, history>>

-----------------------------------------------------------------------------
(* resolve$ and reopen$: a queue each                                         *)

Value(op) == op = "resolve"

ClickEdit(op) ==
    /\ row.resolved # Value(op)
    /\ Click
    /\ wanted' = Value(op)
    /\ row' = [row EXCEPT !.resolved = Value(op)]
    /\ edits' = [edits EXCEPT ![op] = Append(@, [previous |-> row, stage |-> "sent", row |-> NoRow])]
    /\ UNCHANGED <<server, job, busy, act, load, poll, failed>>

InFlight(op, stage) == edits[op] # <<>> /\ Head(edits[op]).stage = stage
Becomes(op, stage, r) == edits' = [edits EXCEPT ![op][1] = [@ EXCEPT !.stage = stage, !.row = r]]

HandleEdit(op, stage) ==
    /\ InFlight(op, "sent")
    /\ server' = [server EXCEPT !.resolved = Value(op)]
    /\ Becomes(op, stage, server')
    /\ UNCHANGED <<job, view, act, load, poll, history>>

RefuseEdit(op) ==
    /\ InFlight(op, "sent")
    /\ Becomes(op, "failed", NoRow)
    /\ UNCHANGED <<server, job, view, act, load, poll, history>>

EditSuccess(op) ==
    /\ InFlight(op, "answered")
    /\ row' = Head(edits[op]).row
    /\ edits' = [edits EXCEPT ![op] = Tail(@)]
    /\ UNCHANGED <<server, job, busy, act, load, poll, history>>

\* mutant: no roll-back
RestoredNever(op) == row
Restored(op) == Head(edits[op]).previous

EditFailure(op) ==
    /\ InFlight(op, "failed")
    /\ row' = Restored(op)
    /\ edits' = [edits EXCEPT ![op] = Tail(@)]
    /\ failed' = TRUE
    /\ UNCHANGED <<server, job, busy, act, load, poll, clicks, wanted>>

-----------------------------------------------------------------------------
\* a lost answer looks like a failure to the client
Stages == {"answered", "failed"}

Step ==
    \/ \E kind \in {"reconcile", "triage"} : ClickAct(kind)
    \/ \E stage \in Stages : HandleAct(stage)
    \/ RefuseAct \/ ActSuccess \/ ActFailure
    \/ JobRuns \/ JobEnds
    \/ HandleLoad \/ LoadSuccess \/ LoadFailure
    \/ HandlePoll \/ PollHears \/ PollFails \/ PollTick
    \/ \E op \in Ops :
        \/ ClickEdit(op) \/ RefuseEdit(op) \/ EditSuccess(op) \/ EditFailure(op)
        \/ \E stage \in Stages : HandleEdit(op, stage)

Editing == \E op \in Ops : edits[op] # <<>>

\* a row is in doubt once two of its requests were under way together, or an
\* answer was lost, and until a load that met none of them arrives
Doubts ==
    /\ stale' = (load' # NoLoad /\ (stale \/ Editing'))
    /\ doubt' = IF load.stage = "answered" /\ load' = NoLoad /\ row' = load.row THEN stale
                ELSE \/ doubt
                     \/ \A op \in Ops : edits'[op] # <<>>
                     \/ server'.resolved # server.resolved /\ \E op \in Ops : InFlight(op, "failed")'

Next == Step /\ Doubts

Spec == Init /\ [][Next]_<<vars, doubts>>

\* requests are handled and answered, the job goes on, the timer ticks
Fairness ==
    /\ WF_vars(\E stage \in Stages : HandleAct(stage)) /\ WF_vars(ActSuccess) /\ WF_vars(ActFailure)
    /\ WF_vars(JobRuns) /\ WF_vars(JobEnds)
    /\ WF_vars(HandlePoll) /\ WF_vars(PollHears) /\ WF_vars(PollTick)

\* polls fail for a while only
SlowPolls == Fairness /\ <>[][~PollFails]_vars

\* and now and then one is answered before the next tick
PromptPolls == SlowPolls /\ SF_vars(PollHears)

-----------------------------------------------------------------------------
(* Properties.                                                                *)

\* what is answered has a row
LoadRecords == [stage : {"none", "sent"}, row : {NoRow}] \cup [stage : {"answered"}, row : Row]
EditRecords == [previous : Row, stage : {"sent", "failed"}, row : Row \cup {NoRow}]
               \cup [previous : Row, stage : {"answered"}, row : Row]

\* Type invariant of the store, the requests and the server.
TypeOK ==
    /\ server \in Row /\ row \in Row
    /\ job \in {"none", "started", "running"} /\ poll \in {"off", "wait", "ask", "running", "stopped"}
    /\ load \in LoadRecords
    /\ act \in [kind : {"none", "reconcile", "triage"}, stage : {"none", "sent", "answered", "failed"},
                started : BOOLEAN]
    /\ edits \in [Ops -> Seq(EditRecords)]
    /\ busy \in BOOLEAN /\ wanted \in BOOLEAN /\ failed \in BOOLEAN /\ stale \in BOOLEAN /\ doubt \in BOOLEAN
    /\ clicks \in 0 .. MaxClicks

\* The buttons are disabled exactly while a reconciliation or a triage request
\* is under way, however it ends.
BusyIsInFlight == busy <=> act # NoAct

\* "Change the row immediately and roll back if the API call fails": with no
\* call under way the row shown is as the server has it, unless its calls
\* crossed or an answer was lost since it was last loaded.
RowIsTrue == Editing \/ doubt \/ row.resolved = server.resolved

\* "Polls /api/summary while the AI triage job runs and stops when it
\* finishes": the loop ends, whichever polls failed before.
PollStops == poll # "off" ~> poll = "off"

-----------------------------------------------------------------------------
(* What the documents or comments say of this code and the code does not do. *)

\* "Poll the summary until the background job stops."
PollsUntilJobStops == [][poll = "stopped" /\ poll' = "off" => job # "started"]_vars

\* "concatMap to keep resolve/reopen ordered": when all calls went well, the
\* server has the row as the user last set it.
LastClickWins == (\A op \in Ops : edits[op] = <<>>) /\ ~failed => server.resolved = wanted

\* "Change the row immediately and roll back if the API call fails": when no
\* call failed, the row shown stays as the user last set it, once the server
\* has it so too.
StaysAsClicked ==
    (\A op \in Ops : edits[op] = <<>>) /\ load = NoLoad /\ ~failed /\ server.resolved = wanted =>
        row.resolved = wanted
=============================================================================
