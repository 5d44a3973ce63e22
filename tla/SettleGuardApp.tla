---------------------------- MODULE SettleGuardApp ----------------------------
(* app.py over store.py: the requests and the background triage job of the    *)
(* dashboard's server.  Requests run on several threads of one process; a     *)
(* reconciliation reads the rules, then the table, then writes the table; a   *)
(* triage job is a thread of its own.  Of _triage_state "running" is modelled; *)
(* the counts of rows done, in all and in error are only displayed.           *)
EXTENDS DiscrepancyStore

CONSTANTS
    Reconcilers,  \* request threads that may serve POST /api/reconcile
    Triagers,     \* request threads that may serve POST /api/triage
    Jobs,         \* triage job threads
    NoId,         \* the job is not at any row
    Worlds,       \* the reports reconciliation can give as rules and data change
    NoReport,     \* the thread holds no report
    NoExisting,   \* the thread has not read the table
    Resolvable,   \* bound: the rows a person resolves or reopens
    EmptyReplies, \* whether Gemini may answer with an empty root cause
    MaxCrashes,   \* bound: restarts of the process
    MaxFailures   \* bound: rows or jobs whose triage raises

ASSUME AppAssumption ==
    /\ Worlds \subseteq Reports
    /\ NoId \notin Ids
    /\ NoReport \notin Reports
    /\ Resolvable \subseteq Ids
    /\ EmptyReplies \in BOOLEAN
    /\ MaxCrashes \in Nat /\ MaxFailures \in Nat

Threads == Reconcilers \cup Triagers

VARIABLES
    table,      \* the discrepancies table, committed
    world,      \* what a reconciliation started now would report
    pc,         \* pc[w]: where request thread w is
    report,     \* report[w]: what the reconciliation of w found
    existing,   \* existing[w]: the rows w read before writing
    running,    \* _triage_state["running"]
    jpc,        \* jpc[j]: where triage job j is
    queue,      \* queue[j]: the rows j still has to triage, as it read them
    at,         \* at[j]: the row j has a note for, not yet saved
    note,       \* note[j]: that note
    crashes, failures

vars == <<table, world, pc, report, existing, running, jpc, queue, at, note,
          crashes, failures>>

EmptyQueue == [i \in Ids |-> NoVersion]
Waiting(j) == {i \in Ids : queue[j][i] # NoVersion}

Init ==
    /\ table = EmptyTable
    /\ world \in Worlds
    /\ pc = [w \in Threads |-> "idle"]
    /\ report = [w \in Threads |-> NoReport]
    /\ existing = [w \in Threads |-> NoExisting]
    /\ running = FALSE
    /\ jpc = [j \in Jobs |-> "off"]
    /\ queue = [j \in Jobs |-> EmptyQueue]
    /\ at = [j \in Jobs |-> NoId]
    /\ note = [j \in Jobs |-> NoNote]
    /\ crashes = 0
    /\ failures = 0

jobVars == <<jpc, queue, at, note>>
faultVars == <<crashes, failures>>

\* somebody edits rules.yaml or the data files
EditRules ==
    /\ world' \in Worlds \ {world}
    /\ UNCHANGED <<table, pc, report, existing, running, jobVars, faultVars>>

-----------------------------------------------------------------------------
(* POST /api/reconcile                                                        *)

\* load_config and reconcile
Reconcile(w) ==
    /\ pc[w] = "idle"
    /\ report' = [report EXCEPT ![w] = world]
    /\ pc' = [pc EXCEPT ![w] = "found"]
    /\ UNCHANGED <<table, world, existing, running, jobVars, faultVars>>

\* sync_discrepancies reads the table outside of its write transaction
ReadExisting(w) ==
    /\ pc[w] = "found"
    /\ existing' = [existing EXCEPT ![w] = Existing(table)]
    /\ pc' = [pc EXCEPT ![w] = "read"]
    /\ UNCHANGED <<table, world, report, running, jobVars, faultVars>>

Forget(w) ==
    /\ report' = [report EXCEPT ![w] = NoReport]
    /\ existing' = [existing EXCEPT ![w] = NoExisting]

\* the upserts, the deactivations and the commit: one write transaction
Sync(w) ==
    /\ pc[w] = "read"
    /\ ~SyncCollides(table, existing[w], report[w])
    /\ table' = Synced(table, existing[w], report[w])
    /\ pc' = [pc EXCEPT ![w] = "check"]
    /\ Forget(w)
    /\ UNCHANGED <<world, running, jobVars, faultVars>>

\* IntegrityError: rolled back, answered with a 500, no triage is started
SyncFails(w) ==
    /\ pc[w] = "read"
    /\ SyncCollides(table, existing[w], report[w])
    /\ pc' = [pc EXCEPT ![w] = "failed"]
    /\ Forget(w)
    /\ UNCHANGED <<table, world, running, jobVars, faultVars>>

AnswerFailure(w) ==
    /\ pc[w] = "failed"
    /\ pc' = [pc EXCEPT ![w] = "idle"]
    /\ UNCHANGED <<table, world, report, existing, running, jobVars, faultVars>>

-----------------------------------------------------------------------------
(* POST /api/triage and _start_triage                                         *)

PostTriage(w) ==
    /\ pc[w] = "idle"
    /\ pc' = [pc EXCEPT ![w] = "check"]
    /\ UNCHANGED <<table, world, report, existing, running, jobVars, faultVars>>

\* the lock is taken to look at "running", and released
CheckRunning(w) ==
    /\ pc[w] = "check"
    /\ pc' = [pc EXCEPT ![w] = IF running THEN "idle" ELSE "start"]
    /\ UNCHANGED <<table, world, report, existing, running, jobVars, faultVars>>

StartJob(w) ==
    /\ pc[w] = "start"
    /\ pc' = [pc EXCEPT ![w] = "idle"]
    /\ IF Pending(table) = {} THEN UNCHANGED jpc
       ELSE \E j \in Jobs : jpc[j] = "off" /\ jpc' = [jpc EXCEPT ![j] = "load"]
    /\ UNCHANGED <<table, world, report, existing, running, queue, at, note, faultVars>>

-----------------------------------------------------------------------------
(* _run_triage_job                                                            *)

Failing == failures < MaxFailures /\ failures' = failures + 1

\* load_config or the read raises before the try: the thread ends
LoadFails(j) ==
    /\ Failing
    /\ jpc[j] = "load"
    /\ jpc' = [jpc EXCEPT ![j] = "off"]
    /\ UNCHANGED <<table, world, pc, report, existing, running, queue, at, note, crashes>>

\* pending_triage: the rows as they are now, with their detection fields
LoadPending(j) ==
    /\ jpc[j] = "load"
    /\ queue' = [queue EXCEPT ![j] =
                   [i \in Ids |-> IF i \in Pending(table) THEN table[i].det ELSE NoVersion]]
    /\ jpc' = [jpc EXCEPT ![j] = "begin"]
    /\ UNCHANGED <<table, world, pc, report, existing, running, at, note, faultVars>>

BeginJob(j) ==
    /\ jpc[j] = "begin"
    /\ running' = TRUE
    /\ jpc' = [jpc EXCEPT ![j] = "loop"]
    /\ UNCHANGED <<table, world, pc, report, existing, queue, at, note, faultVars>>

\* generate: Gemini writes a note about the row as the job read it
Generate(j, i) ==
    /\ jpc[j] = "loop"
    /\ i \in Waiting(j)
    /\ \E n \in {queue[j][i]} \cup (IF EmptyReplies THEN {EmptyNote} ELSE {}) :
          note' = [note EXCEPT ![j] = n]
    /\ at' = [at EXCEPT ![j] = i]
    /\ queue' = [queue EXCEPT ![j][i] = NoVersion]
    /\ jpc' = [jpc EXCEPT ![j] = "save"]
    /\ UNCHANGED <<table, world, pc, report, existing, running, faultVars>>

\* generate or save_triage raises: the error is noted, and the loop goes on
GenerateFails(j, i) ==
    /\ Failing
    /\ jpc[j] = "loop"
    /\ i \in Waiting(j)
    /\ queue' = [queue EXCEPT ![j][i] = NoVersion]
    /\ UNCHANGED <<table, world, pc, report, existing, running, jpc, at, note, crashes>>

\* save_triage, in a transaction of its own
SaveNote(j) ==
    /\ jpc[j] = "save"
    /\ table' = Triaged(table, at[j], note[j])
    /\ at' = [at EXCEPT ![j] = NoId]
    /\ note' = [note EXCEPT ![j] = NoNote]
    /\ jpc' = [jpc EXCEPT ![j] = "loop"]
    /\ UNCHANGED <<world, pc, report, existing, running, queue, faultVars>>

\* mutant: "running" is left set
FinishJobQuietly(j) ==
    /\ jpc[j] = "loop" /\ Waiting(j) = {}
    /\ jpc' = [jpc EXCEPT ![j] = "off"]
    /\ UNCHANGED <<table, world, pc, report, existing, running, queue, at, note, faultVars>>
FinishJob(j) ==
    /\ jpc[j] = "loop"
    /\ Waiting(j) = {}
    /\ running' = FALSE
    /\ jpc' = [jpc EXCEPT ![j] = "off"]
    /\ UNCHANGED <<table, world, pc, report, existing, queue, at, note, faultVars>>

-----------------------------------------------------------------------------
(* POST /api/resolve and /api/reopen; a restart of the process                *)

Resolve(i) ==
    /\ table' = Resolved(table, i)
    /\ UNCHANGED <<world, pc, report, existing, running, jobVars, faultVars>>

Reopen(i) ==
    /\ table' = Reopened(table, i)
    /\ UNCHANGED <<world, pc, report, existing, running, jobVars, faultVars>>

Crash ==
    /\ crashes < MaxCrashes
    /\ crashes' = crashes + 1
    /\ pc' = [w \in Threads |-> "idle"]
    /\ report' = [w \in Threads |-> NoReport]
    /\ existing' = [w \in Threads |-> NoExisting]
    /\ running' = FALSE
    /\ jpc' = [j \in Jobs |-> "off"]
    /\ queue' = [j \in Jobs |-> EmptyQueue]
    /\ at' = [j \in Jobs |-> NoId]
    /\ note' = [j \in Jobs |-> NoNote]
    /\ UNCHANGED <<table, world, failures>>

-----------------------------------------------------------------------------
StartTriage(w) == CheckRunning(w) \/ StartJob(w)
Request(w) ==
    \/ w \in Reconcilers /\ Reconcile(w)
    \/ w \in Triagers /\ PostTriage(w)
    \/ ReadExisting(w) \/ Sync(w) \/ SyncFails(w) \/ AnswerFailure(w)
    \/ StartTriage(w)

JobStep(j) ==
    \/ LoadPending(j) \/ BeginJob(j) \/ SaveNote(j) \/ FinishJob(j)
    \/ \E i \in Ids : Generate(j, i)
JobFails(j) == LoadFails(j) \/ \E i \in Ids : GenerateFails(j, i)

Next ==
    \/ EditRules \/ Crash
    \/ \E w \in Threads : Request(w)
    \/ \E j \in Jobs : JobStep(j) \/ JobFails(j)
    \/ \E i \in Resolvable : Resolve(i) \/ Reopen(i)

Spec == Init /\ [][Next]_vars

\* A request once begun runs on, and so does a job; nobody has to send one.
\* Gemini, asked about a row again and again, has a root cause for it in the end.
Fairness ==
    /\ \A w \in Threads :
          WF_vars(ReadExisting(w) \/ Sync(w) \/ SyncFails(w) \/ AnswerFailure(w) \/ StartTriage(w))
    /\ \A j \in Jobs : WF_vars(JobStep(j))
    /\ \A i \in Ids : SF_vars(\E j \in Jobs : Generate(j, i) /\ note'[j] # EmptyNote)

FairSpec == Spec /\ Fairness

-----------------------------------------------------------------------------
(* Properties.                                                                *)

\* Type invariant of the table, the request threads and the triage jobs.
TypeOK ==
    /\ table \in Tables
    /\ world \in Worlds
    /\ pc \in [Threads -> {"idle", "found", "read", "check", "start", "failed"}]
    /\ report \in [Threads -> Worlds \cup {NoReport}]
    /\ existing \in [Threads -> [ids : SUBSET Ids, active : SUBSET Ids] \cup {NoExisting}]
    /\ \A w \in Threads : pc[w] \in {"found", "read"} => w \in Reconcilers /\ report[w] \in Worlds
    /\ running \in BOOLEAN
    /\ jpc \in [Jobs -> {"off", "load", "begin", "loop", "save"}]
    /\ queue \in [Jobs -> [Ids -> Versions \cup {NoVersion}]]
    /\ at \in [Jobs -> Ids \cup {NoId}]
    /\ \A j \in Jobs : jpc[j] = "save" => at[j] \in Ids
    /\ note \in [Jobs -> Notes]
    /\ crashes \in 0 .. MaxCrashes /\ failures \in 0 .. MaxFailures

SyncCommits(w) == pc[w] = "read" /\ pc'[w] = "check"

\* "Upsert the freshly reconciled list; deactivate anything not seen this
\* run": when sync_discrepancies commits, the active rows are exactly those
\* of its report, with the report's detection fields.
SyncExact ==
    [][\A w \in Threads : SyncCommits(w) =>
          /\ ActiveIds(table') = Seen(report[w])
          /\ \A i \in Seen(report[w]) : table'[i].det = report[w].det[i]]_vars

\* Re-running reconciliation "never clobbers a triage note or a resolution":
\* a step of a reconciliation changes no note and no resolution, and no step
\* at all makes a row disappear, so a note or a resolution outlives the runs
\* that do not see its row.  Nor does a job put back what it read of a row long
\* ago: what it saves changes the note of the row it is at, and nothing else.
NothingClobbered ==
    [][/\ Present(table) \subseteq Present(table')
       /\ \A w \in Reconcilers : pc[w] = "read" /\ pc'[w] # pc[w] =>
            \A i \in Present(table) : /\ table'[i].note = table[i].note
                                      /\ table'[i].resolved = table[i].resolved
       /\ \A j \in Jobs : jpc[j] = "save" /\ jpc'[j] = "loop" =>
            \A i \in Ids : table'[i] # table[i] =>
                 i = at[j] /\ table'[i] = [table[i] EXCEPT !.note = note[j]]]_vars

\* However many reconciliations overlap: what one of them saw is active with its
\* detection fields when it commits; what it did not see is not, if what it had
\* read is still so; and it fails only when the table has changed since it was
\* read, or when its report lists twice an id the table does not have, so a row
\* an earlier run deactivated is no cause.
SyncSettles == [][\A w \in Threads :
    /\ SyncCommits(w) =>
         \A i \in Seen(report[w]) : i \in ActiveIds(table') /\ table'[i].det = report[w].det[i]
    /\ SyncCommits(w) /\ existing[w] = Existing(table) => ActiveIds(table') = Seen(report[w])
    /\ pc[w] = "read" /\ pc'[w] = "failed" =>
         \/ existing[w] # Existing(table)
         \/ (Seen(report[w]) \ Present(table)) \cap report[w].twice # {}]_vars

Working(j) == jpc[j] \in {"loop", "save"}

\* The dashboard polls while "running" is set: it is never left set without a
\* job that will clear it, however rows or whole jobs fail.
RunningHasJob == running => \E j \in Jobs : Working(j)

\* Triage is asked for again and again, by a reconciliation that has committed
\* or by POST /api/triage.
AskedAgain == []<>(\E w \in Threads : pc[w] = "check")

\* Triage writes a note for every flagged discrepancy (unless it is gone by
\* then), if it is asked for again and again.  The condition is needed: a row
\* flagged while a job runs is in no job's list, one that failed is tried by no
\* other job, and a reconciliation that fails at its table, as each one may
\* while the data list a new id twice, asks for no triage.
FlaggedGetsTriaged ==
    AskedAgain => \A i \in Ids : i \in Pending(table) ~> i \notin Pending(table)

-----------------------------------------------------------------------------
(* What the documents or comments say of this code and the code does not do. *)

\* "Start the triage job unless one is already running."
AtMostOneJob == Cardinality({j \in Jobs : Working(j)}) <= 1

\* A note "for every flagged discrepancy", whether or not anybody asks again.
EveryFlaggedIsTriaged == \A i \in Ids : i \in Pending(table) ~> i \notin Pending(table)
=============================================================================
