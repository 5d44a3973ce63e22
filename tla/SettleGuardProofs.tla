-------------------------- MODULE SettleGuardProofs --------------------------
(* Theorems about the reconciliation server, for every set of discrepancies,  *)
(* reports, request threads and triage jobs, and about what it finds, for any *)
(* two files and thresholds.                                                  *)
EXTENDS SettleGuardApp, Reconciliation, SumsProofs

-----------------------------------------------------------------------------
(* Lemmas about the operations of the store.                                  *)

LEMMA TriagedType ==
    ASSUME NEW t \in Tables, NEW i \in Ids, NEW n \in Notes
    PROVE  Triaged(t, i, n) \in Tables
<1>1. t[i] \in Rows
  BY DEF Tables
<1>2. [t[i] EXCEPT !.note = n] \in Rows
  BY <1>1 DEF Rows
<1>3. [t EXCEPT ![i].note = n] \in Tables
  BY <1>2 DEF Tables
<1> QED BY <1>3 DEF Triaged

LEMMA DecidedType ==
    ASSUME NEW t \in Tables, NEW i \in Ids
    PROVE  Resolved(t, i) \in Tables /\ Reopened(t, i) \in Tables
<1>1. t[i] \in Rows
  BY DEF Tables
<1>2. [t[i] EXCEPT !.resolved = TRUE] \in Rows /\ [t[i] EXCEPT !.resolved = FALSE] \in Rows
  BY <1>1 DEF Rows
<1>3. [t EXCEPT ![i].resolved = TRUE] \in Tables /\ [t EXCEPT ![i].resolved = FALSE] \in Tables
  BY <1>2 DEF Tables
<1> QED BY <1>3 DEF Resolved, Reopened

\* Triage and the decisions of people leave alone which rows exist, which are
\* active and what was detected.
LEMMA DetectionKept ==
    ASSUME NEW t \in Tables, NEW i \in Ids, NEW n \in Notes,
           NEW u \in {Triaged(t, i, n), Resolved(t, i), Reopened(t, i)}
    PROVE  /\ \A k \in Ids : u[k].det = t[k].det /\ u[k].active = t[k].active
           /\ Existing(u) = Existing(t)
<1>1. \A k \in Ids : u[k].det = t[k].det /\ u[k].active = t[k].active
  <2>1. \A k \in Ids : t[k] \in Rows
    BY DEF Tables
  <2>2. CASE u = Triaged(t, i, n)
    BY <2>1, <2>2 DEF Tables, Rows, Triaged
  <2>3. CASE u = Resolved(t, i) \/ u = Reopened(t, i)
    BY <2>1, <2>3 DEF Tables, Rows, Resolved, Reopened
  <2> QED BY <2>2, <2>3
<1>2. Present(u) = Present(t)
  BY <1>1 DEF Present
<1>3. \A k : k \in ActiveIds(u) <=> k \in ActiveIds(t)
  BY <1>1, <1>2 DEF ActiveIds, Present
<1> QED BY <1>1, <1>2, <1>3 DEF Existing

LEMMA SyncedType ==
    ASSUME NEW t \in Tables, NEW r \in Reports, NEW ex
    PROVE  Synced(t, ex, r) \in Tables
  BY SMT DEF Tables, Rows, Reports, Synced, Seen

\* Synchronising keeps every note and every resolution and loses no row, and
\* what the report saw is active with the report's detection fields.
LEMMA SyncedFacts ==
    ASSUME NEW t \in Tables, NEW r \in Reports, NEW ex, NEW u, u = Synced(t, ex, r)
    PROVE  /\ \A i \in Ids : u[i].note = t[i].note /\ u[i].resolved = t[i].resolved
           /\ Present(t) \subseteq Present(u)
           /\ \A i \in Seen(r) : i \in ActiveIds(u) /\ u[i].det = r.det[i]
<1>1. \A i \in Ids : u[i].note = t[i].note /\ u[i].resolved = t[i].resolved
  BY DEF Synced, Tables, Rows
<1>2. \A i \in Seen(r) : u[i].det = r.det[i] /\ u[i].active
  BY DEF Synced, Seen
<1>3. \A i \in Ids \ Seen(r) : u[i].det = t[i].det
  BY DEF Synced, Tables, Rows
<1>4. Seen(r) \subseteq Present(u)
  BY <1>2 DEF Present, Seen
<1>5. Present(t) \subseteq Present(u)
  BY <1>3, <1>4 DEF Present
<1> QED BY <1>1, <1>2, <1>4, <1>5 DEF ActiveIds

\* With the table unchanged since it was read, the active rows become exactly
\* the rows the report saw.
LEMMA SyncedExact ==
    ASSUME NEW t \in Tables, NEW r \in Reports, NEW u, u = Synced(t, Existing(t), r)
    PROVE  ActiveIds(u) = Seen(r)
<1>1. Seen(r) \subseteq ActiveIds(u)
  BY SyncedFacts
<1>2. ASSUME NEW i \in Ids, i \notin Seen(r) PROVE i \notin ActiveIds(u)
  <2>1. CASE i \in ActiveIds(t)
    BY <1>2, <2>1 DEF Synced, Existing, ActiveIds, Present
  <2>2. CASE i \notin ActiveIds(t)
    BY <1>2, <2>2 DEF Synced, Existing, ActiveIds, Present
  <2> QED BY <2>1, <2>2
<1> QED BY <1>1, <1>2 DEF ActiveIds, Present

-----------------------------------------------------------------------------
\* The table, the requests and the jobs hold values of their types.
THEOREM TypeCorrect == Spec => []TypeOK
<1>0. EmptyQueue \in [Ids -> Versions \cup {NoVersion}]
  BY DEF EmptyQueue
<1>1. Init => TypeOK
  <2> SUFFICES ASSUME Init PROVE TypeOK
    OBVIOUS
  <2>1. table \in Tables
    BY DEF Init, EmptyTable, NoRow, Tables, Rows, Notes
  <2>2. /\ world \in Worlds
        /\ pc \in [Threads -> {"idle", "found", "read", "check", "start", "failed"}]
        /\ report \in [Threads -> Worlds \cup {NoReport}]
        /\ existing \in [Threads -> [ids : SUBSET Ids, active : SUBSET Ids] \cup {NoExisting}]
        /\ \A w \in Threads : pc[w] \notin {"found", "read"}
    BY Zenon DEF Init
  <2>3. /\ running \in BOOLEAN
        /\ jpc \in [Jobs -> {"off", "load", "begin", "loop", "save"}]
        /\ \A j \in Jobs : jpc[j] # "save"
    BY DEF Init
  <2>4. /\ queue \in [Jobs -> [Ids -> Versions \cup {NoVersion}]]
        /\ at \in [Jobs -> Ids \cup {NoId}]
        /\ note \in [Jobs -> Notes]
    BY <1>0, Zenon DEF Init, Notes
  <2>5. crashes \in 0 .. MaxCrashes /\ failures \in 0 .. MaxFailures
    BY AppAssumption DEF Init
  <2> QED BY <2>1, <2>2, <2>3, <2>4, <2>5 DEF TypeOK
<1>2. TypeOK /\ [Next]_vars => TypeOK'
  <2> SUFFICES ASSUME TypeOK, [Next]_vars PROVE TypeOK'
    OBVIOUS
  <2> USE DEF TypeOK, jobVars, faultVars
  <2>1. CASE EditRules
    BY <2>1 DEF EditRules
  <2>2. CASE Crash
    <3>1. /\ world' \in Worlds /\ table' \in Tables
          /\ pc' \in [Threads -> {"idle", "found", "read", "check", "start", "failed"}]
          /\ report' \in [Threads -> Worlds \cup {NoReport}]
          /\ existing' \in [Threads -> [ids : SUBSET Ids, active : SUBSET Ids] \cup {NoExisting}]
          /\ \A w \in Threads : pc'[w] \notin {"found", "read"}
      BY <2>2, Zenon DEF Crash
    <3>2. /\ running' \in BOOLEAN
          /\ jpc' \in [Jobs -> {"off", "load", "begin", "loop", "save"}]
          /\ \A j \in Jobs : jpc'[j] # "save"
      BY <2>2 DEF Crash
    <3>3. /\ queue' \in [Jobs -> [Ids -> Versions \cup {NoVersion}]]
          /\ at' \in [Jobs -> Ids \cup {NoId}]
          /\ note' \in [Jobs -> Notes]
      BY <1>0, <2>2, Zenon DEF Crash, Notes
    <3>4. crashes' \in 0 .. MaxCrashes /\ failures' \in 0 .. MaxFailures
      BY <2>2, AppAssumption DEF Crash
    <3> QED BY <3>1, <3>2, <3>3, <3>4
  <2>3. ASSUME NEW w \in Threads, Request(w) PROVE TypeOK'
    <3>1. CASE Reconcile(w) /\ w \in Reconcilers
      BY <3>1 DEF Reconcile
    <3>2. CASE ReadExisting(w)
      <4>1. Existing(table) \in [ids : SUBSET Ids, active : SUBSET Ids]
        BY DEF Existing, Present, ActiveIds
      <4> QED BY <3>2, <4>1 DEF ReadExisting
    <3>3. CASE Sync(w)
      <4>1. report[w] \in Reports
        BY <3>3, AppAssumption DEF Sync
      <4>2. table' \in Tables
        BY <3>3, <4>1, SyncedType DEF Sync
      <4> QED BY <3>3, <4>2 DEF Sync, Forget
    <3>4. CASE SyncFails(w)
      BY <3>4 DEF SyncFails, Forget
    <3>5. CASE AnswerFailure(w) \/ PostTriage(w) \/ CheckRunning(w)
      BY <3>5 DEF AnswerFailure, PostTriage, CheckRunning
    <3>6. CASE StartJob(w)
      BY <3>6 DEF StartJob
    <3> QED BY <2>3, <3>1, <3>2, <3>3, <3>4, <3>5, <3>6 DEF Request, StartTriage
  <2>4. ASSUME NEW j \in Jobs, JobStep(j) \/ JobFails(j) PROVE TypeOK'
    <3>1. CASE LoadFails(j)
      BY <3>1, AppAssumption, SMT DEF LoadFails, Failing
    <3>2. CASE LoadPending(j)
      <4>1. queue' \in [Jobs -> [Ids -> Versions \cup {NoVersion}]]
        BY <3>2 DEF LoadPending, Tables, Rows
      <4> QED BY <3>2, <4>1 DEF LoadPending
    <3>3. CASE BeginJob(j)
      BY <3>3 DEF BeginJob
    <3>4. ASSUME NEW i \in Ids, Generate(j, i) PROVE TypeOK'
      <4>1. queue' \in [Jobs -> [Ids -> Versions \cup {NoVersion}]]
        BY <3>4 DEF Generate
      <4>2. note' \in [Jobs -> Notes]
        BY <3>4 DEF Generate, Notes, Waiting
      <4> QED BY <3>4, <4>1, <4>2 DEF Generate
    <3>5. ASSUME NEW i \in Ids, GenerateFails(j, i) PROVE TypeOK'
      <4>1. queue' \in [Jobs -> [Ids -> Versions \cup {NoVersion}]]
        BY <3>5 DEF GenerateFails
      <4>2. failures' \in 0 .. MaxFailures
        BY <3>5, AppAssumption DEF GenerateFails, Failing
      <4> QED BY <3>5, <4>1, <4>2 DEF GenerateFails
    <3>6. CASE SaveNote(j)
      <4>1. table' \in Tables
        BY <3>6, TriagedType DEF SaveNote
      <4>2. note' \in [Jobs -> Notes]
        BY <3>6 DEF SaveNote, Notes
      <4> QED BY <3>6, <4>1, <4>2 DEF SaveNote
    <3>7. CASE FinishJob(j)
      BY <3>7 DEF FinishJob
    <3> QED BY <2>4, <3>1, <3>2, <3>3, <3>4, <3>5, <3>6, <3>7 DEF JobStep, JobFails
  <2>5. ASSUME NEW i \in Resolvable, Resolve(i) \/ Reopen(i) PROVE TypeOK'
    <3>1. table' \in Tables
      BY <2>5, AppAssumption, DecidedType DEF Resolve, Reopen
    <3> QED BY <2>5, <3>1 DEF Resolve, Reopen
  <2>6. CASE UNCHANGED vars
    BY <2>6 DEF vars
  <2> QED BY <2>1, <2>2, <2>3, <2>4, <2>5, <2>6 DEF Next
<1> QED BY <1>1, <1>2, PTL DEF Spec

\* A step that commits no reconciliation neither adds, removes nor
\* (de)activates a row; a reconciliation that leaves its read state by such a
\* step failed; and what a thread read is the table it read.
LEMMA OtherSteps ==
    ASSUME TypeOK, [Next]_vars, \A w \in Reconcilers : ~Sync(w)
    PROVE  /\ Existing(table') = Existing(table)
           /\ \A w \in Threads : pc[w] = "read" /\ pc'[w] # "read" =>
                 UNCHANGED table /\ pc'[w] # "check"
           /\ \A w \in Threads : pc'[w] = "read" =>
                 \/ pc[w] = "read" /\ existing'[w] = existing[w]
                 \/ existing'[w] = Existing(table)
           /\ \A w \in Threads : pc'[w] = "failed" => pc[w] = "failed" \/ SyncFails(w)
<1> DEFINE Kept == Existing(table') = Existing(table)
           Steady == UNCHANGED table
           Left == \A w \in Threads : pc[w] = "read" /\ pc'[w] # "read" =>
                      UNCHANGED table /\ pc'[w] # "check"
           Read == \A w \in Threads : pc'[w] = "read" =>
                      \/ pc[w] = "read" /\ existing'[w] = existing[w]
                      \/ existing'[w] = Existing(table)
           Failed == \A w \in Threads : pc'[w] = "failed" => pc[w] = "failed" \/ SyncFails(w)
<1>0. Steady => Kept
  OBVIOUS
<1>1. CASE UNCHANGED <<pc, existing>>
  <2>1. Left /\ Read /\ Failed
    BY <1>1
  <2>2. CASE \E j \in Jobs : SaveNote(j)
    <3>1. PICK j \in Jobs : SaveNote(j)
      BY <2>2
    <3>2. at[j] \in Ids /\ note[j] \in Notes /\ table \in Tables
      BY <3>1 DEF SaveNote, TypeOK
    <3>3. table' = Triaged(table, at[j], note[j])
      BY <3>1 DEF SaveNote
    <3> QED BY <2>1, <3>2, <3>3, DetectionKept
  <2>3. CASE \E i \in Resolvable : Resolve(i) \/ Reopen(i)
    <3>1. PICK i \in Resolvable : Resolve(i) \/ Reopen(i)
      BY <2>3
    <3>2. i \in Ids /\ NoNote \in Notes /\ table \in Tables
      BY AppAssumption DEF TypeOK, Notes
    <3>3. table' \in {Resolved(table, i), Reopened(table, i)}
      BY <3>1 DEF Resolve, Reopen
    <3> QED BY <2>1, <3>2, <3>3, DetectionKept
  <2>4. CASE Steady
    BY <2>1, <2>4, <1>0
  <2>5. \/ Steady
        \/ \E j \in Jobs : SaveNote(j)
        \/ \E i \in Resolvable : Resolve(i) \/ Reopen(i)
        \/ \E w \in Threads : Sync(w)
    BY DEF Next, vars, EditRules, Crash, Request, StartTriage, Reconcile, ReadExisting,
           SyncFails, AnswerFailure, PostTriage, CheckRunning, StartJob, JobStep, JobFails,
           LoadFails, LoadPending, BeginJob, Generate, GenerateFails, FinishJob
  <2>6. \A w \in Threads : ~Sync(w)
    BY DEF Sync, TypeOK
  <2> QED BY <2>2, <2>3, <2>4, <2>5, <2>6
<1>2. CASE Crash
  BY <1>0, <1>2 DEF Crash
<1>3. ASSUME NEW w \in Threads, Request(w) PROVE Kept /\ Left /\ Read /\ Failed
  <2> USE DEF TypeOK
  <2>1. ~Sync(w)
    BY DEF Sync
  <2>2. Steady
    BY <1>3, <2>1 DEF Request, StartTriage, Reconcile, ReadExisting, SyncFails, AnswerFailure,
                      PostTriage, CheckRunning, StartJob
  <2>3. CASE ReadExisting(w)
    BY <1>0, <2>2, <2>3 DEF ReadExisting
  <2>4. CASE SyncFails(w)
    BY <1>0, <2>2, <2>4 DEF SyncFails, Forget
  <2>5. CASE Reconcile(w) \/ AnswerFailure(w) \/ PostTriage(w) \/ CheckRunning(w) \/ StartJob(w)
    BY <1>0, <2>2, <2>5 DEF Reconcile, AnswerFailure, PostTriage, CheckRunning, StartJob
  <2> QED BY <1>3, <2>1, <2>3, <2>4, <2>5 DEF Request, StartTriage
<1>4. \/ UNCHANGED <<pc, existing>> \/ Crash \/ \E w \in Threads : Request(w)
  BY DEF Next, vars, EditRules, JobStep, JobFails, LoadFails, LoadPending, BeginJob, Generate,
         GenerateFails, SaveNote, FinishJob, Resolve, Reopen
<1> QED BY <1>1, <1>2, <1>3, <1>4

\* A reconciliation that commits writes its report over the table.
LEMMA SyncStep ==
    ASSUME TypeOK, NEW w \in Reconcilers, Sync(w)
    PROVE  /\ table \in Tables /\ report[w] \in Reports
           /\ pc[w] = "read" /\ table' = Synced(table, existing[w], report[w])
           /\ \A v \in Threads : v # w => pc'[v] = pc[v] /\ existing'[v] = existing[v]
           /\ pc'[w] = "check"
<1>1. w \in Threads
  BY DEF Threads
<1> QED BY <1>1, AppAssumption DEF Sync, Forget, TypeOK

\* Saving a note changes at most the note of its row.
LEMMA TriagedExact ==
    ASSUME NEW t \in Tables, NEW i \in Ids, NEW n \in Notes, NEW k \in Ids,
           Triaged(t, i, n)[k] # t[k]
    PROVE  k = i /\ Triaged(t, i, n)[k] = [t[k] EXCEPT !.note = n]
  BY DEF Triaged, Tables

\* A job that was about to save a note and goes on has saved it.
LEMMA SavedByTheJob ==
    ASSUME TypeOK, [Next]_vars, NEW j \in Jobs, jpc[j] = "save", jpc'[j] = "loop"
    PROVE  SaveNote(j)
<1> USE DEF TypeOK
<1>1. ~Crash
  BY DEF Crash
<1>2. jpc' # jpc
  OBVIOUS
<1>3. ASSUME NEW w \in Threads, StartJob(w) PROVE FALSE
  BY <1>3 DEF StartJob
<1>4. ASSUME NEW k \in Jobs, JobStep(k) \/ JobFails(k) PROVE SaveNote(j)
  <2>1. CASE k = j
    BY <1>4, <2>1 DEF JobStep, JobFails, LoadFails, LoadPending, BeginJob, Generate, GenerateFails, FinishJob
  <2>2. CASE k # j
    <3>1. jpc'[j] = jpc[j]
      BY <1>4, <2>2 DEF JobStep, JobFails, LoadFails, LoadPending, BeginJob, Generate,
                        GenerateFails, SaveNote, FinishJob
    <3> QED BY <3>1
  <2> QED BY <2>1, <2>2
<1>5. \/ jpc' = jpc \/ Crash \/ \E w \in Threads : StartJob(w)
      \/ \E k \in Jobs : JobStep(k) \/ JobFails(k)
  BY DEF Next, vars, jobVars, EditRules, Request, StartTriage, Reconcile, ReadExisting, Sync,
         SyncFails, AnswerFailure, PostTriage, CheckRunning, Resolve, Reopen
<1> QED BY <1>1, <1>2, <1>3, <1>4, <1>5

\* Re-running reconciliation clobbers no note and no resolution, and a job
\* writes nothing but its notes.
THEOREM NotesOutliveRuns == Spec => NothingClobbered
<1> DEFINE Stays == Present(table) \subseteq Present(table')
           RunsKeep == \A w \in Reconcilers : pc[w] = "read" /\ pc'[w] # pc[w] =>
                         \A i \in Present(table) : /\ table'[i].note = table[i].note
                                                   /\ table'[i].resolved = table[i].resolved
           JobsKeep == \A j \in Jobs : jpc[j] = "save" /\ jpc'[j] = "loop" =>
                         \A i \in Ids : table'[i] # table[i] =>
                            i = at[j] /\ table'[i] = [table[i] EXCEPT !.note = note[j]]
<1>1. ASSUME TypeOK, [Next]_vars PROVE Stays /\ RunsKeep
  <2>1. CASE \E w \in Reconcilers : Sync(w)
    <3>1. PICK w \in Reconcilers : Sync(w)
      BY <2>1
    <3>2. /\ \A i \in Ids : table'[i].note = table[i].note /\ table'[i].resolved = table[i].resolved
          /\ Present(table) \subseteq Present(table')
      BY <1>1, <3>1, SyncStep, SyncedFacts
    <3> QED BY <3>2 DEF Present
  <2>2. CASE \A w \in Reconcilers : ~Sync(w)
    <3>1. Present(table) = Present(table')
      BY <1>1, <2>2, OtherSteps DEF Existing
    <3>2. \A w \in Reconcilers : pc[w] = "read" /\ pc'[w] # pc[w] => UNCHANGED table
      BY <1>1, <2>2, OtherSteps DEF Threads
    <3> QED BY <3>1, <3>2
  <2> QED BY <2>1, <2>2
<1>2. ASSUME TypeOK, [Next]_vars PROVE JobsKeep
  <2> SUFFICES ASSUME NEW j \in Jobs, jpc[j] = "save", jpc'[j] = "loop", NEW i \in Ids, table'[i] # table[i]
               PROVE  i = at[j] /\ table'[i] = [table[i] EXCEPT !.note = note[j]]
    OBVIOUS
  <2>1. table' = Triaged(table, at[j], note[j])
    BY <1>2, SavedByTheJob DEF SaveNote
  <2>2. table \in Tables /\ at[j] \in Ids /\ note[j] \in Notes
    BY <1>2 DEF TypeOK
  <2> QED BY <2>1, <2>2, TriagedExact
<1>3. TypeOK /\ [Next]_vars => [Stays /\ RunsKeep /\ JobsKeep]_vars
  BY <1>1, <1>2
<1> QED BY <1>3, TypeCorrect, PTL DEF Spec, NothingClobbered

\* A thread that commits is a reconciliation synchronising its report.
LEMMA CommitIsSync ==
    ASSUME TypeOK, [Next]_vars, NEW w \in Threads, SyncCommits(w)
    PROVE  w \in Reconcilers /\ Sync(w)
<1>1. w \in Reconcilers
  BY DEF SyncCommits, TypeOK
<1>2. CASE \E v \in Reconcilers : Sync(v)
  BY <1>1, <1>2, SyncStep DEF SyncCommits
<1>3. CASE \A v \in Reconcilers : ~Sync(v)
  BY <1>3, OtherSteps DEF SyncCommits
<1> QED BY <1>1, <1>2, <1>3

\* However many reconciliations overlap, what one saw is active when it commits;
\* one that finds the table as it read it leaves exactly its report active; and
\* one fails only if the table changed under it or its report lists twice an id
\* the table does not have.
THEOREM SyncsSettle == Spec => SyncSettles
<1>1. ASSUME TypeOK, [Next]_vars, NEW w \in Threads, SyncCommits(w)
      PROVE  \A i \in Seen(report[w]) : i \in ActiveIds(table') /\ table'[i].det = report[w].det[i]
  BY <1>1, CommitIsSync, SyncStep, SyncedFacts
<1>2. ASSUME TypeOK, [Next]_vars, NEW w \in Threads, SyncCommits(w), existing[w] = Existing(table)
      PROVE  ActiveIds(table') = Seen(report[w])
  BY <1>2, CommitIsSync, SyncStep, SyncedExact
<1>3. ASSUME TypeOK, [Next]_vars, NEW w \in Threads, pc[w] = "read", pc'[w] = "failed"
      PROVE  \/ existing[w] # Existing(table)
             \/ (Seen(report[w]) \ Present(table)) \cap report[w].twice # {}
  <2>1. \A v \in Reconcilers : ~Sync(v)
    BY <1>3, SyncStep
  <2>2. SyncFails(w)
    BY <1>3, <2>1, OtherSteps
  <2>3. SyncCollides(table, existing[w], report[w])
    BY <2>2 DEF SyncFails
  <2>4. CASE (Seen(report[w]) \ existing[w].ids) \cap Present(table) # {}
    BY <2>4 DEF Existing
  <2>5. CASE (Seen(report[w]) \ existing[w].ids) \cap report[w].twice # {}
    BY <2>5 DEF Existing
  <2> QED BY <2>3, <2>4, <2>5 DEF SyncCollides
<1>4. TypeOK /\ [Next]_vars => [\A w \in Threads :
        /\ SyncCommits(w) =>
             \A i \in Seen(report[w]) : i \in ActiveIds(table') /\ table'[i].det = report[w].det[i]
        /\ SyncCommits(w) /\ existing[w] = Existing(table) => ActiveIds(table') = Seen(report[w])
        /\ pc[w] = "read" /\ pc'[w] = "failed" =>
             \/ existing[w] # Existing(table)
             \/ (Seen(report[w]) \ Present(table)) \cap report[w].twice # {}]_vars
  BY <1>1, <1>2, <1>3
<1> QED BY <1>4, TypeCorrect, PTL DEF Spec, SyncSettles

\* "running" is never left set without a job that will clear it.
THEOREM RunningIsOwned == Spec => []RunningHasJob
<1>1. Init => RunningHasJob
  BY DEF Init, RunningHasJob
<1>2. TypeOK /\ RunningHasJob /\ [Next]_vars => RunningHasJob'
  <2> SUFFICES ASSUME TypeOK, RunningHasJob, [Next]_vars PROVE RunningHasJob'
    OBVIOUS
  <2> USE DEF RunningHasJob, Working, TypeOK
  <2>1. CASE UNCHANGED <<running, jpc>>
    BY <2>1
  <2>2. CASE Crash
    BY <2>2 DEF Crash
  <2>3. ASSUME NEW w \in Threads, StartJob(w) PROVE RunningHasJob'
    BY <2>3 DEF StartJob
  <2>4. ASSUME NEW j \in Jobs,
               LoadFails(j) \/ LoadPending(j) \/ BeginJob(j) \/ SaveNote(j) \/ FinishJob(j)
        PROVE RunningHasJob'
    BY <2>4 DEF LoadFails, LoadPending, BeginJob, SaveNote, FinishJob
  <2>5. ASSUME NEW j \in Jobs, NEW i \in Ids, Generate(j, i) \/ GenerateFails(j, i)
        PROVE RunningHasJob'
    BY <2>5 DEF Generate, GenerateFails
  <2>6. \/ UNCHANGED <<running, jpc>> \/ Crash \/ \E w \in Threads : StartJob(w)
        \/ \E j \in Jobs : \/ LoadFails(j) \/ LoadPending(j) \/ BeginJob(j)
                            \/ SaveNote(j) \/ FinishJob(j)
        \/ \E j \in Jobs, i \in Ids : Generate(j, i) \/ GenerateFails(j, i)
    BY DEF Next, vars, jobVars, EditRules, Request, StartTriage, Reconcile, ReadExisting, Sync,
           SyncFails, AnswerFailure, PostTriage, CheckRunning, JobStep, JobFails, Resolve, Reopen
  <2> QED BY <2>1, <2>2, <2>3, <2>4, <2>5, <2>6
<1> QED BY <1>1, <1>2, TypeCorrect, PTL DEF Spec

-----------------------------------------------------------------------------
(* A job ends.                                                               *)

\* The steps a job has left, at most.
JobLeft(place, todo) ==
    CASE place = "load" -> 2 * Cardinality(Ids) + 3
      [] place = "begin" -> 2 * Cardinality(todo) + 2
      [] place = "loop" -> 2 * Cardinality(todo) + 1
      [] place = "save" -> 2 * Cardinality(todo) + 2
      [] place = "off" -> 0
Left(j) == JobLeft(jpc[j], Waiting(j))

\* A row taken from a job's list is one fewer in it, the other lists are left.
LEMMA RowTaken ==
    ASSUME TypeOK, IsFiniteSet(Ids), NEW j \in Jobs, NEW i \in Ids, i \in Waiting(j),
           queue' = [queue EXCEPT ![j][i] = NoVersion]
    PROVE  /\ \A k \in Jobs : k # j => Waiting(k)' = Waiting(k)
           /\ Cardinality(Waiting(j)') = Cardinality(Waiting(j)) - 1
           /\ Cardinality(Waiting(j)) \in Nat \ {0}
           /\ Cardinality(Waiting(j)') \in Nat
<1>1. Waiting(j)' = Waiting(j) \ {i}
  BY DEF Waiting, TypeOK
<1>2. \A k \in Jobs : k # j => Waiting(k)' = Waiting(k)
  BY DEF Waiting, TypeOK
<1>3. IsFiniteSet(Waiting(j))
  BY FS_Subset DEF Waiting
<1>4. /\ Cardinality(Waiting(j) \ {i}) = Cardinality(Waiting(j)) - 1
      /\ Cardinality(Waiting(j)) \in Nat /\ Cardinality(Waiting(j) \ {i}) \in Nat
  BY <1>3, FS_RemoveElement, FS_CardinalityType
<1> HIDE DEF Waiting
<1> QED BY <1>1, <1>2, <1>4

\* How many rows a list can have.
LEMMA ListsAreShort ==
    ASSUME IsFiniteSet(Ids), NEW A \in SUBSET Ids
    PROVE  Cardinality(A) \in Nat /\ Cardinality(Ids) \in Nat /\ Cardinality(A) <= Cardinality(Ids)
  BY FS_Subset, FS_CardinalityType

\* What is left is a number.
LEMMA LeftIsNat ==
    ASSUME IsFiniteSet(Ids), NEW A \in SUBSET Ids, NEW place \in {"off", "load", "begin", "loop", "save"}
    PROVE  JobLeft(place, A) \in Nat
  BY ListsAreShort DEF JobLeft

\* A step of a job takes from what the job has left, and leaves the other jobs.
LEMMA JobMovesOn ==
    ASSUME TypeOK, IsFiniteSet(Ids), NEW j \in Jobs, JobStep(j) \/ JobFails(j)
    PROVE  /\ Left(j)' < Left(j)
           /\ \A k \in Jobs : k # j => Left(k)' = Left(k)
<1> DEFINE Others == \A k \in Jobs : k # j => jpc'[k] = jpc[k] /\ Waiting(k)' = Waiting(k)
<1>1. ASSUME Others PROVE \A k \in Jobs : k # j => Left(k)' = Left(k)
  BY <1>1 DEF Left
<1>2. /\ Cardinality(Waiting(j)) \in Nat /\ Cardinality(Ids) \in Nat
      /\ Waiting(j)' \in SUBSET Ids
      /\ Cardinality(Waiting(j)') \in Nat /\ Cardinality(Waiting(j)') <= Cardinality(Ids)
  <2>1. Waiting(j) \in SUBSET Ids /\ Waiting(j)' \in SUBSET Ids
    BY DEF Waiting
  <2> QED BY <2>1, ListsAreShort
<1> DEFINE n == Cardinality(Waiting(j))
           m == Cardinality(Waiting(j)')
<1>3. Left(j) = JobLeft(jpc[j], Waiting(j)) /\ Left(j)' = JobLeft(jpc'[j], Waiting(j)')
  BY DEF Left
<1>4. ASSUME UNCHANGED queue PROVE Waiting(j)' = Waiting(j) /\ \A k \in Jobs : Waiting(k)' = Waiting(k)
  BY <1>4 DEF Waiting
<1>5. ASSUME UNCHANGED queue, NEW to, jpc' = [jpc EXCEPT ![j] = to]
      PROVE  Others /\ jpc'[j] = to /\ m = n
  BY <1>4, <1>5 DEF TypeOK
<1> HIDE DEF n, m
<1>6. n \in Nat /\ m \in Nat /\ m <= Cardinality(Ids) /\ Cardinality(Ids) \in Nat
  BY <1>2 DEF n, m
<1>7. CASE LoadFails(j)
  <2>1. jpc[j] = "load" /\ UNCHANGED queue /\ jpc' = [jpc EXCEPT ![j] = "off"]
    BY <1>7 DEF LoadFails
  <2>2. Others /\ jpc'[j] = "off"
    BY <1>5, <2>1
  <2>3. Left(j) = 2 * Cardinality(Ids) + 3 /\ Left(j)' = 0
    BY <1>3, <2>1, <2>2 DEF JobLeft
  <2> QED BY <1>1, <1>6, <2>2, <2>3
<1>8. CASE LoadPending(j)
  <2>1. /\ jpc[j] = "load" /\ jpc'[j] = "begin"
        /\ \A k \in Jobs : k # j => jpc'[k] = jpc[k] /\ queue'[k] = queue[k]
    BY <1>8 DEF LoadPending, TypeOK
  <2>2. Others
    BY <2>1 DEF Waiting
  <2>3. Left(j) = 2 * Cardinality(Ids) + 3 /\ Left(j)' = 2 * m + 2
    BY <1>3, <2>1 DEF JobLeft, m
  <2> QED BY <1>1, <1>6, <2>2, <2>3
<1>9. CASE BeginJob(j)
  <2>1. jpc[j] = "begin" /\ UNCHANGED queue /\ jpc' = [jpc EXCEPT ![j] = "loop"]
    BY <1>9 DEF BeginJob
  <2>2. Others /\ jpc'[j] = "loop" /\ m = n
    BY <1>5, <2>1
  <2>3. Left(j) = 2 * n + 2 /\ Left(j)' = 2 * m + 1
    BY <1>3, <2>1, <2>2 DEF JobLeft, m, n
  <2> QED BY <1>1, <1>6, <2>2, <2>3
<1>10. CASE SaveNote(j)
  <2>1. jpc[j] = "save" /\ UNCHANGED queue /\ jpc' = [jpc EXCEPT ![j] = "loop"]
    BY <1>10 DEF SaveNote
  <2>2. Others /\ jpc'[j] = "loop" /\ m = n
    BY <1>5, <2>1
  <2>3. Left(j) = 2 * n + 2 /\ Left(j)' = 2 * m + 1
    BY <1>3, <2>1, <2>2 DEF JobLeft, m, n
  <2> QED BY <1>1, <1>6, <2>2, <2>3
<1>11. CASE FinishJob(j)
  <2>1. jpc[j] = "loop" /\ UNCHANGED queue /\ jpc' = [jpc EXCEPT ![j] = "off"]
    BY <1>11 DEF FinishJob
  <2>2. Others /\ jpc'[j] = "off"
    BY <1>5, <2>1
  <2>3. Left(j) = 2 * n + 1 /\ Left(j)' = 0
    BY <1>3, <2>1, <2>2 DEF JobLeft, n
  <2> QED BY <1>1, <1>6, <2>2, <2>3
<1>12. ASSUME NEW i \in Ids, Generate(j, i) PROVE Left(j)' < Left(j) /\ Others
  <2>1. /\ i \in Waiting(j) /\ queue' = [queue EXCEPT ![j][i] = NoVersion]
        /\ jpc[j] = "loop" /\ jpc'[j] = "save" /\ \A k \in Jobs : k # j => jpc'[k] = jpc[k]
    BY <1>12 DEF Generate, TypeOK
  <2>2. Others /\ m = n - 1
    BY <2>1, RowTaken DEF m, n
  <2>3. Left(j) = 2 * n + 1 /\ Left(j)' = 2 * m + 2
    BY <1>3, <2>1 DEF JobLeft, m, n
  <2> QED BY <1>6, <2>2, <2>3
<1>13. ASSUME NEW i \in Ids, GenerateFails(j, i) PROVE Left(j)' < Left(j) /\ Others
  <2>1. /\ i \in Waiting(j) /\ queue' = [queue EXCEPT ![j][i] = NoVersion]
        /\ jpc[j] = "loop" /\ jpc' = jpc
    BY <1>13 DEF GenerateFails
  <2>2. Others /\ m = n - 1
    BY <2>1, RowTaken DEF m, n
  <2>3. Left(j) = 2 * n + 1 /\ Left(j)' = 2 * m + 1
    BY <1>3, <2>1 DEF JobLeft, m, n
  <2> QED BY <1>6, <2>2, <2>3
<1> HIDE DEF Others
<1> QED BY <1>1, <1>7, <1>8, <1>9, <1>10, <1>11, <1>12, <1>13 DEF JobStep, JobFails

\* What else happens to a job: it is started, if it was off, or ends in a crash.
LEMMA JobsLeftAlone ==
    ASSUME TypeOK, [Next]_vars, \A j \in Jobs : ~(JobStep(j) \/ JobFails(j)), ~Crash
    PROVE  \A j \in Jobs : jpc[j] # "off" => Left(j)' = Left(j)
<1>1. CASE UNCHANGED <<jpc, queue>>
  BY <1>1 DEF Left, Waiting
<1>2. ASSUME NEW w \in Threads, StartJob(w)
      PROVE  UNCHANGED queue /\ \A j \in Jobs : jpc[j] # "off" => jpc'[j] = jpc[j]
  BY <1>2 DEF StartJob, TypeOK
<1>3. ASSUME NEW w \in Threads, StartJob(w)
      PROVE  \A j \in Jobs : jpc[j] # "off" => Left(j)' = Left(j)
  BY <1>2, <1>3 DEF Left, Waiting
<1>4. UNCHANGED <<jpc, queue>> \/ \E w \in Threads : StartJob(w)
  BY DEF Next, vars, jobVars, EditRules, Request, StartTriage, Reconcile, ReadExisting, Sync,
         SyncFails, AnswerFailure, PostTriage, CheckRunning, Resolve, Reopen
<1> QED BY <1>1, <1>3, <1>4

\* A job ends, however many rows it fails on: what it has left is a number that
\* each of its steps lowers and that no other job, request or click raises.
THEOREM JobIsBounded ==
    ASSUME IsFiniteSet(Ids)
    PROVE  Spec => /\ [](\A j \in Jobs : Left(j) \in Nat)
                   /\ [][\A j \in Jobs :
                            /\ jpc[j] # "off" => Left(j)' <= Left(j)
                            /\ JobStep(j) \/ JobFails(j) => Left(j)' < Left(j)]_vars
<1>1. TypeOK => \A j \in Jobs : Left(j) \in Nat
  <2> SUFFICES ASSUME TypeOK, NEW j \in Jobs PROVE Left(j) \in Nat
    OBVIOUS
  <2> QED BY LeftIsNat DEF TypeOK, Left, Waiting
<1>2. ASSUME TypeOK, TypeOK', [Next]_vars, NEW j \in Jobs
      PROVE  /\ jpc[j] # "off" => Left(j)' <= Left(j)
             /\ JobStep(j) \/ JobFails(j) => Left(j)' < Left(j)
  <2>1. Left(j) \in Nat /\ Left(j)' \in Nat
    <3>1. Left(j)' = JobLeft(jpc'[j], Waiting(j)') /\ Waiting(j)' \in SUBSET Ids
      BY DEF Left, Waiting
    <3>2. jpc'[j] \in {"off", "load", "begin", "loop", "save"}
      BY <1>2 DEF TypeOK
    <3> QED BY <1>1, <1>2, <3>1, <3>2, LeftIsNat
  <2>2. JobStep(j) \/ JobFails(j) => Left(j)' < Left(j)
    BY <1>2, JobMovesOn
  <2>3. ASSUME NEW k \in Jobs, JobStep(k) \/ JobFails(k) PROVE Left(j)' <= Left(j)
    BY <1>2, <2>1, <2>3, JobMovesOn
  <2>4. CASE Crash
    <3>1. jpc'[j] = "off"
      BY <2>4 DEF Crash
    <3>2. Left(j)' = 0
      BY <3>1 DEF Left, JobLeft
    <3> QED BY <2>1, <2>2, <3>2
  <2>5. CASE ~Crash /\ \A k \in Jobs : ~(JobStep(k) \/ JobFails(k))
    <3>1. jpc[j] # "off" => Left(j)' = Left(j)
      BY <1>2, <2>5, JobsLeftAlone
    <3> QED BY <2>1, <2>2, <3>1
  <2> QED BY <2>1, <2>2, <2>3, <2>4, <2>5
<1>3. TypeOK /\ TypeOK' /\ [Next]_vars =>
        [\A j \in Jobs : /\ jpc[j] # "off" => Left(j)' <= Left(j)
                         /\ JobStep(j) \/ JobFails(j) => Left(j)' < Left(j)]_vars
  BY <1>2
<1> QED BY <1>1, <1>3, TypeCorrect, PTL DEF Spec

-----------------------------------------------------------------------------
\* One reconciliation at a time.
OneReconciler == \A v, w \in Reconcilers : v = w

\* What a reconciliation read is still what the table holds.
ReadIsFresh == \A w \in Reconcilers : pc[w] = "read" => existing[w] = Existing(table)

LEMMA Freshness ==
    ASSUME OneReconciler
    PROVE  Spec => []ReadIsFresh
<1>1. Init => ReadIsFresh
  BY DEF Init, ReadIsFresh, Threads
<1>2. TypeOK /\ ReadIsFresh /\ [Next]_vars => ReadIsFresh'
  <2> SUFFICES ASSUME TypeOK, ReadIsFresh, [Next]_vars,
                      NEW w \in Reconcilers, pc'[w] = "read"
               PROVE  existing'[w] = Existing(table')
    BY DEF ReadIsFresh, Existing, Present, ActiveIds
  <2>1. ~Sync(w)
    BY SyncStep
  <2>2. \A v \in Reconcilers : ~Sync(v)
    BY <2>1 DEF OneReconciler
  <2> QED BY <2>2, OtherSteps DEF ReadIsFresh, Threads
<1> QED BY <1>1, <1>2, TypeCorrect, PTL DEF Spec

\* With one reconciliation at a time, the active rows after it commits are
\* exactly the rows it reported.
THEOREM SyncIsExact ==
    ASSUME OneReconciler
    PROVE  Spec => SyncExact
<1>1. ASSUME TypeOK, ReadIsFresh, [Next]_vars, NEW w \in Threads, SyncCommits(w)
      PROVE  /\ ActiveIds(table') = Seen(report[w])
             /\ \A i \in Seen(report[w]) : table'[i].det = report[w].det[i]
  <2>1. w \in Reconcilers /\ Sync(w)
    BY <1>1, CommitIsSync
  <2>2. existing[w] = Existing(table)
    BY <1>1, <2>1, SyncStep DEF ReadIsFresh
  <2> QED BY <1>1, <2>1, <2>2, SyncStep, SyncedFacts, SyncedExact
<1>2. TypeOK /\ ReadIsFresh /\ [Next]_vars =>
        [\A w \in Threads : SyncCommits(w) =>
            /\ ActiveIds(table') = Seen(report[w])
            /\ \A i \in Seen(report[w]) : table'[i].det = report[w].det[i]]_vars
  BY <1>1
<1> QED BY <1>2, TypeCorrect, Freshness, PTL DEF Spec, SyncExact

-----------------------------------------------------------------------------
(* The rules of reconciliation.                                               *)

\* Both files are sequences of rows, and finite, so that sums over them exist.
FilesInv ==
    /\ platform \in Seq(FileRows) /\ Len(platform) <= MaxRows
    /\ bank \in Seq(FileRows) /\ Len(bank) <= MaxRows

LEMMA FilesGrow == FilesSpec => []FilesInv
<1>1. FilesInit => FilesInv
  BY RulesAssumption DEF FilesInit, FilesInv
<1>2. FilesInv /\ [FilesNext]_fileVars => FilesInv'
  <2> SUFFICES ASSUME FilesInv, [FilesNext]_fileVars PROVE FilesInv'
    OBVIOUS
  <2>1. CASE UNCHANGED fileVars
    BY <2>1 DEF FilesInv, fileVars
  <2>2. CASE \E row \in FileRows : Settle(row)
    BY <2>2, RulesAssumption DEF FilesInv, Settle
  <2>3. CASE \E row \in FileRows : Credit(row)
    BY <2>3, RulesAssumption DEF FilesInv, Credit
  <2> QED BY <2>1, <2>2, <2>3 DEF FilesNext
<1> QED BY <1>1, <1>2, PTL DEF FilesSpec

\* What the files hold.
LEMMA FileFacts ==
    ASSUME FilesInv
    PROVE  /\ Len(platform) \in Nat /\ DOMAIN platform = 1 .. Len(platform) /\ IsFiniteSet(DOMAIN platform)
           /\ Len(bank) \in Nat /\ DOMAIN bank = 1 .. Len(bank) /\ IsFiniteSet(DOMAIN bank)
           /\ \A i \in DOMAIN platform : /\ platform[i].txn \in Txns
                                         /\ platform[i].amount \in Int /\ platform[i].at \in Int
           /\ \A j \in DOMAIN bank : /\ bank[j].txn \in Txns
                                     /\ bank[j].amount \in Int /\ bank[j].at \in Int
<1>1. /\ Len(platform) \in Nat /\ DOMAIN platform = 1 .. Len(platform)
      /\ Len(bank) \in Nat /\ DOMAIN bank = 1 .. Len(bank)
  BY DEF FilesInv
<1>2. IsFiniteSet(DOMAIN platform) /\ IsFiniteSet(DOMAIN bank)
  BY <1>1, FS_Interval
<1>3. (\A i \in DOMAIN platform : platform[i] \in FileRows) /\ (\A j \in DOMAIN bank : bank[j] \in FileRows)
  BY DEF FilesInv
<1> QED BY <1>1, <1>2, <1>3, RulesAssumption DEF FileRows

LEMMA RowsAreFew ==
    ASSUME FilesInv, NEW t
    PROVE  /\ RowsOf(platform, t) \subseteq DOMAIN platform /\ IsFiniteSet(RowsOf(platform, t))
           /\ RowsOf(bank, t) \subseteq DOMAIN bank /\ IsFiniteSet(RowsOf(bank, t))
           /\ Cardinality(RowsOf(platform, t)) \in Nat /\ Cardinality(RowsOf(bank, t)) \in Nat
<1>1. RowsOf(platform, t) \subseteq DOMAIN platform /\ RowsOf(bank, t) \subseteq DOMAIN bank
  BY DEF RowsOf
<1>2. IsFiniteSet(RowsOf(platform, t)) /\ IsFiniteSet(RowsOf(bank, t))
  BY <1>1, FileFacts, FS_Subset
<1> QED BY <1>1, <1>2, FS_CardinalityType

\* The reports of a transaction, and what each rule says of its rows.
ReportsOf(t) == {r \in reconcile : r.txn = t}
DuplicateOf(t) == Report("DUPLICATE_IN_BANK", t, Total(bank, RowsOf(bank, t)) - Expected(t), 0, 0)
NotInBank(t, i) == Report("MISSING_IN_BANK", t, -platform[i].amount, 0, i)
NotInPlatform(t, j) == Report("MISSING_IN_PLATFORM", t, bank[j].amount, 0, j)
Differs(type, t, i, j) == Report(type, t, Delta(<<i, j>>), Delay(<<i, j>>), i)

\* A transaction's reports are made of its own rows, by the five rules.
LEMMA RulesByTransaction ==
    ASSUME FilesInv, NEW t \in Txns, NEW r
    PROVE  r \in ReportsOf(t) <=>
             \/ t \in dup_txns /\ r = DuplicateOf(t)
             \/ RowsOf(bank, t) = {} /\ \E i \in RowsOf(platform, t) : r = NotInBank(t, i)
             \/ RowsOf(platform, t) = {} /\ \E j \in RowsOf(bank, t) : r = NotInPlatform(t, j)
             \/ t \notin dup_txns /\ \E i \in RowsOf(platform, t), j \in RowsOf(bank, t) :
                  Off(<<i, j>>) /\ r = Differs("AMOUNT_MISMATCH", t, i, j)
             \/ t \notin dup_txns /\ \E i \in RowsOf(platform, t), j \in RowsOf(bank, t) :
                  ~Off(<<i, j>>) /\ Delay(<<i, j>>) > late_h /\ r = Differs("TIMING_MISMATCH", t, i, j)
<1>1. r \in Duplicates /\ r.txn = t <=> t \in dup_txns /\ r = DuplicateOf(t)
  <2>1. r \in Duplicates /\ r.txn = t => t \in dup_txns /\ r = DuplicateOf(t)
    BY DEF Duplicates, DuplicateOf, Report
  <2>2. t \in dup_txns /\ r = DuplicateOf(t) => r \in Duplicates /\ r.txn = t
    BY DEF Duplicates, DuplicateOf, Report
  <2> QED BY <2>1, <2>2
<1>2. r \in MissingInBank /\ r.txn = t <=>
        RowsOf(bank, t) = {} /\ \E i \in RowsOf(platform, t) : r = NotInBank(t, i)
  BY DEF MissingInBank, NotInBank, Report, RowsOf
<1>3. r \in MissingInPlatform /\ r.txn = t <=>
        RowsOf(platform, t) = {} /\ \E j \in RowsOf(bank, t) : r = NotInPlatform(t, j)
  BY DEF MissingInPlatform, NotInPlatform, Report, RowsOf
<1>4. \A m \in Matches : m = <<m[1], m[2]>> /\ m[1] \in DOMAIN platform /\ m[2] \in DOMAIN bank
                         /\ platform[m[1]].txn = bank[m[2]].txn /\ bank[m[2]].txn \notin dup_txns
  BY DEF Matches
<1>5. t \notin dup_txns => \A i \in RowsOf(platform, t), j \in RowsOf(bank, t) :
          <<i, j>> \in Matches /\ platform[i].txn = t
  BY DEF Matches, RowsOf
<1>6. r \in Mismatches /\ r.txn = t <=>
        t \notin dup_txns /\ \E i \in RowsOf(platform, t), j \in RowsOf(bank, t) :
          Off(<<i, j>>) /\ r = Differs("AMOUNT_MISMATCH", t, i, j)
  <2>1. ASSUME r \in Mismatches, r.txn = t
        PROVE  t \notin dup_txns /\ \E i \in RowsOf(platform, t), j \in RowsOf(bank, t) :
                 Off(<<i, j>>) /\ r = Differs("AMOUNT_MISMATCH", t, i, j)
    <3>1. PICK m \in Matches : Off(m) /\ r = Report("AMOUNT_MISMATCH", platform[m[1]].txn, Delta(m), Delay(m), m[1])
      BY <2>1 DEF Mismatches
    <3>2. platform[m[1]].txn = t
      BY <2>1, <3>1 DEF Report
    <3>3. m[1] \in RowsOf(platform, t) /\ m[2] \in RowsOf(bank, t) /\ t \notin dup_txns /\ m = <<m[1], m[2]>>
      BY <1>4, <3>2 DEF RowsOf
    <3> QED BY <3>1, <3>2, <3>3 DEF Differs
  <2>2. ASSUME t \notin dup_txns,
               NEW i \in RowsOf(platform, t), NEW j \in RowsOf(bank, t),
               Off(<<i, j>>), r = Differs("AMOUNT_MISMATCH", t, i, j)
        PROVE  r \in Mismatches /\ r.txn = t
    <3>1. <<i, j>> \in Matches /\ platform[i].txn = t
      BY <1>5, <2>2
    <3>2. r = Report("AMOUNT_MISMATCH", platform[<<i, j>>[1]].txn, Delta(<<i, j>>), Delay(<<i, j>>), <<i, j>>[1])
      BY <2>2, <3>1 DEF Differs
    <3>3. r \in Mismatches
      BY <2>2, <3>1, <3>2 DEF Mismatches
    <3> QED BY <2>2, <3>3 DEF Differs, Report
  <2> QED BY <2>1, <2>2
<1>7. r \in Late /\ r.txn = t <=>
        t \notin dup_txns /\ \E i \in RowsOf(platform, t), j \in RowsOf(bank, t) :
          ~Off(<<i, j>>) /\ Delay(<<i, j>>) > late_h /\ r = Differs("TIMING_MISMATCH", t, i, j)
  <2>1. ASSUME r \in Late, r.txn = t
        PROVE  t \notin dup_txns /\ \E i \in RowsOf(platform, t), j \in RowsOf(bank, t) :
                 ~Off(<<i, j>>) /\ Delay(<<i, j>>) > late_h /\ r = Differs("TIMING_MISMATCH", t, i, j)
    <3>1. PICK m \in Matches : /\ ~Off(m) /\ Delay(m) > late_h
                               /\ r = Report("TIMING_MISMATCH", platform[m[1]].txn, Delta(m), Delay(m), m[1])
      BY <2>1 DEF Late
    <3>2. platform[m[1]].txn = t
      BY <2>1, <3>1 DEF Report
    <3>3. m[1] \in RowsOf(platform, t) /\ m[2] \in RowsOf(bank, t) /\ t \notin dup_txns /\ m = <<m[1], m[2]>>
      BY <1>4, <3>2 DEF RowsOf
    <3> QED BY <3>1, <3>2, <3>3 DEF Differs
  <2>2. ASSUME t \notin dup_txns,
               NEW i \in RowsOf(platform, t), NEW j \in RowsOf(bank, t),
               ~Off(<<i, j>>), Delay(<<i, j>>) > late_h, r = Differs("TIMING_MISMATCH", t, i, j)
        PROVE  r \in Late /\ r.txn = t
    <3>1. <<i, j>> \in Matches /\ platform[i].txn = t
      BY <1>5, <2>2
    <3>2. r = Report("TIMING_MISMATCH", platform[<<i, j>>[1]].txn, Delta(<<i, j>>), Delay(<<i, j>>), <<i, j>>[1])
      BY <2>2, <3>1 DEF Differs
    <3>3. r \in Late
      BY <2>2, <3>1, <3>2 DEF Late
    <3> QED BY <2>2, <3>3 DEF Differs, Report
  <2> QED BY <2>1, <2>2
<1>8. r \in ReportsOf(t) <=>
        \/ r \in Duplicates /\ r.txn = t
        \/ r \in MissingInBank /\ r.txn = t
        \/ r \in MissingInPlatform /\ r.txn = t
        \/ r \in Mismatches /\ r.txn = t
        \/ r \in Late /\ r.txn = t
  BY DEF ReportsOf, reconcile
<1> QED BY <1>1, <1>2, <1>3, <1>6, <1>7, <1>8

\* None, one, or more rows.
LEMMA HowMany ==
    ASSUME FilesInv, NEW t \in Txns
    PROVE  /\ Cardinality(RowsOf(platform, t)) <= 1 =>
                RowsOf(platform, t) = {} \/ \E i : RowsOf(platform, t) = {i}
           /\ t \notin dup_txns => RowsOf(bank, t) = {} \/ \E j : RowsOf(bank, t) = {j}
           /\ \A j : RowsOf(bank, t) = {j} => t \notin dup_txns /\ Cardinality(RowsOf(bank, t)) = 1
           /\ RowsOf(bank, t) = {} => t \notin dup_txns /\ Cardinality(RowsOf(bank, t)) = 0
<1>1. \A S : IsFiniteSet(S) => /\ Cardinality(S) \in Nat
                               /\ Cardinality(S) = 0 <=> S = {}
                               /\ Cardinality(S) = 1 <=> \E x : S = {x}
  BY FS_EmptySet, FS_Singleton, FS_CardinalityType
<1>2. /\ IsFiniteSet(RowsOf(platform, t)) /\ IsFiniteSet(RowsOf(bank, t))
      /\ t \in dup_txns <=> Cardinality(RowsOf(bank, t)) > 1
  BY RowsAreFew DEF dup_txns
<1> QED BY <1>1, <1>2
\* The amounts and times of a pair of rows, in order or not.
LEMMA PairFacts ==
    ASSUME FilesInv, NEW t, NEW i \in RowsOf(platform, t), NEW j \in RowsOf(bank, t)
    PROVE  /\ Delta(<<i, j>>) = bank[j].amount - platform[i].amount
           /\ Delta(<<i, j>>) \in Int /\ Delay(<<i, j>>) \in Int
           /\ Off(<<i, j>>) <=> \/ Delta(<<i, j>>) > tol
                                \/ -Delta(<<i, j>>) > tol
           /\ ~Off(<<i, j>>) /\ ~(Delay(<<i, j>>) > late_h) <=>
                /\ platform[i].amount - tol <= bank[j].amount
                /\ bank[j].amount <= platform[i].amount + tol
                /\ bank[j].at <= platform[i].at + late_h
<1>1. /\ platform[i].amount \in Int /\ platform[i].at \in Int
      /\ bank[j].amount \in Int /\ bank[j].at \in Int
  BY RowsAreFew, FileFacts
<1>2. /\ Delta(<<i, j>>) = bank[j].amount - platform[i].amount
      /\ Delay(<<i, j>>) = bank[j].at - platform[i].at
  BY DEF Delta, Delay
<1>3. Off(<<i, j>>) <=> Delta(<<i, j>>) > tol \/ -Delta(<<i, j>>) > tol
  BY <1>1, <1>2, RulesAssumption DEF Off, Abs
<1> QED BY <1>1, <1>2, <1>3, RulesAssumption

\* A transaction has no report exactly when it is in order.
LEMMA SilentIfInOrder ==
    ASSUME FilesInv, NEW t \in Txns, Known(t)
    PROVE  ReportsOf(t) = {} <=> RowsOf(platform, t) # {} /\ Once(bank, t) /\ Agrees(t)
<1>1. CASE t \in dup_txns
  <2>1. DuplicateOf(t) \in ReportsOf(t)
    BY <1>1, RulesByTransaction
  <2>2. ~Once(bank, t)
    BY <1>1, RowsAreFew DEF dup_txns, Once
  <2> QED BY <2>1, <2>2
<1>2. CASE RowsOf(bank, t) = {}
  <2>1. PICK i \in RowsOf(platform, t) : TRUE
    BY <1>2 DEF Known
  <2>2. NotInBank(t, i) \in ReportsOf(t)
    BY <1>2, <2>1, RulesByTransaction
  <2>3. ~Once(bank, t)
    BY <1>2, HowMany DEF Once
  <2> QED BY <2>2, <2>3
<1>3. CASE RowsOf(platform, t) = {}
  <2>1. PICK j \in RowsOf(bank, t) : TRUE
    BY <1>3 DEF Known
  <2>2. NotInPlatform(t, j) \in ReportsOf(t)
    BY <1>3, <2>1, RulesByTransaction
  <2> QED BY <1>3, <2>2
<1>4. CASE t \notin dup_txns /\ RowsOf(bank, t) # {} /\ RowsOf(platform, t) # {}
  <2>1. Once(bank, t)
    BY <1>4, HowMany DEF Once
  <2>2. ASSUME ReportsOf(t) = {}, NEW i \in RowsOf(platform, t), NEW j \in RowsOf(bank, t)
        PROVE  ~Off(<<i, j>>) /\ ~(Delay(<<i, j>>) > late_h)
    <3>1. Differs("AMOUNT_MISMATCH", t, i, j) \notin ReportsOf(t)
      BY <2>2
    <3>2. ~Off(<<i, j>>)
      BY <1>4, <3>1, RulesByTransaction
    <3>3. Differs("TIMING_MISMATCH", t, i, j) \notin ReportsOf(t)
      BY <2>2
    <3> QED BY <1>4, <3>2, <3>3, RulesByTransaction
  <2>3. ASSUME \A i \in RowsOf(platform, t), j \in RowsOf(bank, t) :
                  ~Off(<<i, j>>) /\ ~(Delay(<<i, j>>) > late_h)
        PROVE  ReportsOf(t) = {}
    <3> SUFFICES ASSUME NEW r \in ReportsOf(t) PROVE FALSE
      OBVIOUS
    <3> QED BY <1>4, <2>3, RulesByTransaction
  <2>4. ReportsOf(t) = {} <=> \A i \in RowsOf(platform, t), j \in RowsOf(bank, t) :
                                 ~Off(<<i, j>>) /\ ~(Delay(<<i, j>>) > late_h)
    BY <2>2, <2>3
  <2>5. Agrees(t) <=> \A i \in RowsOf(platform, t), j \in RowsOf(bank, t) :
                         ~Off(<<i, j>>) /\ ~(Delay(<<i, j>>) > late_h)
    BY PairFacts DEF Agrees
  <2> QED BY <1>4, <2>1, <2>4, <2>5
<1> QED BY <1>1, <1>2, <1>3, <1>4

\* A transaction settled once at most has one report at most, and its delta is
\* the difference of the two files; with none, they differ by the tolerance.
SumsOf(t) == Total(bank, RowsOf(bank, t)) - Total(platform, RowsOf(platform, t))

LEMMA TotalOfOne ==
    ASSUME FilesInv, NEW t
    PROVE  /\ RowsOf(platform, t) = {} => Total(platform, RowsOf(platform, t)) = 0
           /\ RowsOf(bank, t) = {} => Total(bank, RowsOf(bank, t)) = 0
           /\ \A i : RowsOf(platform, t) = {i} => /\ Total(platform, RowsOf(platform, t)) = platform[i].amount
                                                  /\ Expected(t) = platform[i].amount
                                                  /\ platform[i].amount \in Int
           /\ \A j : RowsOf(bank, t) = {j} => /\ Total(bank, RowsOf(bank, t)) = bank[j].amount
                                              /\ bank[j].amount \in Int
           /\ Total(platform, RowsOf(platform, t)) \in Int /\ Total(bank, RowsOf(bank, t)) \in Int
<1> DEFINE p == [i \in DOMAIN platform |-> platform[i].amount]
           b == [j \in DOMAIN bank |-> bank[j].amount]
<1>1. /\ \A i \in DOMAIN platform : p[i] = platform[i].amount /\ p[i] \in Int
      /\ \A j \in DOMAIN bank : b[j] = bank[j].amount /\ b[j] \in Int
  BY FileFacts
<1>2. /\ \A S : Total(platform, S) = SumOver(p, S)
      /\ \A S : Total(bank, S) = SumOver(b, S)
  BY DEF Total
<1> HIDE DEF p, b
<1>3. \A i : RowsOf(platform, t) = {i} => i \in DOMAIN platform
  BY RowsAreFew
<1>4. \A j : RowsOf(bank, t) = {j} => j \in DOMAIN bank
  BY RowsAreFew
<1>5. \A i : RowsOf(platform, t) = {i} => Expected(t) = platform[i].amount
  <2> SUFFICES ASSUME NEW i, RowsOf(platform, t) = {i} PROVE Expected(t) = platform[i].amount
    OBVIOUS
  <2>1. i \in Int
    BY <1>3, FileFacts
  <2>2. Min({i}) = i
    BY <2>1 DEF Min
  <2> QED BY <2>2 DEF Expected
<1>6. SumOver(p, RowsOf(platform, t)) \in Int /\ SumOver(b, RowsOf(bank, t)) \in Int
  <2>1. SumOver(p, RowsOf(platform, t)) \in Int
    BY <1>1, RowsAreFew, SumType
  <2>2. SumOver(b, RowsOf(bank, t)) \in Int
    BY <1>1, RowsAreFew, SumType
  <2> QED BY <2>1, <2>2
<1>7. (RowsOf(platform, t) = {} => Total(platform, RowsOf(platform, t)) = 0)
      /\ (RowsOf(bank, t) = {} => Total(bank, RowsOf(bank, t)) = 0)
  BY <1>2, SumEmpty
<1>8. ASSUME NEW i, RowsOf(platform, t) = {i}
      PROVE  Total(platform, RowsOf(platform, t)) = platform[i].amount /\ platform[i].amount \in Int
  <2>1. p[i] = platform[i].amount /\ p[i] \in Int
    BY <1>1, <1>3, <1>8
  <2>2. SumOver(p, {i}) = p[i]
    BY <2>1, SumOfOne
  <2> QED BY <1>2, <1>8, <2>1, <2>2
<1>9. ASSUME NEW j, RowsOf(bank, t) = {j}
      PROVE  Total(bank, RowsOf(bank, t)) = bank[j].amount /\ bank[j].amount \in Int
  <2>1. b[j] = bank[j].amount /\ b[j] \in Int
    BY <1>1, <1>4, <1>9
  <2>2. SumOver(b, {j}) = b[j]
    BY <2>1, SumOfOne
  <2> QED BY <1>2, <1>9, <2>1, <2>2
<1> QED BY <1>2, <1>5, <1>6, <1>7, <1>8, <1>9

LEMMA OneReport ==
    ASSUME FilesInv, NEW t \in Txns, Known(t), Cardinality(RowsOf(platform, t)) <= 1,
           RowsOf(platform, t) = {} => t \notin dup_txns
    PROVE  \/ \E r : ReportsOf(t) = {r} /\ r.delta \in Int /\ SumsOf(t) = r.delta
           \/ ReportsOf(t) = {} /\ -tol <= SumsOf(t) /\ SumsOf(t) <= tol /\ SumsOf(t) \in Int
<1>1. CASE RowsOf(platform, t) = {}
  <2>1. PICK j : RowsOf(bank, t) = {j}
    BY <1>1, HowMany DEF Known
  <2>2. t \notin dup_txns
    BY <1>1
  <2>3. ReportsOf(t) = {NotInPlatform(t, j)}
    <3>1. \A r : r \in ReportsOf(t) <=> r = NotInPlatform(t, j)
      BY <1>1, <2>1, <2>2, RulesByTransaction
    <3> QED BY <3>1
  <2>4. SumsOf(t) = bank[j].amount /\ bank[j].amount \in Int
    <3>1. /\ Total(platform, RowsOf(platform, t)) = 0
          /\ Total(bank, RowsOf(bank, t)) = bank[j].amount /\ bank[j].amount \in Int
      BY <1>1, <2>1, TotalOfOne
    <3> QED BY <3>1 DEF SumsOf
  <2>5. NotInPlatform(t, j).delta = bank[j].amount
    BY DEF NotInPlatform, Report
  <2> QED BY <2>3, <2>4, <2>5
<1>2. CASE RowsOf(platform, t) # {} /\ RowsOf(bank, t) = {}
  <2>1. PICK i : RowsOf(platform, t) = {i}
    BY <1>2, HowMany
  <2>2. t \notin dup_txns
    BY <1>2, HowMany
  <2>3. ReportsOf(t) = {NotInBank(t, i)}
    <3>1. \A r : r \in ReportsOf(t) <=> r = NotInBank(t, i)
      BY <1>2, <2>1, <2>2, RulesByTransaction
    <3> QED BY <3>1
  <2>4. SumsOf(t) = -platform[i].amount /\ -platform[i].amount \in Int
    <3>1. /\ Total(platform, RowsOf(platform, t)) = platform[i].amount /\ platform[i].amount \in Int
          /\ Total(bank, RowsOf(bank, t)) = 0
      BY <1>2, <2>1, TotalOfOne
    <3> QED BY <3>1 DEF SumsOf
  <2>5. NotInBank(t, i).delta = -platform[i].amount
    BY DEF NotInBank, Report
  <2> QED BY <2>3, <2>4, <2>5
<1>3. CASE RowsOf(platform, t) # {} /\ t \in dup_txns
  <2>1. PICK i : RowsOf(platform, t) = {i}
    BY <1>3, HowMany
  <2>2. RowsOf(bank, t) # {}
    BY <1>3, HowMany
  <2>3. ReportsOf(t) = {DuplicateOf(t)}
    <3>1. \A r : r \in ReportsOf(t) <=> r = DuplicateOf(t)
      BY <1>3, <2>1, <2>2, RulesByTransaction
    <3> QED BY <3>1
  <2>4. SumsOf(t) = Total(bank, RowsOf(bank, t)) - Expected(t) /\ SumsOf(t) \in Int
    <3>1. /\ Total(platform, RowsOf(platform, t)) = Expected(t) /\ Expected(t) \in Int
          /\ Total(bank, RowsOf(bank, t)) \in Int
      BY <2>1, TotalOfOne
    <3> QED BY <3>1 DEF SumsOf
  <2>5. DuplicateOf(t).delta = Total(bank, RowsOf(bank, t)) - Expected(t)
    BY DEF DuplicateOf, Report
  <2> QED BY <2>3, <2>4, <2>5
<1>4. CASE RowsOf(platform, t) # {} /\ RowsOf(bank, t) # {} /\ t \notin dup_txns
  <2>1. PICK i : RowsOf(platform, t) = {i}
    BY <1>4, HowMany
  <2>2. PICK j : RowsOf(bank, t) = {j}
    BY <1>4, HowMany
  <2>3. i \in RowsOf(platform, t) /\ j \in RowsOf(bank, t)
    BY <2>1, <2>2
  <2>4. /\ SumsOf(t) = Delta(<<i, j>>) /\ Delta(<<i, j>>) \in Int
        /\ Off(<<i, j>>) <=> Delta(<<i, j>>) > tol \/ -Delta(<<i, j>>) > tol
    <3>1. /\ Total(platform, RowsOf(platform, t)) = platform[i].amount
          /\ Total(bank, RowsOf(bank, t)) = bank[j].amount
      BY <2>1, <2>2, TotalOfOne
    <3>2. SumsOf(t) = bank[j].amount - platform[i].amount
      BY <3>1 DEF SumsOf
    <3> QED BY <2>3, <3>2, PairFacts
  <2>5. \A type : Differs(type, t, i, j).delta = Delta(<<i, j>>)
    BY DEF Differs, Report
  <2>6. CASE Off(<<i, j>>)
    <3>1. \A r : r \in ReportsOf(t) <=> r = Differs("AMOUNT_MISMATCH", t, i, j)
      BY <1>4, <2>1, <2>2, <2>6, RulesByTransaction
    <3>2. ReportsOf(t) = {Differs("AMOUNT_MISMATCH", t, i, j)}
      BY <3>1
    <3> QED BY <2>4, <2>5, <3>2
  <2>7. CASE ~Off(<<i, j>>) /\ Delay(<<i, j>>) > late_h
    <3>1. \A r : r \in ReportsOf(t) <=> r = Differs("TIMING_MISMATCH", t, i, j)
      <4>1. ASSUME NEW r \in ReportsOf(t) PROVE r = Differs("TIMING_MISMATCH", t, i, j)
        BY <1>4, <2>1, <2>2, <2>7, RulesByTransaction
      <4>2. Differs("TIMING_MISMATCH", t, i, j) \in ReportsOf(t)
        BY <1>4, <2>3, <2>7, RulesByTransaction
      <4> QED BY <4>1, <4>2
    <3>2. ReportsOf(t) = {Differs("TIMING_MISMATCH", t, i, j)}
      BY <3>1
    <3> QED BY <2>4, <2>5, <3>2
  <2>8. CASE ~Off(<<i, j>>) /\ ~(Delay(<<i, j>>) > late_h)
    <3>1. \A r : r \notin ReportsOf(t)
      BY <1>4, <2>1, <2>2, <2>8, RulesByTransaction
    <3>2. ReportsOf(t) = {}
      BY <3>1
    <3> QED BY <2>4, <2>8, <3>2, RulesAssumption
  <2> QED BY <2>6, <2>7, <2>8
<1> QED BY <1>1, <1>2, <1>3, <1>4
\* The transactions of the two files are finitely many.
LEMMA FewAreKnown ==
    ASSUME FilesInv
    PROVE  IsFiniteSet({t \in Txns : Known(t)})
<1> DEFINE P == {platform[i].txn : i \in DOMAIN platform}
           B == {bank[j].txn : j \in DOMAIN bank}
<1>1. IsFiniteSet(P)
  <2> DEFINE f == [i \in DOMAIN platform |-> platform[i].txn]
  <2>1. f \in [DOMAIN platform -> P] /\ \A x \in P : \E i \in DOMAIN platform : f[i] = x
    OBVIOUS
  <2>2. f \in Surjection(DOMAIN platform, P)
    BY <2>1 DEF Surjection
  <2> QED BY <2>2, FileFacts, FS_Surjection
<1>2. IsFiniteSet(B)
  <2> DEFINE f == [j \in DOMAIN bank |-> bank[j].txn]
  <2>1. f \in [DOMAIN bank -> B] /\ \A x \in B : \E j \in DOMAIN bank : f[j] = x
    OBVIOUS
  <2>2. f \in Surjection(DOMAIN bank, B)
    BY <2>1 DEF Surjection
  <2> QED BY <2>2, FileFacts, FS_Surjection
<1>3. {t \in Txns : Known(t)} \subseteq P \cup B
  BY DEF Known, RowsOf
<1>4. IsFiniteSet(P \cup B)
  BY <1>1, <1>2, FS_Union
<1> QED BY <1>3, <1>4, FS_Subset

\* The gap and the reports of some transactions.
Among(file, ts) == {i \in DOMAIN file : file[i].txn \in ts}
ReportsAmong(ts) == {r \in reconcile : r.txn \in ts}
SilentAmong(ts) == {t \in ts : ReportsOf(t) = {}}
GapOf(ts) == Total(bank, Among(bank, ts)) - Total(platform, Among(platform, ts)) - Reported(ts)
Explained(ts) ==
    /\ IsFiniteSet(ReportsAmong(ts)) /\ \A r \in ReportsAmong(ts) : r.delta \in Int
    /\ IsFiniteSet(SilentAmong(ts))
    /\ Reported(ts) \in Int /\ GapOf(ts) \in Int
    /\ GapOf(ts) <= tol * Cardinality(SilentAmong(ts))
    /\ -GapOf(ts) <= tol * Cardinality(SilentAmong(ts))

\* With one transaction more, each of these grows by what is of it.
LEMMA OneTransactionMore ==
    ASSUME FilesInv, NEW A \in SUBSET Txns, NEW t \in Txns, t \notin A
    PROVE  /\ Total(bank, Among(bank, A \cup {t})) = Total(bank, Among(bank, A)) + Total(bank, RowsOf(bank, t))
           /\ Total(platform, Among(platform, A \cup {t})) =
                Total(platform, Among(platform, A)) + Total(platform, RowsOf(platform, t))
           /\ Total(bank, Among(bank, A)) \in Int /\ Total(platform, Among(platform, A)) \in Int
           /\ Total(bank, RowsOf(bank, t)) \in Int /\ Total(platform, RowsOf(platform, t)) \in Int
<1> DEFINE p == [i \in DOMAIN platform |-> platform[i].amount]
           b == [j \in DOMAIN bank |-> bank[j].amount]
<1>1. /\ \A i \in DOMAIN platform : p[i] \in Int
      /\ \A j \in DOMAIN bank : b[j] \in Int
  BY FileFacts
<1>2. /\ \A S : Total(platform, S) = SumOver(p, S)
      /\ \A S : Total(bank, S) = SumOver(b, S)
  BY DEF Total
<1> HIDE DEF p, b
<1>3. /\ Among(platform, A \cup {t}) = Among(platform, A) \cup RowsOf(platform, t)
      /\ Among(platform, A) \cap RowsOf(platform, t) = {} /\ Among(platform, A) \subseteq DOMAIN platform
      /\ Among(bank, A \cup {t}) = Among(bank, A) \cup RowsOf(bank, t)
      /\ Among(bank, A) \cap RowsOf(bank, t) = {} /\ Among(bank, A) \subseteq DOMAIN bank
  BY DEF Among, RowsOf
<1>4. IsFiniteSet(Among(platform, A)) /\ IsFiniteSet(Among(bank, A))
  BY <1>3, FileFacts, FS_Subset
<1>5. /\ \A i \in Among(platform, A) \cup RowsOf(platform, t) : p[i] \in Int
      /\ \A j \in Among(bank, A) \cup RowsOf(bank, t) : b[j] \in Int
  BY <1>1, <1>3, RowsAreFew
<1>6. /\ SumOver(p, Among(platform, A)) \in Int /\ SumOver(p, RowsOf(platform, t)) \in Int
      /\ SumOver(p, Among(platform, A) \cup RowsOf(platform, t)) =
           SumOver(p, Among(platform, A)) + SumOver(p, RowsOf(platform, t))
  BY <1>3, <1>4, <1>5, RowsAreFew, SumDisjoint
<1>7. /\ SumOver(b, Among(bank, A)) \in Int /\ SumOver(b, RowsOf(bank, t)) \in Int
      /\ SumOver(b, Among(bank, A) \cup RowsOf(bank, t)) =
           SumOver(b, Among(bank, A)) + SumOver(b, RowsOf(bank, t))
  BY <1>3, <1>4, <1>5, RowsAreFew, SumDisjoint
<1> QED BY <1>2, <1>3, <1>6, <1>7

\* The part of a transaction in the deltas and the tolerance.
LEMMA OneReportMore ==
    ASSUME FilesInv, NEW A \in SUBSET Txns, NEW t \in Plain, Known(t), t \notin A, Explained(A)
    PROVE  Explained(A \cup {t})
<1> DEFINE B == A \cup {t}
           d == [r \in reconcile |-> r.delta]
           n == Cardinality(SilentAmong(A))
           gap == GapOf(A)
<1>1. t \in Txns /\ (RowsOf(platform, t) = {} => t \notin dup_txns) /\ Cardinality(RowsOf(platform, t)) <= 1
  BY DEF Plain, dup_txns
<1>2. /\ Total(bank, Among(bank, B)) = Total(bank, Among(bank, A)) + Total(bank, RowsOf(bank, t))
      /\ Total(platform, Among(platform, B)) = Total(platform, Among(platform, A)) + Total(platform, RowsOf(platform, t))
      /\ Total(bank, Among(bank, A)) \in Int /\ Total(platform, Among(platform, A)) \in Int
      /\ Total(bank, RowsOf(bank, t)) \in Int /\ Total(platform, RowsOf(platform, t)) \in Int
  BY <1>1, OneTransactionMore
<1>3. /\ IsFiniteSet(ReportsAmong(A)) /\ \A r \in ReportsAmong(A) : r \in reconcile /\ r.delta \in Int /\ d[r] \in Int
      /\ ReportsAmong(B) = ReportsAmong(A) \cup ReportsOf(t)
      /\ ReportsAmong(A) \cap ReportsOf(t) = {}
  BY DEF Explained, ReportsAmong, ReportsOf
<1>4. \A ts : Reported(ts) = SumOver(d, ReportsAmong(ts))
  BY DEF Reported, ReportsAmong
<1>5. Reported(A) \in Int /\ gap \in Int /\ IsFiniteSet(SilentAmong(A)) /\ n \in Nat
      /\ gap <= tol * n /\ -gap <= tol * n
  BY FS_CardinalityType DEF Explained
<1>6. Reported(B) \in Int => SumsOf(t) \in Int /\ GapOf(B) = gap + SumsOf(t) - (Reported(B) - Reported(A))
  <2>1. SumsOf(t) = Total(bank, RowsOf(bank, t)) - Total(platform, RowsOf(platform, t))
    BY DEF SumsOf
  <2>2. gap = Total(bank, Among(bank, A)) - Total(platform, Among(platform, A)) - Reported(A)
    BY DEF GapOf
  <2>3. GapOf(B) = Total(bank, Among(bank, B)) - Total(platform, Among(platform, B)) - Reported(B)
    BY DEF GapOf
  <2> HIDE DEF B, gap
  <2> QED BY <1>2, <1>5, <2>1, <2>2, <2>3
<1>7. CASE \E r : ReportsOf(t) = {r} /\ r.delta \in Int /\ SumsOf(t) = r.delta
  <2>1. PICK r : ReportsOf(t) = {r} /\ r.delta \in Int /\ SumsOf(t) = r.delta
    BY <1>7
  <2>2. r \in reconcile /\ d[r] = r.delta /\ r \notin ReportsAmong(A)
    BY <1>3, <2>1 DEF ReportsOf
  <2> HIDE DEF d
  <2>3. \A x \in ReportsAmong(A) \cup {r} : d[x] \in Int
    BY <1>3, <2>1, <2>2
  <2>4. SumOver(d, ReportsAmong(A) \cup {r}) = SumOver(d, ReportsAmong(A)) + d[r]
    BY <1>3, <2>2, <2>3, SumAdds
  <2>5. Reported(B) = Reported(A) + r.delta
    BY <1>3, <1>4, <2>1, <2>2, <2>4
  <2>6. SilentAmong(B) = SilentAmong(A)
    BY <2>1 DEF SilentAmong
  <2>7. IsFiniteSet(ReportsAmong(B)) /\ \A x \in ReportsAmong(B) : x.delta \in Int
    <3>1. ReportsAmong(B) = ReportsAmong(A) \cup {r}
      BY <1>3, <2>1
    <3>2. IsFiniteSet(ReportsAmong(A) \cup {r})
      BY <1>3, FS_AddElement
    <3> QED BY <1>3, <2>1, <3>1, <3>2
  <2>8. Reported(B) \in Int /\ GapOf(B) = gap
    <3> HIDE DEF B, gap
    <3> QED BY <1>5, <1>6, <2>1, <2>5
  <2> QED BY <1>5, <2>6, <2>7, <2>8 DEF Explained
<1>8. CASE ReportsOf(t) = {} /\ -tol <= SumsOf(t) /\ SumsOf(t) <= tol /\ SumsOf(t) \in Int
  <2>1. ReportsAmong(B) = ReportsAmong(A)
    BY <1>3, <1>8
  <2>2. Reported(B) = Reported(A)
    BY <1>4, <2>1
  <2>3. SilentAmong(B) = SilentAmong(A) \cup {t} /\ t \notin SilentAmong(A)
    BY <1>8 DEF SilentAmong
  <2>4. IsFiniteSet(SilentAmong(B)) /\ Cardinality(SilentAmong(B)) = n + 1
    <3> DEFINE S == SilentAmong(A)
    <3>1. IsFiniteSet(S) /\ t \notin S /\ n = Cardinality(S)
      BY <1>5, <2>3
    <3> HIDE DEF S, n
    <3>2. IsFiniteSet(S \cup {t}) /\ Cardinality(S \cup {t}) = n + 1
      BY <3>1, FS_AddElement
    <3> QED BY <2>3, <3>2 DEF S
  <2>5. GapOf(B) = gap + SumsOf(t) /\ GapOf(B) \in Int
    <3> HIDE DEF B, gap
    <3> QED BY <1>5, <1>6, <1>8, <2>2
  <2>6. tol * (n + 1) = tol * n + tol /\ tol * n \in Int
    <3> HIDE DEF n
    <3> QED BY <1>5, RulesAssumption
  <2>7. GapOf(B) <= tol * (n + 1) /\ -GapOf(B) <= tol * (n + 1)
    <3> DEFINE k == tol * n
               l == tol * (n + 1)
    <3>1. k \in Int /\ l = k + tol /\ gap <= k /\ -gap <= k
      BY <1>5, <2>6
    <3> HIDE DEF B, gap, n, k, l
    <3>2. GapOf(B) <= l /\ -GapOf(B) <= l
      BY <1>5, <1>8, <2>5, <3>1, RulesAssumption
    <3> QED BY <3>2 DEF l
  <2> QED BY <1>3, <1>5, <2>1, <2>2, <2>4, <2>5, <2>7 DEF Explained
<1> QED BY <1>1, <1>7, <1>8, OneReport
\* The deltas of any of the transactions explain what they add to the gap: of
\* the sets of transactions for which they do not, there would be a smallest.
LEMMA AllExplained ==
    ASSUME FilesInv, NEW K, IsFiniteSet(K), K \subseteq Plain, \A t \in K : Known(t)
    PROVE  Explained(K)
<1> DEFINE T == {A \in SUBSET K : ~Explained(A)}
<1> SUFFICES ASSUME T # {} PROVE FALSE
  OBVIOUS
<1>1. PICK A \in T : \A B \in T : B \subseteq A => B = A
  <2>1. T \in SUBSET (SUBSET K)
    OBVIOUS
  <2> HIDE DEF T
  <2> QED BY <2>1, SmallestSubset
<1>2. CASE A = {}
  <2>1. /\ Among(platform, {}) = {} /\ Among(bank, {}) = {}
        /\ ReportsAmong({}) = {} /\ SilentAmong({}) = {}
    BY DEF Among, ReportsAmong, SilentAmong
  <2>2. Total(platform, {}) = 0 /\ Total(bank, {}) = 0
    BY SumEmpty DEF Total
  <2>3. Reported({}) = 0
    BY <2>1, SumEmpty DEF Reported, ReportsAmong
  <2>4. GapOf({}) = 0
    BY <2>1, <2>2, <2>3 DEF GapOf
  <2>5. IsFiniteSet({}) /\ Cardinality({}) = 0
    BY FS_EmptySet
  <2>6. Explained({})
    BY <2>1, <2>3, <2>4, <2>5, RulesAssumption DEF Explained
  <2> QED BY <1>1, <1>2, <2>6
<1>3. CASE A # {}
  <2>1. PICK t \in A : TRUE
    BY <1>3
  <2> DEFINE B == A \ {t}
  <2>2. /\ B \subseteq A /\ B # A /\ B \in SUBSET K /\ t \notin B /\ B \cup {t} = A
        /\ t \in Plain /\ Known(t)
    BY <2>1
  <2>3. B \in SUBSET Txns
    BY <2>2 DEF Plain
  <2>4. Explained(B)
    BY <1>1, <2>2
  <2> HIDE DEF B
  <2>5. Explained(B \cup {t})
    BY <2>2, <2>3, <2>4, OneReportMore
  <2> QED BY <1>1, <2>2, <2>5
<1> QED BY <1>2, <1>3

\* Of a transaction's rows one is the first.
LEMMA FirstRow ==
    ASSUME FilesInv, NEW t, RowsOf(platform, t) # {}
    PROVE  \E i \in RowsOf(platform, t) : \A k \in RowsOf(platform, t) : i <= k
<1> DEFINE S == RowsOf(platform, t)
<1>1. S \subseteq Nat /\ S # {}
  BY RowsAreFew, FileFacts
<1> HIDE DEF S
<1>2. \E i \in S : \A k \in S : <<k, i>> \notin OpToRel(<, Nat)
  BY <1>1, NatLessThanWellFounded, WFMin
<1>3. PICK i \in S : \A k \in S : <<k, i>> \notin OpToRel(<, Nat)
  BY <1>2
<1>4. \A k \in S : ~(k < i)
  BY <1>1, <1>3 DEF OpToRel
<1> QED BY <1>1, <1>4 DEF S

\* What the rules report is a report.
LEMMA ReportsTyped ==
    ASSUME FilesInv
    PROVE  reconcile \subseteq ReportRecords
<1> SUFFICES ASSUME NEW r \in reconcile PROVE r \in ReportRecords
  OBVIOUS
<1> DEFINE t == r.txn
<1>1. r.txn \in Txns
  <2>1. \A m \in Matches : m[1] \in DOMAIN platform
    BY DEF Matches
  <2> QED BY <2>1, FileFacts DEF reconcile, Duplicates, MissingInBank, MissingInPlatform, Mismatches, Late,
                               Report, dup_txns
<1>2. t \in Txns /\ r \in ReportsOf(t)
  BY <1>1 DEF ReportsOf
<1> HIDE DEF t
<1>3. \A i \in RowsOf(platform, t) : i \in 0 .. MaxRows /\ platform[i].amount \in Int /\ -platform[i].amount \in Int
  <2>1. \A i \in RowsOf(platform, t) : i \in DOMAIN platform
    BY RowsAreFew
  <2> QED BY <2>1, FileFacts, RulesAssumption DEF FilesInv
<1>4. \A j \in RowsOf(bank, t) : j \in 0 .. MaxRows /\ bank[j].amount \in Int
  <2>1. \A j \in RowsOf(bank, t) : j \in DOMAIN bank
    BY RowsAreFew
  <2> QED BY <2>1, FileFacts, RulesAssumption DEF FilesInv
<1>5. 0 \in 0 .. MaxRows
  BY RulesAssumption
<1>6. CASE r = DuplicateOf(t)
  <2>1. Expected(t) \in Int
    <3>1. CASE RowsOf(platform, t) = {}
      BY <3>1 DEF Expected
    <3>2. CASE RowsOf(platform, t) # {}
      <4>1. PICK i \in RowsOf(platform, t) : \A k \in RowsOf(platform, t) : i <= k
        BY <3>2, FirstRow
      <4>2. Min(RowsOf(platform, t)) \in RowsOf(platform, t)
        BY <4>1 DEF Min
      <4> QED BY <1>3, <3>2, <4>2 DEF Expected
    <3> QED BY <3>1, <3>2
  <2>2. Total(bank, RowsOf(bank, t)) \in Int
    BY TotalOfOne
  <2>3. Total(bank, RowsOf(bank, t)) - Expected(t) \in Int
    BY <2>1, <2>2
  <2> QED BY <1>2, <1>5, <1>6, <2>3 DEF DuplicateOf, Report, ReportRecords, Types
<1>7. CASE \E i \in RowsOf(platform, t) : r = NotInBank(t, i)
  BY <1>2, <1>3, <1>7 DEF NotInBank, Report, ReportRecords, Types
<1>8. CASE \E j \in RowsOf(bank, t) : r = NotInPlatform(t, j)
  BY <1>2, <1>4, <1>8 DEF NotInPlatform, Report, ReportRecords, Types
<1>9. CASE \E type \in {"AMOUNT_MISMATCH", "TIMING_MISMATCH"}, i \in RowsOf(platform, t), j \in RowsOf(bank, t) :
             r = Differs(type, t, i, j)
  <2>1. PICK type \in {"AMOUNT_MISMATCH", "TIMING_MISMATCH"}, i \in RowsOf(platform, t), j \in RowsOf(bank, t) :
          r = Differs(type, t, i, j)
    BY <1>9
  <2>2. Delta(<<i, j>>) \in Int /\ Delay(<<i, j>>) \in Int
    BY PairFacts
  <2> QED BY <1>2, <1>3, <2>1, <2>2 DEF Differs, Report, ReportRecords, Types
<1>10. \/ t \in dup_txns /\ r = DuplicateOf(t)
       \/ \E i \in RowsOf(platform, t) : r = NotInBank(t, i)
       \/ \E j \in RowsOf(bank, t) : r = NotInPlatform(t, j)
       \/ \E i \in RowsOf(platform, t), j \in RowsOf(bank, t) : r = Differs("AMOUNT_MISMATCH", t, i, j)
       \/ \E i \in RowsOf(platform, t), j \in RowsOf(bank, t) : r = Differs("TIMING_MISMATCH", t, i, j)
  BY <1>2, RulesByTransaction, ZenonT(30)
<1> QED BY <1>6, <1>7, <1>8, <1>9, <1>10

-----------------------------------------------------------------------------
(* What is reported, of any two files.                                        *)

\* The files hold rows, and what is reported of them are reports.
THEOREM FilesTypeCorrect == FilesSpec => []FilesTypeOK
<1>1. FilesInv => FilesTypeOK
  BY ReportsTyped DEF FilesInv, FilesTypeOK
<1> QED BY <1>1, FilesGrow, PTL

\* A transaction of either file is left out of the reports exactly when it was
\* settled, was credited once, and all its settlements agree with that credit;
\* and one that each file has at most once is reported at most once.
THEOREM ReportedUnlessAllAgree == FilesSpec => []ReportedUnlessInOrder
<1>1. FilesInv => ReportedUnlessInOrder
  <2> SUFFICES ASSUME FilesInv, NEW t \in Txns, Known(t)
               PROVE  /\ ReportsOf(t) = {} <=> RowsOf(platform, t) # {} /\ Once(bank, t) /\ Agrees(t)
                      /\ Cardinality(RowsOf(platform, t)) <= 1 /\ Cardinality(RowsOf(bank, t)) <= 1 =>
                           Cardinality(ReportsOf(t)) <= 1
    BY DEF ReportedUnlessInOrder, ReportsOf
  <2>1. ReportsOf(t) = {} <=> RowsOf(platform, t) # {} /\ Once(bank, t) /\ Agrees(t)
    BY SilentIfInOrder
  <2>2. ASSUME Cardinality(RowsOf(platform, t)) <= 1, Cardinality(RowsOf(bank, t)) <= 1
        PROVE  Cardinality(ReportsOf(t)) <= 1
    <3>1. t \notin dup_txns
      BY <2>2, RowsAreFew DEF dup_txns
    <3>2. ReportsOf(t) = {} \/ \E r : ReportsOf(t) = {r}
      BY <2>2, <3>1, OneReport
    <3>3. Cardinality({}) = 0 /\ \A r : Cardinality({r}) = 1
      BY FS_EmptySet, FS_Singleton
    <3>4. Cardinality(ReportsOf(t)) = 0 \/ Cardinality(ReportsOf(t)) = 1
      BY <3>2, <3>3, Zenon
    <3> QED BY <3>4
  <2> QED BY <2>1, <2>2
<1> QED BY <1>1, FilesGrow, PTL

\* The deltas reported explain the difference of the two files' totals up to
\* the tolerance of each match that is not reported, whatever the files hold.
THEOREM TheGapIsExplained == FilesSpec => []DeltasExplainTheGap
<1>1. FilesInv => DeltasExplainTheGap
  <2> SUFFICES ASSUME FilesInv PROVE DeltasExplainTheGap
    OBVIOUS
  <2> DEFINE K == {t \in Plain : Known(t)}
  <2>1. K \subseteq {t \in Txns : Known(t)} /\ K \subseteq Plain /\ \A t \in K : Known(t)
    BY DEF Plain
  <2>2. IsFiniteSet(K)
    BY <2>1, FewAreKnown, FS_Subset
  <2>3. Explained(K)
    <3> HIDE DEF K
    <3> QED BY <2>1, <2>2, AllExplained
  <2>4. /\ Among(platform, K) = {i \in DOMAIN platform : platform[i].txn \in Plain}
        /\ Among(bank, K) = {j \in DOMAIN bank : bank[j].txn \in Plain}
    BY DEF Among, Known, RowsOf
  <2>5. TotalOf(platform) = Total(platform, Among(platform, K)) /\ TotalOf(bank) = Total(bank, Among(bank, K))
    BY <2>4 DEF TotalOf
  <2>6. ReportsAmong(K) = ReportsAmong(Plain)
    <3> SUFFICES ASSUME NEW r \in reconcile, r.txn \in Plain PROVE Known(r.txn)
      BY DEF ReportsAmong
    <3>1. r.txn \in Txns /\ r \in ReportsOf(r.txn)
      BY DEF Plain, ReportsOf
    <3>2. CASE r.txn \in dup_txns
      <4>1. RowsOf(bank, r.txn) # {}
        BY <3>1, <3>2, HowMany
      <4> QED BY <4>1 DEF Known
    <3>3. CASE r.txn \notin dup_txns
      <4>1. RowsOf(platform, r.txn) # {} \/ RowsOf(bank, r.txn) # {}
        BY <3>1, <3>3, RulesByTransaction
      <4> QED BY <4>1 DEF Known
    <3> QED BY <3>2, <3>3
  <2>7. Reported(K) = Reported(Plain)
    BY <2>6 DEF Reported, ReportsAmong
  <2>8. {t \in Plain : Known(t) /\ \A r \in reconcile : r.txn # t} = SilentAmong(K)
    BY DEF SilentAmong, ReportsOf
  <2> DEFINE gap == TotalOf(bank) - TotalOf(platform) - Reported(Plain)
             n == Cardinality(SilentAmong(K))
  <2>9. gap = GapOf(K)
    BY <2>5, <2>7 DEF GapOf
  <2>10. gap \in Int /\ gap <= tol * n /\ -gap <= tol * n
    BY <2>3, <2>9 DEF Explained
  <2>11. Abs(gap) <= tol * n
    <3> HIDE DEF gap, n
    <3> QED BY <2>10 DEF Abs
  <2> QED BY <2>8, <2>11 DEF DeltasExplainTheGap
<1> QED BY <1>1, FilesGrow, PTL
=============================================================================
