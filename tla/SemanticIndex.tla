--------------------------- MODULE SemanticIndex ---------------------------
(***************************************************************************)
(* The semantic index of a project (src/src/graph/semantic): jobs, of which   *)
(* one may run at a time, have a worker process each that embeds the symbols  *)
(* of the graph, while the job is cancelled, given up as lost, the project's  *)
(* policy changes, or the graph is written.                                   *)
(*                                                                          *)
(* There is one symbol; its document is the version of it that the graph has, *)
(* or none.  What happens in one statement is one action; the transactions of *)
(* saveDocument and changePolicy have one for each of their locks.  A job     *)
(* that has had no heartbeat for long may have a worker all the same, one     *)
(* that was suspended.                                                        *)
(***************************************************************************)
EXTENDS Naturals

CONSTANTS
  Models,        \* models of the providers
  MaxJobs,       \* bounds the jobs
  MaxRevisions,  \* bounds the revisions of the policy
  MaxSymbol      \* bounds the versions of the symbol, of which there is one

ASSUME SemanticBounds == {MaxJobs, MaxRevisions} \subseteq Nat /\ MaxSymbol \in Nat \ {0}
ASSUME ModelsNamed == Models # {} /\ "off" \notin Models

VARIABLES
  policy,  \* graph_code_policy of the project
  change,  \* whether changePolicy has the project row
  jobs,    \* graph_code_jobs
  worker,  \* of a job: its process
  lane,    \* holder of the inference lane's advisory lock
  symbol,  \* version of the symbol in the graph
  vectors  \* graph_code_embeddings of the symbol: model -> version

semanticVars == <<policy, change, jobs, worker, lane, symbol, vectors>>

JobIds == 1 .. MaxJobs
NoJob == [state |-> "none", cancel |-> FALSE, revision |-> 0, model |-> "off"]
NoWorker == [at |-> "none", doc |-> 0]
Ended == {"completed", "partial", "cancelled", "failed"}

SemanticTypeOK ==
  /\ policy.revision \in 0 .. MaxRevisions /\ policy.model \in Models \cup {"off"}
  /\ change \in BOOLEAN
  /\ \A j \in JobIds :
       /\ jobs[j].state \in {"none", "running"} \cup Ended
       /\ jobs[j].revision \in 0 .. policy.revision /\ jobs[j].model \in Models \cup {"off"}
       /\ worker[j].at \in {"none", "start", "embed", "save", "project", "job", "node", "final"}
       /\ worker[j].doc \in 0 .. symbol
  /\ lane \in {0} \cup JobIds
  /\ symbol \in 1 .. MaxSymbol
  /\ vectors \in [Models -> 0 .. symbol]

SemanticInit ==
  /\ \E m \in Models : policy = [revision |-> 0, model |-> m]
  /\ change = FALSE
  /\ jobs = [j \in JobIds |-> NoJob]
  /\ worker = [j \in JobIds |-> NoWorker]
  /\ lane = 0
  /\ symbol = 1
  /\ vectors = [m \in Models |-> 0]

----------------------------------------------------------------------------
Running(j) == jobs[j].state = "running"

\* Row locks of saveDocument: the project FOR SHARE, the job FOR UPDATE, the symbol
\* FOR SHARE.
ProjectShared == \E j \in JobIds : worker[j].at \in {"project", "job", "node"}

\* Wrong on purpose: the job is read without a lock.
JobUnlocked(j) == FALSE

JobLocked(j) == worker[j].at \in {"job", "node"}
SymbolShared == \E j \in JobIds : worker[j].at = "node"

At(j, at) == [worker EXCEPT ![j].at = at]
LaneAfter(j) == IF lane = j THEN 0 ELSE lane

\* reserveJob: its worker goes on with a job of its own.
ReserveJob ==
  /\ ~change /\ ~ProjectShared
  /\ \A j \in JobIds : ~Running(j)
  /\ policy.model # "off"
  /\ \E j \in JobIds :
       /\ jobs[j] = NoJob
       /\ \A i \in 1 .. j - 1 : jobs[i] # NoJob
       /\ jobs' = [jobs EXCEPT ![j] = [state |-> "running", cancel |-> FALSE,
                                       revision |-> policy.revision, model |-> policy.model]]
       /\ worker' = At(j, "start")
  /\ UNCHANGED <<policy, change, lane, symbol, vectors>>

CancelJob(j) ==
  /\ jobs[j] # NoJob
  /\ ~JobLocked(j)
  /\ jobs' = [jobs EXCEPT ![j].cancel = TRUE,
                          ![j].state = IF @ = "running" THEN "cancelled" ELSE @]
  /\ UNCHANGED <<policy, change, worker, lane, symbol, vectors>>

\* recoverJobs of any reader, after 30 seconds without a heartbeat.
RecoverJob(j) ==
  /\ Running(j)
  /\ ~JobLocked(j)
  /\ jobs' = [jobs EXCEPT ![j].state = IF jobs[j].cancel THEN "cancelled" ELSE "failed"]
  /\ UNCHANGED <<policy, change, worker, lane, symbol, vectors>>

\* changePolicy: the project FOR UPDATE; then the policy and the running job's flag,
\* or nothing.
BeginChange ==
  /\ ~change /\ ~ProjectShared
  /\ change' = TRUE
  /\ UNCHANGED <<policy, jobs, worker, lane, symbol, vectors>>

CommitChange ==
  /\ change
  /\ policy.revision < MaxRevisions
  /\ \E m \in (Models \cup {"off"}) \ {policy.model} :
       policy' = [revision |-> policy.revision + 1, model |-> m]
  /\ jobs' = [j \in JobIds |-> IF Running(j) THEN [jobs[j] EXCEPT !.cancel = TRUE] ELSE jobs[j]]
  /\ change' = FALSE
  /\ UNCHANGED <<worker, lane, symbol, vectors>>

EndChange ==
  /\ change
  /\ change' = FALSE
  /\ UNCHANGED <<policy, jobs, worker, lane, symbol, vectors>>

\* A build or an update of the graph writes the symbol.
WriteSymbol ==
  /\ symbol < MaxSymbol
  /\ ~SymbolShared
  /\ symbol' = symbol + 1
  /\ UNCHANGED <<policy, change, jobs, worker, lane, vectors>>

----------------------------------------------------------------------------
\* runIndex: the lane, and the policy of the job.
StartIndex(j) ==
  /\ worker[j].at = "start"
  /\ Running(j)
  /\ lane = 0
  /\ policy.revision = jobs[j].revision
  /\ lane' = j
  /\ worker' = At(j, "embed")
  /\ UNCHANGED <<policy, change, jobs, symbol, vectors>>

\* The document is built before and after it is embedded.
Embed(j) ==
  /\ worker[j].at = "embed"
  /\ Running(j) /\ ~jobs[j].cancel
  /\ \E doc \in {0, symbol} : worker' = [worker EXCEPT ![j] = [at |-> "save", doc |-> doc]]
  /\ UNCHANGED <<policy, change, jobs, lane, symbol, vectors>>

SaveShareProject(j) ==
  /\ worker[j].at = "save"
  /\ ~change
  /\ worker' = At(j, "project")
  /\ UNCHANGED <<policy, change, jobs, lane, symbol, vectors>>

SaveLockJob(j) ==
  /\ worker[j].at = "project"
  /\ Running(j) /\ ~jobs[j].cancel
  /\ policy.revision = jobs[j].revision /\ policy.model = jobs[j].model
  /\ worker' = At(j, "job")
  /\ UNCHANGED <<policy, change, jobs, lane, symbol, vectors>>

\* A document that is not that of the graph any more is dropped.
SaveShareSymbol(j) ==
  /\ worker[j].at = "job"
  /\ worker' = [worker EXCEPT ![j].at = "node", ![j].doc = IF @ = symbol THEN @ ELSE 0]
  /\ UNCHANGED <<policy, change, jobs, lane, symbol, vectors>>

SaveCommit(j) ==
  /\ worker[j].at = "node"
  /\ vectors' = IF worker[j].doc # 0 THEN [vectors EXCEPT ![jobs[j].model] = worker[j].doc]
                ELSE vectors
  /\ worker' = At(j, "final")
  /\ UNCHANGED <<policy, change, jobs, lane, symbol>>

\* finishJob, at the end or after an error, which rolls the transaction back.
FinishIndex(j) ==
  /\ worker[j].at # "none"
  /\ \E state \in {"completed", "partial"} :
       /\ state = "completed" => worker[j].at = "final"
       /\ jobs' = IF Running(j) THEN [jobs EXCEPT ![j].state = state] ELSE jobs
  /\ worker' = [worker EXCEPT ![j] = NoWorker]
  /\ lane' = LaneAfter(j)
  /\ UNCHANGED <<policy, change, symbol, vectors>>

\* A crash, or terminateInference: the poll or a check has seen the job or the policy
\* change, the lane's session is lost, inference takes too long.
WorkerDies(j) ==
  /\ worker[j].at # "none"
  /\ worker' = [worker EXCEPT ![j] = NoWorker]
  /\ lane' = LaneAfter(j)
  /\ UNCHANGED <<policy, change, jobs, symbol, vectors>>

\* The server drops the lane's session before the worker knows.
LoseLane ==
  /\ lane # 0
  /\ lane' = 0
  /\ UNCHANGED <<policy, change, jobs, worker, symbol, vectors>>

SemanticNext ==
  \/ ReserveJob \/ BeginChange \/ CommitChange \/ EndChange \/ WriteSymbol \/ LoseLane
  \/ \E j \in JobIds :
       \/ CancelJob(j) \/ RecoverJob(j) \/ StartIndex(j) \/ Embed(j)
       \/ SaveShareProject(j) \/ SaveLockJob(j) \/ SaveShareSymbol(j) \/ SaveCommit(j)
       \/ FinishIndex(j) \/ WorkerDies(j)

SemanticSpec == SemanticInit /\ [][SemanticNext]_semanticVars

----------------------------------------------------------------------------
(* A vector that is stored is, when it is stored, that of the symbol in the   *)
(* graph, made by the model of the policy, for a job that runs and that       *)
(* nobody has cancelled: once cancelJob, recoverJobs or changePolicy has      *)
(* answered, a worker that still lives stores nothing (the locks of           *)
(* saveDocument).                                                             *)
SavesWhatIsWanted ==
  [][ \A m \in Models :
        vectors'[m] # vectors[m] =>
          /\ vectors'[m] = symbol
          /\ policy.model = m
          /\ \E j \in JobIds : Running(j) /\ ~jobs[j].cancel
                               /\ jobs[j].revision = policy.revision ]_semanticVars
=============================================================================
