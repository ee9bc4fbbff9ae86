--------------------------- MODULE OperatorTasks ---------------------------
(***************************************************************************)
(* My Tasks (src/src/operator-tasks.ts): a plan's checklist is synchronised   *)
(* into rows, the operator completes, dismisses and reopens them, and removes *)
(* finished ones, by name or a whole group as it was shown.  One plan, whose  *)
(* text does not change; whether it may be synchronised at all is             *)
(* ApprovedText of Plans.  updated_at is a count, and completed and dismissed *)
(* rows are alike.  An action is one statement; the last includes COMMIT.     *)
(***************************************************************************)
EXTENDS Naturals

CONSTANTS
  TaskCalls,   \* requests that may be under way at once
  Checklist,   \* tasks of the plan; their keys are 1 .. Checklist
  MaxClicks    \* bounds the clicks of the operator

ASSUME TaskBounds == Checklist \in Nat /\ MaxClicks \in Nat

VARIABLES
  tasks,     \* operator_tasks
  taskCall,  \* the request: a synchronisation or a removal
  clicks     \* clicks so far

taskVars == <<tasks, taskCall, clicks>>

Keys == 1 .. Checklist

Absent == [status |-> "none", updated |-> 0, gone |-> FALSE]
NoTaskCall == [at |-> "idle", shown |-> {}, whole |-> FALSE, rows |-> {}, item |-> 0]

TasksTypeOK ==
  /\ tasks \in [Keys -> [status : {"none", "pending", "done"},
                         updated : 0 .. MaxClicks, gone : BOOLEAN]]
  /\ clicks \in 0 .. MaxClicks
  /\ \A c \in TaskCalls :
       /\ taskCall[c].at \in {"idle", "sync", "remove", "update"}
       /\ taskCall[c].shown \subseteq Keys \X (0 .. MaxClicks)
       /\ taskCall[c].rows \subseteq Keys
       /\ taskCall[c].item \in 0 .. Checklist

TasksInit ==
  /\ tasks = [k \in Keys |-> Absent]
  /\ taskCall = [c \in TaskCalls |-> NoTaskCall]
  /\ clicks = 0

----------------------------------------------------------------------------
\* No transaction but c's has a lock on these rows, or inserts them.
TasksFree(c, S) == \A d \in TaskCalls \ {c} : taskCall[d].rows \cap S = {}

\* Rows that are listed and finished.
Finished == {k \in Keys : tasks[k].status = "done" /\ ~tasks[k].gone}
Snapshot(S) == {<<k, tasks[k].updated>> : k \in S}

\* syncPlanOperatorTasks.
BeginSync(c) ==
  /\ taskCall[c].at = "idle"
  /\ taskCall' = [taskCall EXCEPT ![c] = [NoTaskCall EXCEPT !.at = "sync"]]
  /\ UNCHANGED <<tasks, clicks>>

\* INSERT .. ON CONFLICT DO NOTHING, then SELECT .. FOR UPDATE, of the next item.
SyncItem(c) ==
  /\ taskCall[c].at = "sync"
  /\ taskCall[c].item < Checklist
  /\ TasksFree(c, {taskCall[c].item + 1})
  /\ taskCall' = [taskCall EXCEPT ![c].item = @ + 1, ![c].rows = @ \cup {taskCall[c].item + 1}]
  /\ UNCHANGED <<tasks, clicks>>

\* New rows are pending; a row that exists keeps its status, also a removed one.
CommitSync(c) ==
  /\ taskCall[c].at = "sync"
  /\ taskCall[c].item = Checklist
  /\ tasks' = [k \in Keys |-> IF tasks[k] = Absent THEN [Absent EXCEPT !.status = "pending"]
                              ELSE tasks[k]]
  /\ taskCall' = [taskCall EXCEPT ![c] = NoTaskCall]
  /\ UNCHANGED clicks

\* operatorTaskStatus: one guarded UPDATE.
Click(k) ==
  /\ clicks < MaxClicks
  /\ \A c \in TaskCalls : k \notin taskCall[c].rows
  /\ ~tasks[k].gone
  /\ \/ tasks[k].status = "pending" /\ tasks' = [tasks EXCEPT ![k].status = "done",
                                                              ![k].updated = clicks + 1]
     \/ tasks[k].status = "done" /\ tasks' = [tasks EXCEPT ![k].status = "pending",
                                                           ![k].updated = clicks + 1]
  /\ clicks' = clicks + 1
  /\ UNCHANGED taskCall

\* The operator asks to remove the finished tasks of the listing, or some of them.
AskRemoval(c) ==
  /\ taskCall[c].at = "idle"
  /\ \E S \in (SUBSET Finished) \ {{}} : \E whole \in BOOLEAN :
       /\ whole => S = Finished
       /\ taskCall' = [taskCall EXCEPT ![c] = [NoTaskCall EXCEPT !.at = "remove",
                                                 !.shown = Snapshot(S), !.whole = whole]]
  /\ UNCHANGED <<tasks, clicks>>

Asked(c) == {p[1] : p \in taskCall[c].shown}

\* Wrong on purpose: the rows of the group are those that are finished now.
SelectUncompared(c) ==
  /\ taskCall[c].at = "remove"
  /\ LET S == IF taskCall[c].whole THEN Finished ELSE Asked(c)
     IN /\ TasksFree(c, S)
        /\ S # {} /\ S \subseteq Finished
        /\ taskCall' = [taskCall EXCEPT ![c].at = "update", ![c].rows = S]
  /\ UNCHANGED <<tasks, clicks>>

\* removeOperatorTaskGroup compares the locked rows with the snapshot,
\* removeOperatorTasks only wants them finished.
SelectRows(c) ==
  /\ taskCall[c].at = "remove"
  /\ LET S == IF taskCall[c].whole THEN Finished ELSE Asked(c)
     IN /\ TasksFree(c, S)
        /\ S # {} /\ S \subseteq Finished
        /\ taskCall[c].whole => Snapshot(S) = taskCall[c].shown
        /\ taskCall' = [taskCall EXCEPT ![c].at = "update", ![c].rows = S]
  /\ UNCHANGED <<tasks, clicks>>

\* removed_at and COMMIT; fewer rows than selected would roll back.
RemoveRows(c) ==
  /\ taskCall[c].at = "update"
  /\ taskCall[c].rows \subseteq Finished
  /\ tasks' = [k \in Keys |-> IF k \in taskCall[c].rows THEN [tasks[k] EXCEPT !.gone = TRUE]
                              ELSE tasks[k]]
  /\ taskCall' = [taskCall EXCEPT ![c] = NoTaskCall]
  /\ UNCHANGED clicks

\* A conflict, a deadlock that the database breaks, a lost connection.
UndoTaskCall(c) ==
  /\ taskCall[c].at # "idle"
  /\ taskCall' = [taskCall EXCEPT ![c] = NoTaskCall]
  /\ UNCHANGED <<tasks, clicks>>

TasksNext ==
  \/ \E c \in TaskCalls :
       \/ BeginSync(c) \/ SyncItem(c) \/ CommitSync(c)
       \/ AskRemoval(c) \/ SelectRows(c) \/ RemoveRows(c) \/ UndoTaskCall(c)
  \/ \E k \in Keys : Click(k)

TasksSpec == TasksInit /\ [][TasksNext]_taskVars

----------------------------------------------------------------------------
(* A group removal takes away the rows the operator was shown, in the state   *)
(* they were shown in, and no others, whatever is clicked, removed or         *)
(* synchronised in between (the snapshot of removeOperatorTaskGroup and the   *)
(* locks it is compared under).                                               *)
RemovesWhatWasShown ==
  [][\A c \in TaskCalls :
       /\ taskCall[c].at = "update" /\ taskCall[c].whole
       /\ taskCall'[c].at = "idle" /\ tasks' # tasks
       => Snapshot({k \in Keys : tasks'[k].gone /\ ~tasks[k].gone}) = taskCall[c].shown]_taskVars
=============================================================================
