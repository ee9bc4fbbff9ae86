------------------------------- MODULE Plans -------------------------------
(***************************************************************************)
(* One plan under review (src/src/plans.ts, src/src/git/plan-lifecycle.ts,    *)
(* src/src/git/remap.ts): reviewers record numbered passes and announce their *)
(* verdicts in the plan's board thread, operators register the plan and move *)
(* its status, the ingest hook advances it by git evidence, the executor      *)
(* closes findings and edits the file.                                       *)
(*                                                                          *)
(* A pass is one transaction, a note in the thread another.  Table locks and *)
(* row locks follow from the statement a transaction is at; statements that  *)
(* are transactions of their own are one action.  The plan file has versions *)
(* 0 .. MaxEdits, which stand for its hashes.                                *)
(***************************************************************************)
EXTENDS Naturals, FiniteSets

CONSTANTS
  Statuses,    \* PLAN_STATUSES: approved, executing, and others, which are alike
  Reviewers,   \* processes that post reviews of the plan
  Runs,        \* runs of the ingest hook
  MaxPasses,   \* bounds the passes of a behaviour
  MaxEdits     \* bounds the versions of the file

ASSUME PlanBounds == MaxPasses \in Nat /\ MaxEdits \in Nat
ASSUME StatusesTyped == {"draft", "approved", "executing"} \subseteq Statuses
ASSUME RunsApart == Runs \cap Reviewers = {}

VARIABLES
  file,      \* version of the plan file on disk
  sha,       \* plans.current_sha
  status,    \* plans.status
  passes,    \* number of rows in plan_reviews
  newest,    \* the one committed last
  findings,  \* plan_findings: none, some open, or all closed
  commit,    \* the task commit: none yet, live, or spent: older than the newest
             \* approved pass, or pruned by a history rewrite
  thread,    \* open server notes of the plan's thread
  announced, \* pass of the newest verdict note
  review,    \* the review a reviewer is posting
  note       \* the note transaction of a reviewer or a run

planVars == <<file, sha, status, passes, newest, findings, commit, thread, announced,
              review, note>>
rows == <<passes, newest>>
board == <<thread, announced>>

Versions == 0 .. MaxEdits
Prompts == {<<"mark executing?">>, <<"mark executed?">>}
NoteBodies(S) == Prompts \cup {<<"executing">>} \cup {<<"pass", i>> : i \in S}
Posters == Reviewers \cup Runs

NoPass == [num |-> 0, ok |-> FALSE, pin |-> 0]
NoReview == [at |-> "idle", num |-> 0, saw |-> FALSE, tries |-> 0, base |-> 0]
NoNote == [at |-> "idle", act |-> "none", seen |-> {}]

PlansTypeOK ==
  /\ file \in Versions /\ sha \in 0 .. file
  /\ status \in Statuses
  /\ passes \in 0 .. MaxPasses
  /\ newest \in [num : 0 .. passes, ok : BOOLEAN, pin : 0 .. file]
  /\ findings \in {"none", "open", "closed"}
  /\ commit \in {"none", "live", "spent"}
  /\ thread \subseteq NoteBodies(1 .. passes)
  /\ announced \in 0 .. passes
  /\ \A r \in Reviewers :
       /\ review[r].at \in {"idle", "number", "insert", "commit", "notify", "failed"}
       /\ review[r].tries \in 0 .. 2
       /\ review[r].base \in 0 .. passes
  /\ \A n \in Posters :
       /\ note[n].at \in {"idle", "lock", "decide", "commit"}
       /\ note[n].seen \subseteq NoteBodies(1 .. passes)
       /\ note[n].act \in {"none", "verdict", "retract", "flip", "suggest-executing",
                           "suggest-executed"}

PlansInit ==
  /\ file = 0 /\ sha = 0
  /\ status = "draft"
  /\ passes = 0 /\ newest = NoPass
  /\ findings = "none"
  /\ commit = "none"
  /\ thread = {} /\ announced = 0
  /\ review = [r \in Reviewers |-> NoReview]
  /\ note = [n \in Posters |-> NoNote]

----------------------------------------------------------------------------
\* Locks.  A note transaction has the plan row from its lock on; a run's also
\* has the evidence tables in SHARE mode.
HasRow(n) == note[n].at \in {"decide", "commit"}
RowFree == \A n \in Posters : ~HasRow(n)
TablesFree == \A n \in Runs : ~HasRow(n)

\* A pass keeps its row lock on the plan (the foreign key's) and its lock on
\* plan_reviews until it ends.
HasKeyShare(r) == review[r].at = "commit"
WritesReviews(r) == review[r].at \in {"insert", "commit"}

----------------------------------------------------------------------------
\* The newest pass approves the registered text, which is on disk
\* (syncWithClient, called before a status becomes executing).
ApprovedText ==
  /\ file = sha
  /\ passes > 0
  /\ newest.ok
  /\ newest.pin = sha

\* The executor or the author edits the plan file.
Edit ==
  /\ file < MaxEdits
  /\ file' = file + 1
  /\ UNCHANGED <<sha, status, rows, findings, commit, board, review, note>>

\* INSERT .. SELECT MAX(pass) + 1: the number is that of the statement's
\* snapshot.
Numbered(r) ==
  [review[r] EXCEPT !.at = "insert", !.num = passes + 1, !.saw = commit # "none"]

\* reviewPost up to that statement of its first attempt.
BeginReview(r) ==
  /\ review[r].at \in {"idle", "failed"}
  /\ passes < MaxPasses
  /\ TablesFree
  /\ review' = [review EXCEPT ![r] = [Numbered(r) EXCEPT !.tries = 0, !.base = passes]]
  /\ UNCHANGED <<file, sha, status, rows, findings, commit, board, note>>

\* The other attempt.
NumberAgain(r) ==
  /\ review[r].at = "number"
  /\ passes < MaxPasses
  /\ TablesFree
  /\ review' = [review EXCEPT ![r] = Numbered(r)]
  /\ UNCHANGED <<file, sha, status, rows, findings, commit, board, note>>

Taken(r) == review[r].num <= passes

\* Wrong on purpose: a pass number may be given twice.
InsertPassAlways(r) ==
  /\ review[r].at = "insert"
  /\ RowFree
  /\ review' = [review EXCEPT ![r].at = "commit"]
  /\ UNCHANGED <<file, sha, status, rows, findings, commit, board, note>>

\* The unique index lets one transaction of a number through and the foreign
\* key takes a lock on the plan row.
InsertPass(r) ==
  /\ review[r].at = "insert"
  /\ ~Taken(r)
  /\ \A q \in Reviewers \ {r} : review[q].at = "commit" => review[q].num # review[r].num
  /\ RowFree
  /\ review' = [review EXCEPT ![r].at = "commit"]
  /\ UNCHANGED <<file, sha, status, rows, findings, commit, board, note>>

\* Wrong on purpose: a collision is not retried.
CollideOnce(r) ==
  /\ review[r].at = "insert"
  /\ Taken(r)
  /\ review' = [review EXCEPT ![r].at = "failed"]
  /\ UNCHANGED <<file, sha, status, rows, findings, commit, board, note>>

\* 23505: the transaction is rolled back and tried once more.
Collide(r) ==
  /\ review[r].at = "insert"
  /\ Taken(r)
  /\ review' = [review EXCEPT ![r].tries = @ + 1,
                  ![r].at = IF review[r].tries = 0 THEN "number" ELSE "failed"]
  /\ UNCHANGED <<file, sha, status, rows, findings, commit, board, note>>

\* The rest of reviewPostOnce: the findings, which a blocked pass has and an approved
\* one may have (no blockers), current_sha, COMMIT.
\* The reviewer has read one version (plan_sha) and the call another, at any time
\* before.
CommitPass(r) ==
  /\ review[r].at = "commit"
  /\ \E ok \in BOOLEAN, pin \in 0 .. file :
       /\ newest' = [num |-> review[r].num, ok |-> ok, pin |-> pin]
       /\ findings' \in IF ok THEN {findings, "open"} ELSE {"open"}
       /\ commit' = IF ok /\ review[r].saw THEN "spent" ELSE commit
  /\ passes' = passes + 1
  /\ sha' \in 0 .. file
  /\ review' = [review EXCEPT ![r] = [NoReview EXCEPT !.at = "notify",
                                        !.num = review[r].num]]
  /\ UNCHANGED <<file, status, board, note>>

\* A throw or the death of the process, before COMMIT or before the notice, or a
\* notice that is "stale".
EndReview(r) ==
  /\ review[r].at # "idle"
  /\ review' = [review EXCEPT ![r] = NoReview]
  /\ note' = [note EXCEPT ![r] = NoNote]
  /\ UNCHANGED <<file, sha, status, rows, findings, commit, board>>

----------------------------------------------------------------------------
PlanRowFree == RowFree /\ \A r \in Reviewers : ~HasKeyShare(r)

\* The transaction of planRegister stores a status and the hash of the file,
\* which it has read at any time before.
Register ==
  /\ PlanRowFree
  /\ sha' \in 0 .. file
  /\ status' \in {status} \cup (Statuses \ {"executing"})
  /\ UNCHANGED <<file, rows, findings, commit, board, review, note>>

\* planRegister with status executing: only after syncPlanOperatorTasks has seen
\* the approval, in the same transaction.
StartExecution ==
  /\ PlanRowFree
  /\ status = "approved"
  /\ ApprovedText
  /\ status' = "executing"
  /\ UNCHANGED <<file, sha, rows, findings, commit, board, review, note>>

\* findingUpdate closes or reopens a finding.
UpdateFinding ==
  /\ TablesFree
  /\ findings # "none"
  /\ findings' \in {"open", "closed"}
  /\ UNCHANGED <<file, sha, status, rows, commit, board, review, note>>

\* The hook indexes a commit that touches the plan or names it.
IndexCommit ==
  /\ TablesFree
  /\ commit = "none"
  /\ commit' = "live"
  /\ UNCHANGED <<file, sha, status, rows, findings, board, review, note>>

\* Wrong on purpose: a rewrite only touches its own table, which nobody locks.
PruneUnlocked ==
  /\ commit = "live"
  /\ commit' = "spent"
  /\ UNCHANGED <<file, sha, status, rows, findings, board, review, note>>

\* remapGitHistory tombstones a commit in git_history_rewrites.  That table is
\* not among those a run locks, but that of the UPDATE before COMMIT is.
Prune ==
  /\ TablesFree
  /\ commit = "live"
  /\ commit' = "spent"
  /\ UNCHANGED <<file, sha, status, rows, findings, board, review, note>>

----------------------------------------------------------------------------
\* evaluateCandidate: what follows from the evidence; the setting planAutoAdvance
\* decides between a transition and a prompt.
Actions ==
  IF status \notin {"approved", "executing"} \/ commit # "live" THEN {"retract"}
  ELSE IF status = "approved" THEN {"flip", "suggest-executing"}
  ELSE IF findings # "open" THEN {"suggest-executed"}
  ELSE {"retract"}

BodyFor(act) ==
  CASE act = "flip" -> <<"executing">>
    [] act = "suggest-executing" -> <<"mark executing?">>
    [] act = "suggest-executed" -> <<"mark executed?">>

\* advancePlanLifecycle judges the plan without a lock.
Evaluate(l) ==
  /\ note[l].at = "idle"
  /\ \E act \in Actions :
       note' = [note EXCEPT ![l] = [NoNote EXCEPT !.at = "lock", !.act = act]]
  /\ UNCHANGED <<file, sha, status, rows, findings, commit, board, review>>

\* A run that has judged, or notifyVerdict after the COMMIT of the pass.
Wants(n) ==
  IF n \in Runs THEN note[n].at = "lock"
  ELSE note[n].at = "idle" /\ review[n].at = "notify"

Locked(n) ==
  note' = [note EXCEPT ![n].at = "decide",
                       ![n].act = IF n \in Runs THEN @ ELSE "verdict"]

\* Wrong on purpose: neither the advisory lock nor FOR UPDATE.
LockNothing(n) ==
  /\ Wants(n)
  /\ Locked(n)
  /\ UNCHANGED <<file, sha, status, rows, findings, commit, board, review>>

\* postPlanNote and retractPlanNote: advisory lock, tables, plan row.
Lock(n) ==
  /\ Wants(n)
  /\ PlanRowFree
  /\ n \in Runs => \A r \in Reviewers : ~WritesReviews(r)
  /\ Locked(n)
  /\ UNCHANGED <<file, sha, status, rows, findings, commit, board, review>>

\* What is checked once the locks are there; a transition also synchronises the
\* operator's tasks.
StillRight(n) ==
  IF n \in Runs THEN note[n].act \in Actions /\ (note[n].act = "flip" => ApprovedText)
  ELSE review[n].num = passes

\* Checked, and the open server note of the thread is looked up.
Decide(n) ==
  /\ note[n].at = "decide"
  /\ StillRight(n)
  /\ note' = [note EXCEPT ![n].at = "commit", ![n].seen = thread]
  /\ UNCHANGED <<file, sha, status, rows, findings, commit, board, review>>

\* "stale", or a throw, or the end of the run.
Leave(l) ==
  /\ note[l].at # "idle"
  /\ note' = [note EXCEPT ![l] = NoNote]
  /\ UNCHANGED <<file, sha, status, rows, findings, commit, board, review>>

\* The note replaces the newest open one, which is all there is (OneOpenNote), unless
\* that says the same.  That a process does not say the same twice (the session's arm
\* of postThreadNoteSuperseding) is left out.
Superseding(n, body) == (thread \ note[n].seen) \cup {body}

\* The transition, the note and the end of the note it supersedes commit as one.
Deliver(n) ==
  /\ note[n].at = "commit"
  /\ LET act == note[n].act
     IN /\ thread' = IF act = "retract" THEN thread \ (note[n].seen \cap Prompts)
                     ELSE Superseding(n, IF act = "verdict" THEN <<"pass", review[n].num>>
                                         ELSE BodyFor(act))
        /\ announced' = IF act = "verdict" THEN review[n].num ELSE announced
        /\ status' = IF act = "flip" THEN "executing" ELSE status
  /\ note' = [note EXCEPT ![n] = NoNote]
  /\ review' = [r \in Reviewers |-> IF r = n THEN NoReview ELSE review[r]]
  /\ UNCHANGED <<file, sha, rows, findings, commit>>

PlansNext ==
  \/ Edit
  \/ \E r \in Reviewers : \/ BeginReview(r) \/ NumberAgain(r) \/ InsertPass(r)
                          \/ Collide(r) \/ CommitPass(r) \/ EndReview(r)
  \/ Register \/ StartExecution
  \/ UpdateFinding \/ IndexCommit \/ Prune
  \/ \E l \in Runs : Evaluate(l) \/ Leave(l)
  \/ \E n \in Posters : Lock(n) \/ Decide(n) \/ Deliver(n)

PlansSpec == PlansInit /\ [][PlansNext]_planVars

----------------------------------------------------------------------------
L == INSTANCE ReviewLedger WITH
       Phases <- Statuses,
       Texts <- Versions,
       recorded <- passes,
       announced <- announced,
       phase <- status,
       text <- sha

(* Reviews, registrations, verdict notices and the hook, interleaved and     *)
(* aborted anywhere, look like the steps of ReviewLedger: passes have no      *)
(* twins and no gaps, a delayed notice never replaces that of a newer pass,   *)
(* execution starts only from an approved plan whose newest pass approved     *)
(* the registered text (reviewPost, postPlanNote, planRegister).              *)
ImplementsLedger == L!LedgerSpec

(* A reviewer is refused with a collision only when two passes of others      *)
(* were committed during its one call (the retry of reviewPost).              *)
RefusedOnlyIfOvertakenTwice ==
  \A r \in Reviewers : review[r].at = "failed" => passes >= review[r].base + 2

(* A plan's thread has at most one open server note, whoever posts: verdicts  *)
(* and prompts of the hook replace one another (postThreadNoteSuperseding).   *)
OneOpenNote == Cardinality(thread) <= 1

(* What the hook delivers is what the evidence says at its COMMIT: no review, *)
(* finding, commit or history rewrite comes between ("The post-lock           *)
(* re-derivation then stays true through COMMIT").                            *)
DecisionStands ==
  \A l \in Runs : note[l].at = "commit" => note[l].act \in Actions
=============================================================================
