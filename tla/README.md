# mai-mcp in TLA+

mai-mcp is a memory server for coding agents: each agent session runs one MCP
server process (`src/src/index.ts`), all of them share one PostgreSQL database, and
operators work on the same tables through a dashboard (`src/src/web-server.ts`) and a
command line (`src/src/cli.ts`). There is no other channel between the processes. What
is hard about the program is therefore what happens between two SQL statements of a
process: other calls of the same process (every `await` yields), other processes, and
death.

Paths below are relative to the repository, whose implementation is `src/src/`.

## 1. Inventory

Each entry: the state a component keeps, its operations, with whom it interacts, what is
hard, and what makes it correct. `PROJECT.json` lists the same components with their
files and the hazards with their lines.

**Write gate** (`src/write-gate.ts`). State: `_sessionTokenId`, a variable of each server
process; tables `write_session_tokens` (read result ids by bucket, tallies) and
`write_violations`. Operations: mint the token, record the ids a read returned, admit or
refuse a memory write by its citation (Cat A) or justification (Cat C), log a refusal,
tally a success and close the newest open refusal. Called by every read verb and every
write verb. Hard: the variable is tested before an `await` and set after it; the tallies
are written outside the transaction of the write. Correct: what is cited was read in the
same process; tallies agree with rows.

**Decisions and lessons** (`decisions.ts`, `lessons.ts`). State: the two tables, with
validity, retirement, `relearned_count`, `surfaced_count`, `cited_count`, confidence.
Operations: add (a lesson close to an existing one is folded into it), retract/restore,
retire/restore, promote, search. Hard: the fold decides on a search made before the
transaction; confidence is read, computed and written back. Correct: a citation and its
counter are one transaction; a fold loses nothing.

**Curation** (`curation.ts`). State: `curation_candidates` (questions to the operator and
their answers), `memory_citations` with a supersession status. Operations: cite, propose a
retraction, keep, retire, undo, apply or dismiss a supersession, promote a lesson to a rule,
reject it, remove the rule, recount. Interacts with both tables above and with routes and
commands that retract outside of any verdict. Hard: verdicts of several operators, agents
and a batch command on the same rows, multi-row locking. Correct: each verdict is
indivisible; one rule per lesson; one open question per memory.

**Path claims** (`coordination/claims.ts`, `claim-warn.ts`). State: `agent_claims`; per
process the time of the last heartbeat and a watermark. Operations: claim, release, expire,
heartbeat with nudge, the pre-edit hook. Hard: insert and overlap query race; expiry races
renewal; the watermark advances before the nudge is delivered. Correct: of two overlapping
claimants one is told; a working session keeps its lease; a dead one loses it.

**Agent board** (`coordination/board.ts`). State: `agent_messages`, a nudge watermark per
process. Operations: post with a retry key, resolve a message, read, nudge, plan notes.
Hard: retries, commit order against creation order. Correct: a post is stored once,
resolution and reply are one, nothing new is skipped.

**Plans, findings, lifecycle** (`plans.ts`, `code-findings.ts`, `git/plan-lifecycle.ts`).
State: plans with a status and a file hash, review passes, findings and their references.
Operations: register, review, verdict notice, advance by git evidence. Hard: pass numbers
chosen by two reviewers, evidence that is stale when it is written, a notice after COMMIT.
Correct: passes are numbered without gaps or twins; a transition follows from evidence that
holds when it is made.

**Code graph** (`graph/`). State: nodes and edges with a freshness mark, the writer's
advisory lock, the watcher's timers. Operations: build, update, watch, query. Hard: one
writer at a time although its database session may be lost; debounce, rate limit and retry.
Correct: one writer per project; every change seen is eventually indexed.

**Rule files and locks** (`rules-render.ts`, `repo-managed-write.ts`,
`project-projection-lock.ts`, `platform/locks.ts`). State: managed files, advisory locks, a
SQLite lock file. Hard: a lock holder that needs more connections of the pool it holds one
of; a check before a rename; deadlines. Correct: no file edited by hand is overwritten
unnoticed; somebody always proceeds.

**Shares** (`shares.ts`), **ideas and operator tasks** (`ideas.ts`, `operator-tasks.ts`),
**receipts and artifacts**. State: grants and links, ranked bands, mirrored tasks,
insert-once rows. Hard: lock order between grant and revoke, drift of an idea's band while
its band is being locked, insert-or-find. Correct: nothing revoked is served; ranks of a
band are a permutation; a task is mirrored once.

**Capture** (`ingest.ts`, `summarize.ts`, `capture/`, `notes.ts`). State: sessions,
messages, tracking files. Hard: the closing hook and the sweep record one session at once;
a file is created after a check that it is missing. Correct: idempotent by session.

**Read budgets** (`prime-budget.ts`, `read-budget.ts`). State: none of their own; a reader of
a long text keeps the number of the next part. Operations: divide the characters of an answer
among the sources of `mai_prime`, cut a text into pages. Hard: rounding, caps and a second
pass; page lengths that depend on how many pages there are, and on a header others change
between two requests. Correct: no character lost or spent twice; the parts are the text.

**Everything else**: prime text, embeddings, model providers, dispatch tables,
database pool, web routing, installation scripts, navigation, front end, vendored code.
Formatting, I/O, or single statements with no state between steps.

## 2. Plan

| order | modules | what it settles | status |
| --- | --- | --- | --- |
| 1 | WriteGate | admission and accounting of writes | checked, proved |
| 2 | Claims | overlap answers, leases, nudges | checked, proved |
| 3 | Verdicts, Curation | transactions of curation implement indivisible verdicts | checked, proved |
| 4 | Board | retry key, resolution, nudge watermark by creation time | checked, proved |
| 5 | ReviewLedger, Plans | numbered passes and their retry, late notices, git evidence re-validated under locks, as an abstract ledger of reviews | checked, proved |
| 6 | Ideas, OperatorTasks, Shares | lock orders, what was shown against what is written | checked, proved |
| 7 | Capture | the watermark of a transcript against crashes and a growing file | checked, proved |
| 8 | GraphWatch, SemanticIndex, Dashboard | liveness of the scheduler, writers and workers that have lost their rights, one server on record | checked, proved |
| 9 | PrimeBudget, ReadPages | arithmetic of answers that must fit | checked, proved |

The rename of managed files and lesson confidence were planned and dropped (section 7).

## 3. Modules and code

| module | what it is |
| --- | --- |
| `WriteGate` | the gate as interleaved statements of concurrent tool calls |
| `Claims` | claims, heartbeats and the edit hook, with ages for time |
| `Verdicts` | abstract: writes and verdicts as indivisible steps |
| `Curation` | the same as transactions with row locks; `V == INSTANCE Verdicts` |
| `Board` | posts as transactions, nudges by watermark |
| `ReviewLedger` | abstract: what a plan's reviews promise |
| `Plans` | reviews, registration, notices and the ingest hook as transactions; `L == INSTANCE ReviewLedger` |
| `Ideas`, `OperatorTasks`, `Shares` | the roadmap, the operator's tasks, cross-project grants, statement by statement |
| `Capture` | segmented ingest of one transcript, sweeps, crashes |
| `GraphWatch` | scheduler, watcher, writer's lease |
| `SemanticIndex` | jobs, policy, the worker's save |
| `Dashboard` | commands, runner and stoppers over one state file |
| `PrimeBudget` | division of an answer among its sources, and the two rendering passes |
| `ReadPages` | a text read part by part under a header that changes |
| `MC*` | constants for TLC: requests, lanes, files, symmetry; `MCCoordination` and `MCHost` put components side by side |
| `*Proofs` | inductive invariants and theorems |

Operators named "Wrong on purpose" are not part of any specification: each is a plausible
mistake in the definition after it, and shows that a run would notice.

### WriteGate

An action is the code between two `await`s. A tool call `c` runs in process `proc[c]` with
arguments `req[c]`; `pc[c]` names the statement it is at. `memo[p]` is `_sessionTokenId`,
`tok[c]` the local `tokenId`. A token row and a memory row are named by the call that
inserted them. `Start` is the call up to its first `ensureSessionToken`, `Mint` the INSERT
with the assignment after it, `Surface` and `RecordRead` are the two statements of
`recordReadResults`, `Check` is `verifyCatA`/`verifyCatC`, `Commit` the one transaction of
`decisionAdd`, `lessonAdd` (fold included) or a note, `CountSuccess`/`CloseViolation` and
`LogViolation`/`TallyRejection` the accounting after it. `Crash` ends a process in any of
these places.

Left out: the text of a refusal and its preview search, thresholds of justification length
(a request is "malformed" or not), and the bucket of notes, which no write cites from.

### Claims

An action is one statement with the code up to the next `await`. A claim row is named by
the call of `mai_claim` that inserts it. `Claim`, `Begin`, `Insert`, `FindTwin`,
`RefreshTwin`, `Answer` are `claimCreate`; `StartBeat`, `RenewOwn`, `ReadUnseen`, `Match` are
`claimsBeatAndNudge` with `piggybackNudge`; `Touch` is the pre-edit hook. The INSERT is two
actions: its transaction begins, which is its `created_at` (`Begin`; two may have the same),
and commits, from when on others see the row (`Insert`), so that a row may appear behind a
later stamp. Ages saturate one past `Expire`. Paths and globs are sequences of symbols,
because the heuristic under test compares prefixes of text.

Left out: a second heartbeat pass of a session while one is running (the throttle keeps
them a minute apart), path canonicalisation, how the hook finds its server's process id.

### Verdicts and Curation

`Verdicts` says what an agent or an operator may rely on: `Retire` retires a live memory
and answers the open question in one step, `Apply` retires the cited memory while the
citing one lives, `Promote` makes a rule of a lesson that is none. `Curation` has the
transactions: `op[o]` is what database session `o` is doing, at which statement, with which
rows; `Holds(o)` are the row locks that follow from it. A session waits for `Free`, looks
again at what it has locked (`Meets`), and takes effect at COMMIT. `Abort` is a throw, a
lost session or PostgreSQL ending a deadlock, and undoes everything. Statements outside a
transaction (`Keep` of an open question, `Dismiss`, `Unpromote`, `Direct`) are one action;
`Direct` are the retractions of the triage queue, the command line and `mai_unretract`,
which know of no questions.

`recount` is one transaction whose two UPDATEs count when they begin and write when they
have their rows; `totals[o]` is what they have counted.

Abstracted: one project, so no globalised lessons; decisions cite decisions and lessons
cite lessons, as the gate's buckets have it; `relearned_count` saturates at
`Threshold`, above which nothing looks; rows are numbered by insertion, which is also the
order in which answered rows are found again (`resolved_at` in the code); the refresh of
rendered rules after COMMIT changes no row modelled here.

### Board

A post is one transaction, and `created_at` is the time at which it begins, so rows are named
by the order in which transactions begin while `order` is the order in which they commit.
`BeginPost` is `postMessageInTransaction` up to the INSERT, `Insert` the INSERT, which waits
for another transaction with its key, `CommitPost` the UPDATE of the answered row with COMMIT
(nothing can come between: the UPDATE's row lock lasts that long). `Nudge` is `boardNudge`.
Left out: a process's watermark at its start is the clock, so that older messages are not
news; reading; the server's plan notes, which are in Plans.

### ReviewLedger and Plans

`ReviewLedger` has four steps: a pass is recorded under the next number, the newest pass is
announced, execution starts from an approval of the registered text, and the operator
registers anything else. `Plans` has the transactions. `BeginReview` to `CommitPass` are
`reviewPost` with `reviewPostOnce`: the number is read in the snapshot of an
`INSERT .. SELECT MAX(pass) + 1`, the unique index lets one transaction of a number through,
`Collide` is the retry. `Lock`, `Decide`, `Deliver` are `postPlanNote` and `retractPlanNote`,
for a verdict (`notifyVerdict`) and for the ingest hook (`advancePlanLifecycle`), which
judges (`Evaluate`) before it locks and again (`StillRight`) after. Locks are not variables:
`HasRow`, `TablesFree`, `HasKeyShare` say which statement implies which lock. The file's hash
is its version; `current_sha` may be that of any version so far, since it is read before the
transaction. Left out: alias consolidation, the text's chunks, findings other than whether
any is open.

### Ideas, OperatorTasks, Shares

One action per statement of a transaction. In `Ideas`, `held` are a request's advisory band
locks and `rows` its row locks; a reorder carries what the browser showed (`seen`, the ideas
of a band with their places) and what it asks for (`order`, a place for each). In `OperatorTasks`, `shown` is the snapshot of `(key, updated_at)` a
removal was asked with; only group removals compare it, those by name only want finished
rows. In `Shares`, `held` are project rows locked in the order of their identifiers, and an
artifact's row is locked from `CopyArtifact` to COMMIT. In Ideas bands differ in status
alone, because priority is only the other half of a band's key.

### Capture

A transcript is a sequence of entries, the last maybe half written. An entry has a line: a
time stamp soon or late after the one before it, or none, and a compaction mark, a thinking
block or neither. `Opens` is the rule of `segmentEntries` for whether it opens a segment, with
what it depends on: the stamps since the place where this reading began (`lastStampedMs`
starts empty) and the thinking blocks since the segment began. `Stat`, `Plan`, `Unmark`,
`PersistOne`, `WriteMark`, `Tidy` are `ingestTranscriptSegmented` with each autocommitted
statement on its own; `ConsiderSweep`, `LockSweep`, `RecheckSweep` are the sweep before it.
Hooks take no lock. Sizes are counted in halves of entries. Modification times are
milliseconds, rounded up: a write may have the time of the write before (`Now`). The file may
be cut anywhere while no ingest is under way, and grow again to any size.

The code does skip entries in some cases, and `NothingSkipped` says which. It excepts entries
written after the stat in the very millisecond of the time the stat read (`Promised`), and
three mishaps which the model keeps a record of (`mishaps`): an ingest without the lock ran
beside another; the file was cut below the watermark and grew back to its size before an
ingest looked; a reingest ended between its first row and its watermark. The record of the
last two is cleared when the watermark is dropped or, by a reingest, written.

### GraphWatch

`watch` has the fields of `createWatchScheduler` and `WatchChanges`, with times as what is
left of them. `BeginPass` is the timer, `CensusReads` the rest of `pass()` up to the update,
`Acquire`, `Scan`, `WriteIndex` the update inside `withGraphWriter`, `PassFailed` the catch.
The sources and the graph are versions of what an update looks after, which is all but
Kotlin's and Swift's files: those `repoDelta` leaves to a build, and a watcher that finds only
them changed has nothing to do and takes that for success. `built` says whether there is a
graph at all; without one an update succeeds and writes nothing (`NoGraph`). What is parsed is
left out. A build is any other writer. `LoseSession` is PostgreSQL dropping the session of a writer, which frees the lease
at once; the process hears of it later.

### SemanticIndex

`saveDocument` is four actions, one for each lock and one for COMMIT; so is `changePolicy`.
A job's worker is a process, which lives on when the job is cancelled or recovered. One
symbol stands for all: the locks of a save are on the rows of one.

### Dashboard

A launch has a starter, a runner and a server. What a process does under one acquisition of
the state lock is one action, except in the runner's preparation, which spawns the server
with the lock held and may die or fail there (`SpawnServer`, `PublishPid`, `PublishRunning`),
to the release of the lock after the running state was published (`Supervise`,
`PublishFails`). A stopper that does not get the lock in time throws and may live on
(`StopperGivesUp`), and is taken over by nobody until it is dead. The death of a process
releases the lock, as SQLite's does. Identities are never confused: that
is what birth ids and launch ids are for.

### PrimeBudget and ReadPages

Texts are their lengths. `Allocated` is `allocatePrimeBudget` as one function: the loops over
the sources in their order become sums over the sources before one, and the ranking by
remainder a count of those ahead. `RenderFirst`, `RenderAgain`, `Pass` are the two loops of
`renderPrimeAllocation`, one source a step; what a source renders within its budget is any
length from its minimum up. The assertions of both functions are conjuncts of `PrimeFits`.

`ReadPages` has the lengths of the code, for the synthesis of a review pass. `Tries` are the
numbers of parts that the loop of `budgetPage` tries, one function of the try, and `Total` is
the one it stops at, if it does; `Digits` counts the powers of ten up to 10^9, above the
length of any string. `FetchPage` one request of `mai_plan` with a part, which reads plan and
counts anew; `HeaderMoves` is anybody's change of them. Left out: other kinds of pages (their
headers do not change), the check that a page is framed, and answers that are not paged.

## 4. Runs

| run | what it shows |
| --- | --- |
| `write_gate` | 2 processes, 3 calls, 1 lesson: citations were read in the same process and bucket, novelty followed a search, merged reads stay citable, what is citable was counted as surfaced, tallies agree with rows, crashes anywhere |
| `write_gate_one_token` | *violated:* two first calls of one process mint two tokens |
| `write_gate_recovered` | *violated:* a write committed before a refusal closes it as "recovered" |
| `claims` | 2 sessions, 2 claims, a directory with and without wildcard and a file below: of two standing claims that share a file one author was told; no claim is nudged twice |
| `claims_leases` | a lease of 3 ticks under a throttle of 2: a session that goes on beating keeps its leases, a dead session's lease lapses |
| `claims_nudge_lost` | *violated:* the watermark passes a claim whose nudge is dropped |
| `claims_foreign_touch` | *violated:* the edit hook renews a dead session's lease through a reused process id |
| `curation` | 1 decision and 1 lesson with 2 rows, or 2 lessons with a citation and 1 row; an agent, two operators, a recount: every transaction is one step of Verdicts (supersession against retirement, undo and promotion among them), one rule, one open question |
| `curation_recount` | *violated:* a recount overwrites the counter of a citation that committed after it counted |
| `coordination` | Board, Plans, Ideas, OperatorTasks, Shares and Capture: a post is stored once and closes what it answers, nudges skip only what was overtaken, reviews are the ledger's, the hook's transitions hold at COMMIT, ranks and reorders of the roadmap, removals as shown, grants that copy what stands, no circle of waits, no transcript entry skipped but in the cases `NothingSkipped` names |
| `host` | GraphWatch, SemanticIndex, Dashboard, PrimeBudget and ReadPages: every change is eventually indexed, where there is a graph, and the graph never goes back, nothing stale or unwanted is stored in the semantic index, every live server is on record and no phase lasts, an answer is divided to the last character, the pages of a text are the text |
| `read_pages_moved` | *violated:* the plan's header grows by a character between two parts of a synthesis, which is then read in part twice, or not whole |

The violated runs are disagreements between the code and what its own comments, tests or
usage lines say; `PROJECT.json` quotes each under "findings".

**Components side by side.** The components of `coordination` share no modelled state, and
neither do those of `host`. Their runs are sums, not products: a component moves only while
the others are in their initial states, so the states reached are those of each component by
itself. A property of one component reads only its variables, and loses nothing by it. In
`host` the fair actions of the other components are disabled in their initial states, so
that the fairness of one does not touch another. That a behaviour of the sum is a behaviour
of each component is proved (`CoordinationRunsItsComponents`, `HostRunsItsComponents`), so
what is proved of a component holds of the model that runs.

**Bounds.** Two actors are enough for every race these modules have, because each
property relates one step of one actor to one of another; a third call in `write_gate` lets
a read, a write that cites and a refusal meet, in one process or across a restart. Two
claims suffice for a property of pairs, one with a wildcard and one without covers the
three forms a glob takes against a file. `Threshold = 1` makes a lesson promotable after
one fold; larger values delay that and nothing else. `Rows = {1, 2}` lets a question be
answered and another asked, which is what the undo of a retirement must cope with; when the
rows are used up, actions that need one wait (a bound, not a claim about the code), as they
do for `Edges`. The constraint `Small` keeps the `curation` run to a decision and a lesson
with two rows or two lessons with one: a supersession needs two memories of a kind, the undo
of a retirement two rows, and nothing needs both. The claims run with `Expire = 0` has every lease expire at the first tick,
so that expiry meets every interleaving; `claims_leases` has proper times. Begin and commit of
the two INSERTs interleave in every order, with equal stamps too.

In `coordination`: three calls and three posts (`MaxPosts`) let an attempt, its retry and
another session's post overlap, and a later post overtake an earlier one below a watermark.
Two reviewers with two passes and one run of the hook give a collision, a late notice and a
verdict between judgement and transition, and the two collisions in one call that it takes
to be refused. One edit of the plan file tells an approved text from another.
Three bands in the order of their keys with two ideas and two requests give moves in both
directions between two bands, and drift; `MaxIdeaWrites = 2` lets one write come between
another's reading and its end. Four clicks finish two tasks, reopen one and finish it again
under a removal. Two shares are a grant with its regrant, or one in each direction. A
transcript of three entries and three writes, with two times, is torn, completed, cut, or grown
under an ingest, within its millisecond or after it; one hook is a reingest, two sweeps
compete. Its lines are two that open a segment, one by its time, which depends on where
reading began, and one by a compaction mark; the third rule, thinking blocks, is covered by the
proof only. The constraint `TwoIngests` ends behaviours in which an ingest without lock has
run beside another, of which `NothingSkipped` says nothing, and keeps two ingests under way
at most, waiting sweeps included.

In `host`: one tick of debounce and two of the minimum interval keep a deadline of each kind
pending while others pass; two changes, one other build and one fault place a failure
before, in and after an update with a change during it. `MaxFaults` bounds failures because
endless ones may defer an update endlessly, which is no property of the code to prove or
refute. The host starts with a graph or without. Two launches and two stoppers are two generations of server and a stop that is taken
over. Two jobs, two revisions and two versions of the symbol give a lost worker beside its
successor. Three sources, one with nothing to say, less than its minimum, less than its floor
or more, and answers from less than all minima to as much as all demands, give every branch of
the division; floors of 4, 1 and 2 leave remainders. Texts of none, one, exactly one and nine
or ten full pages, each with one character more, are where a part is added and where the
number of parts gets a second digit; headers of 1001 characters are cut, and then do not move.

Symmetry is used for sessions, calls, processes, decisions, lessons, texts and reviewers where the
constants treat them alike, and in no run with liveness. Deadlock is checked in the claims
runs. In the others the finite calls, rows or counts may be used up and the system then
stops.

**Fairness.** `FairSpec` of Claims: time passes (`WF(Tick)`); a statement sent by a
live process returns (`WF(Create)`); a session in `Kept` begins and finishes heartbeats
(`WF(Beat)`): the worker channel calls a tool every 30 s while idle (`HEARTBEAT_MS`,
`scripts/mai-worker-session.mjs:17`). Nothing is assumed of other sessions, of the edit
hook, or of operators.

`GraphFairness`: timers run and fire (`Tick`, `BeginPass`), the file system tells of a
change (`Hint`), a pass, an update and another writer's build end in success or failure, and
a writer that hears of its lost session exits (`onLost`). Nothing is assumed of changes,
noise, faults, starts and stops; a stopped watcher owes nothing, nor does one without a graph,
and `EventuallyIndexed` says so. That changes are bounded means that the sources come to
rest: changes that follow one another sooner than the debounce put the update off. `DashFairness`: a process that has begun goes on, unless it is killed, which no fairness
prevents; commands are never assumed to be entered.

## 5. Proofs

All for any number of processes, sessions, calls, memories, rows, lanes, lengths and times,
from the named ASSUMEs of each module (disjoint kinds, fresh null, numbered rows, finite
sets, bounds that are numbers) and nothing else. Each module of proofs opens with its argument; every
component has one inductive invariant, with a lemma for each action that keeps it.

- **WriteGateProofs**: `TypeCorrect`, `CitationsWereRead`, `NovelWritesWereSearched`. The
  strengthening says that a process's calls only ever hold tokens minted by that process,
  and that whatever a token's bucket contains was put there by a finished read that held
  this token (`Evidence`, `Control`). A citation admitted by `Check` therefore names such a
  read, however many tokens the mint race produced. The accounts, `BooksInvariant` and from
  it `ReadsStay`, `CitableAreSurfaced`, `TalliesAgree`, `SuccessesAreWritten`, need to know what a row is still owed: `Recorded` and
  `SurfacedFirst` for the buckets, `Persisted`, `Ordered`, `Tallied` and `Counts` for the
  tallies, each a statement about the calls that are between two of their statements.
- **ClaimsProofs**: `SharedFileOverlaps` is about globs alone: two globs that hold one file
  have static prefixes that are both prefixes of its path, so one is a prefix of the other.
  `SharedFileAlwaysReported` rests on `Reported`: a claim is inserted before its call looks
  for others, so of two standing claims the later look saw both. `WorkingLeaseAlwaysHeld`
  rests on `Fresh`: no lease is older than the last heartbeat its session began, unless that
  heartbeat has not renewed yet or failed to. `ClaimsAreNudgedOnce` rests on `Noted`: what a
  session was told of is stamped no later than its watermark.
- **CurationProofs**: `Atomic` (Curation implements Verdicts), `OneRuleAlways`,
  `OneOpenQuestionAlways`, `TypeCorrect`. The invariant says what a transaction has read of
  the rows it holds (`Applying`, `Judging`, `Writing`, `Filing`) and that a row has one
  holder (`Exclusive`). The two halves of a step are separate: its own session keeps its
  part (`Acts`), and no other session's part is touched, since a step changes only rows it
  holds or finds free (`Undisturbed`). `OneRule` and `OneOpenQuestion` are not inductive by
  themselves: the second rule is kept out by the lock a promotion holds between its check
  and its insertion, which is what `Judging` remembers.
- **BoardProofs**: `PostsAreStoredOnce`, `RepliesClose`, `NudgesSkipOnlyTheOvertaken`. A key
  has one transaction past its INSERT (`KeysApart`). Times of rows and transactions differ
  (`TimesApart`), commits are numbered and fewer than transactions begun (`Settled`,
  `OrdersApart`), and a watermark is the time of a message its agent was told of
  (`WatermarkTold`).
- **PlansProofs**: `PlansImplementLedger`, step by step: a COMMIT is the ledger's step and
  every other action none of it. `Numbers` (a number read is at most one ahead, and that of
  the transaction the index let through is the next), `Locks` (who holds the plan row and
  the tables) and `Decided` (what a transaction has checked under its locks is so until it
  commits) also give `DecisionsStand`, `ThreadHasOneOpenNote`, `RefusalsHaveTwoCauses`.
- **CoordinationProofs**: Shares by the lock order (`Held`), from which a request past its locks
  is alone with what it has read (`Grants`) and the audit trail is right (`Trail`); Tasks by
  `RowsHeld`; Ideas by `BandsApart`, and what a request has found in the bands it holds
  (`Fits`, `Judged`). `SharesDoNotDeadlock` and `WritesDoNotDeadlock` are the two parts of
  `NoCircle` (`NobodyWaitsInACircle`): a circle of waits would have a request that waits and
  for which, by the order of the locks, nobody in the circle waits.
  `CoordinationRunsItsComponents`: a step of the sum is a step of one component and of none
  of the others; with the type invariants of the six, `CoordinationTypes` follows.
- **HostProofs**: `HostRunsItsComponents` and `HostTypes`, as in CoordinationProofs, here with
  the fairness of watcher and dashboard. `ScansAreNotOvertaken` by `Fenced`: a writer's database session is the
  lease, so a graph is never replaced by an older scan, whenever sessions are lost.
  `VectorsAreWanted` by `Locks`: project, then job, then symbol. `EveryLivingServerIsOnRecord`
  by `Launching` and `Spawned`: what may be cleared is never the file of a live server, so no
  second one is started beside it. It does not say that start and stop can reach the server:
  one whose runner was killed while it launched they only refuse (section 6).
  Under the liveness properties lie two invariants. `NoChangeIsLost`: while the watcher runs
  and the graph, there already or about to be built (`Behind`), is behind, the change is `SeenTo` (its hint is owed, or waits under a check
  that has a time, or is being checked, or an update is wanted or will have scanned the
  sources as they are), so that somebody's next step is always due. `PhasesAreAttended`: a
  phase of the state file has the runner it belongs to, and a stop its stopper, alive or dead
  (`Attended`), so that there is somebody to end it or to be found dead.
  `AnswersFit` is arithmetic of any number of sources: sums of shares, multiples and
  remainders (`ScaledFit`: what integer division leaves is less than a character for each
  source, so one each for the first of them uses it up), then the two passes
  (`RenderedOnce`). `PagesAreWhole` is arithmetic of any length of text: the number of parts
  grows from one try to the next, and as long as it is not confirmed it gains a digit with
  every try, which it cannot do 32 times (`TotalConfirms`); a page of as many characters as
  the longest pointer leaves room for is within the budget (`TextFits`).
- **CaptureProofs**: `EntriesAreIngested`. However a reading has divided the entries into
  segments, between two of them each entry before the place it has reached is in one row and
  the others in none (`Filed`), and appending keeps that (`FiledKept`); where reading began
  matters to where segments end, not to that. One ingest at a time (`Alone`) goes from one
  beginning of a segment to the next, and leaves a watermark whose last row has what was in
  the file when it looked (`Holds`, `Marked`). What is in no mishap and older than the
  watermark's time, or within its size, was there.

**What makes true what is violated.** A counterexample says that a statement is false, not
why. The proofs say what is enough to make it true, so that all its causes are known:

| refuted | holds if | theorem and its invariant |
| --- | --- | --- |
| `OneTokenPerProcess` | no two calls of one process overlap (`OneAtATime`), whatever other processes do and wherever they crash | `OneTokenIfOneAtATime`: the memo names the process's one token, and is empty while it is minted (`Single`) |
| `RecoveredByLaterWrite` | the same | `RecoveredLaterIfOneAtATime`: what still runs when a violation is logged is not older than it (`Dated`) |
| `RenewedByOwner` | no two sessions have one process id (`PidsDiffer`) | `OwnersRenewIfPidsDiffer`: a call or pass in progress is that of a living session (`Living`) |
| `OverlapNudged` | every pass of a live session gets its nudge through (`NudgesArrive`), and no claim commits with a `created_at` that another session's watermark has reached (`ClaimsAppearInOrder`) | `OverlapsAreNudgedIfInOrder`: an overlap was in the answer, is yet to be read or named, or has been named (`Caught`) |
| `CountersMatchRows` | no citation commits of a memory that a recount under way has counted (`CountsStand`) | `CountersMatchIfCountsStand`; and with no condition, `CountersNeverExceed`: the race only loses counts, it never invents one |
| `Reconstructed` | the header keeps its length while the text is read (`moves = 0`) | `PagesAreWhole` |

Each condition excludes the races or faults it names and leaves the rest: other processes,
sessions and operators interleave as before, and crash as before. `OverlapNudged` has two
causes. The run `claims_nudge_lost` shows the first, a nudge that is dropped; the second, an
INSERT that begins before another's and commits after that was read, takes three claims, one
more than the run has.

**Induction** over numbers and sets is not cited from the library as a rule, which would take
an operator; it is by the least element of a set for which something fails (`WFMin`), stated
once as `Numbering` or `OneByOne` and applied to a set. So what `SumFunctionOnSet`
computes, or the thirty-second try, is proved of functions, and no module a theorem is about
declares a RECURSIVE operator.

**What the proofs changed.** Some assumptions were too weak, and TLC's constants had hidden
it: no symbol at all (`MaxSymbol` is at least 1), no length of an answer or of a text
(`Budgets`, `Bodies`, `Headers` are not empty), a hook or stopper with the name of nobody.
That an unlocked ingest beside another spoils the rows was expected; that a reingest spoils
them when it ends between its rows and its watermark, because it divides the transcript anew
under a watermark that counts segments the old way, came from the proof.

**Model-checked only.** Liveness under fairness is beyond the prover: `CrashedLeaseLapses`,
`EventuallyIndexed`, `PhasesEnd`. Of each, what safety it rests on is proved: that nobody but
the owner renews a lease, if process ids differ (`OwnersRenewIfPidsDiffer`), `NoChangeIsLost`,
`PhasesAreAttended`. Every other property of a passing run, invariant or action property, is a
theorem. What the violated runs state is false, and true under the conditions above.

## 6. Noticed on the way

Not stated as runs, since no comment, document or test says otherwise, or since no module has
the state they are about:

- a nudge compares claims of any checkout (`claims.ts:341`), the answer to `mai_claim` only
  those of the same `repo_root`;
- `docs/architecture.md` calls every change of liveness an operator's; `mai_unretract` is an
  agent's tool;
- a proposal filed after a retirement makes the undo of that retirement fail on the unique
  index of open questions until the proposal is answered (`CommitUnretire`);
- undoing a retirement does not reopen a supersession that caused it; the dashboard offers
  the undo for retirements only;
- a post whose transaction begins before another's and commits after it is never shown by
  `boardNudge` to a process that has seen the other (`SkippedOnlyIfOvertaken` says that this
  is the only way);
- hooks and commands ingest without the sweep's advisory lock: two overlapping ingests of
  one transcript can leave an older segment, or deleted rows, under a watermark that says
  the transcript is done (mishap `overlap` of `NothingSkipped`);
- a transcript that is cut and grows past its old size before the next ingest is read on from
  the old offset (mishap `unnoticed`);
- a reingest that ends between its first row and its watermark leaves rows of its own division
  under the old watermark: entries may then be in two rows (mishap `rewriting`); one that dies
  between its watermark and its DELETE (`WriteMark`, `Tidy`) leaves rows of segments there are
  no more, until the next reingest;
- an entry written after the stat of an ingest, in the millisecond to which the stat's time is
  rounded up (`segment-ingest.ts:41`, compared with >= at :73), and not read by it, waits for
  the next write to the transcript (`Promised`);
- a server whose runner is killed between its spawn and the running state is on record in the
  phase "launching", where start and stop throw "incomplete launch; ownership cannot be proved"
  (`dashboard.ts:646`, `:785`) until it ends; if its pid had not been recorded, the file says
  launching for good, and has to be removed by hand;
- a stop that could not get the state lock for its last look (`StopperGivesUp`) is taken over
  by nobody as long as its process lives (`dashboard.ts:217`);
- a watcher's update takes "No graph yet" and changes of Kotlin and Swift alone for success
  (`update.ts:202`, `:218`; `watch-cli.ts:35`) and clears its mark: the graph stays as it is
  until a build; and while sources change more often than the debounce, no update begins;
- a census that fails gives its hints back as "everything": while censuses fail again and
  again, noise can defer an update (`MaxFaults` in section 4).

**Simplified in a modelled component**, each without effect on a property: in `Plans`, that a
process posts no server note it has posted before, and that the newest open note only is superseded
(there is one at most, `OneOpenNote`); in `ReadPages`, a review pass of more than one digit
in the pointer; in `Verdicts` and `Curation`, answered rows found by number, which stands for
`resolved_at`; in `Dashboard`, the release of the state lock of a living process when both its
rollback and its close fail.

## 7. Not modelled, and why

- Language extractors, graph queries and ranking: pure functions of text and rows, out of a
  model checker's reach at a useful size.
- Embeddings, model providers, summaries: numbers and HTTP; where they matter they are a
  nondeterministic choice.
- Managed files (`repo-managed-write.ts`) and notes files: the file system has no
  compare-and-rename, so a model would say no more than that an edit between the comparison
  and the rename (`repo-managed-write.ts:279`) is overwritten.
- Lesson confidence: read, computed and written in two statements (`lessons.ts:661`), so that
  one of two reports at once is lost; no modelled step reads it.
- Receipts, artifacts, facts, edges, code findings: one statement or one transaction that
  nothing else touches.
- Prime texts, cards, dispatch tables, web routes: formatting and routing of what
  the modelled components do.
- Installation, upgrade, backup and release scripts: sequential programs over files and
  child processes. Front end, vendored and generated code.

PostgreSQL is taken at its word: committed reads, atomic statements, row locks to the end of
a transaction, a unique index that turns away the second row, and advisory locks that end
with their session. So is SQLite: the death of a lock's holder releases it.
