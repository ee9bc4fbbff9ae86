----------------------------- MODULE WriteGate -----------------------------
(***************************************************************************)
(* The write gate of the MCP server: the session token every server        *)
(* process keeps in the database, the read verbs that fill it, the memory   *)
(* writes it lets through or turns away, and the two tallies kept beside    *)
(* it (write_session_tokens and write_violations).                          *)
(*                                                                          *)
(* A server process answers tool calls concurrently: every await in         *)
(* src/src/write-gate.ts is a point at which another call of the same       *)
(* process, or another process on the same database, may run.  One action   *)
(* is the code between two awaits.  A call is one tool call; it starts at    *)
(* most once, so the set Calls bounds a behaviour.  A token, and a memory,   *)
(* is named by the call that inserted its row.                              *)
(***************************************************************************)
EXTENDS Naturals, FiniteSets

CONSTANTS
  Procs,      \* server processes that may run (a respawned server is a new one)
  Calls,      \* tool calls that may be made
  Lessons,    \* lesson rows the database holds at the start
  Decisions,  \* decision rows the database holds at the start
  Requests,   \* arguments the agents' tool calls carry
  None        \* null

ASSUME CallsFinite == IsFiniteSet(Calls)
ASSUME NoneIsFresh == None \notin Calls \cup Procs \cup Lessons \cup Decisions
ASSUME SeedsAreFresh ==
  /\ (Lessons \cup Decisions) \cap Calls = {}
  /\ Lessons \cap Decisions = {}

VARIABLES
  up,         \* processes that have not crashed
  memo,       \* _sessionTokenId of each process
  pc,         \* where each call is
  after,      \* where it goes once ensureSessionToken has returned
  proc,       \* the process a call runs in
  req,        \* its arguments
  tok,        \* its local tokenId
  minted,     \* rows of write_session_tokens
  results,    \* result_set_ids of a token row, by bucket
  reads,      \* reads_count
  attempted,  \* writes_attempted
  succeeded,  \* writes_succeeded
  rejected,   \* writes_rejected
  surfaced,   \* surfaced_count of a memory
  home,       \* the memory a persisted write landed in
  citations,  \* rows of memory_citations
  cited,      \* cited_count of a memory
  violation,  \* session_token_id of the call's row of write_violations
  closedBy,   \* the call whose success set followup_succeeded on that row
  older       \* writes and violations persisted before the call's violation

server == <<up, memo, proc, req>>
local  == <<pc, after, tok>>
token  == <<minted, results, reads, attempted, succeeded, rejected>>
memory == <<surfaced, home, citations, cited>>
journal == <<violation, closedBy, older>>
vars == <<up, memo, pc, after, proc, req, tok, minted, results, reads,
          attempted, succeeded, rejected, surfaced, home, citations, cited,
          violation, closedBy, older>>

Kinds  == {"lesson", "decision"}
Memory == Lessons \cup Decisions \cup Calls

\* One shape for the arguments of every tool call.  "malformed" stands for
\* every refusal that needs no look at the token: a field over the limit, no
\* citation, an unknown kind, a short justification, a blank id, weak evidence.
Request ==
  [op : {"read", "add", "note"}, kind : Kinds, ids : SUBSET Memory,
   cite : {"none", "malformed", "novel", "cites"}]

ASSUME RequestsTyped ==
  /\ Requests \subseteq Request
  /\ \A r \in Requests : r.op # "read" /\ r.cite # "cites" => r.ids = {}
  /\ \A r \in Requests : r.cite = "cites" => r.op = "add"

Labels == {"idle", "token", "mint", "surface", "record", "check", "commit",
           "count", "close", "violation", "tally",
           "done", "rejected", "failed", "crashed"}
Ended  == {"done", "rejected", "failed", "crashed"}

\* The citation row of call c, written when memory m is the citing one.
Citation == [call : Calls, citing : Memory, cited : Memory, token : Calls]

TypeOK ==
  /\ up \subseteq Procs
  /\ memo \in [Procs -> Calls \cup {None}]
  /\ pc \in [Calls -> Labels]
  /\ after \in [Calls -> Labels]
  /\ proc \in [Calls -> Procs \cup {None}]
  /\ req \in [Calls -> Request]
  /\ tok \in [Calls -> Calls \cup {None}]
  /\ minted \subseteq Calls
  /\ results \in [Calls -> [Kinds -> SUBSET Memory]]
  /\ reads \in [Calls -> Nat]
  /\ attempted \in [Calls -> Nat]
  /\ succeeded \in [Calls -> Nat]
  /\ rejected \in [Calls -> Nat]
  /\ surfaced \in [Memory -> Nat]
  /\ home \in [Calls -> Memory \cup {None}]
  /\ citations \subseteq Citation
  /\ cited \in [Memory -> Nat]
  /\ violation \in [Calls -> Calls \cup {None}]
  /\ closedBy \in [Calls -> Calls \cup {None}]
  /\ older \in [Calls -> SUBSET Calls]

Init ==
  /\ up = Procs
  /\ memo = [p \in Procs |-> None]
  /\ pc = [c \in Calls |-> "idle"]
  /\ after = [c \in Calls |-> "idle"]
  /\ proc = [c \in Calls |-> None]
  /\ req = [c \in Calls |-> [op |-> "note", kind |-> "lesson", ids |-> {}, cite |-> "none"]]
  /\ tok = [c \in Calls |-> None]
  /\ minted = {}
  /\ results = [c \in Calls |-> [k \in Kinds |-> {}]]
  /\ reads = [c \in Calls |-> 0]
  /\ attempted = [c \in Calls |-> 0]
  /\ succeeded = [c \in Calls |-> 0]
  /\ rejected = [c \in Calls |-> 0]
  /\ surfaced = [m \in Memory |-> 0]
  /\ home = [c \in Calls |-> None]
  /\ citations = {}
  /\ cited = [m \in Memory |-> 0]
  /\ violation = [c \in Calls |-> None]
  /\ closedBy = [c \in Calls |-> None]
  /\ older = [c \in Calls |-> {}]

----------------------------------------------------------------------------
\* Adds and notes whose write is persisted.
Written == {c \in Calls : home[c] # None}

\* Rows a search of one bucket can return: the seeds and what was added since
\* and not folded into a near-duplicate.
Rows(kind) ==
  (IF kind = "lesson" THEN Lessons ELSE Decisions)
    \cup {c \in Calls : home[c] = c /\ req[c].op = "add" /\ req[c].kind = kind}

Goto(c, label) == pc' = [pc EXCEPT ![c] = label]

\* ensureSessionToken in process p, then on to label.  The memo is tested before
\* the first await, so a second call can find it empty while the INSERT of the
\* first one is on its way.
Ensure(c, p, label) ==
  IF memo[p] = None
  THEN Goto(c, "mint") /\ after' = [after EXCEPT ![c] = label] /\ UNCHANGED tok
  ELSE Goto(c, label) /\ tok' = [tok EXCEPT ![c] = memo[p]]
       /\ after' = [after EXCEPT ![c] = "idle"]

\* A later ensureSessionToken of the same call, with awaits before it.
EnsureLater(c, label) ==
  Goto(c, "token") /\ after' = [after EXCEPT ![c] = label]

\* What a call does with its first token.  An add or a note refused for its
\* arguments alone goes straight to the rejection.
Entry(r) ==
  IF r.op = "read" THEN "surface"
  ELSE IF r.cite = "malformed" THEN "violation"
  ELSE IF r.op = "add" THEN "check" ELSE "commit"

\* A tool call arrives at process p, up to its first ensureSessionToken.  A read
\* (any rows of one bucket, none included) has run its search; an agent may cite
\* any id at all.
Start(c, p, r) ==
  /\ p \in up
  /\ pc[c] = "idle"
  /\ r.op = "read" => r.ids \subseteq Rows(r.kind)
  /\ proc' = [proc EXCEPT ![c] = p]
  /\ req' = [req EXCEPT ![c] = r]
  /\ Ensure(c, p, Entry(r))
  /\ UNCHANGED <<up, memo, token, memory, journal>>

----------------------------------------------------------------------------
\* ensureSessionToken at the end of a rejection or a success.
UseMemo(c) ==
  /\ pc[c] = "token"
  /\ Ensure(c, proc[c], after[c])
  /\ UNCHANGED <<server, token, memory, journal>>

\* Wrong on purpose: the memo keeps the process id, not the row's id.
MintPid(c) ==
  /\ pc[c] = "mint"
  /\ minted' = minted \cup {c}
  /\ memo' = [memo EXCEPT ![proc[c]] = proc[c]]
  /\ tok' = [tok EXCEPT ![c] = proc[c]]
  /\ Goto(c, after[c])
  /\ after' = [after EXCEPT ![c] = "idle"]
  /\ UNCHANGED <<up, proc, req, results, reads, attempted, succeeded,
                 rejected, memory, journal>>

\* ... the INSERT of the token row and the assignment of the memo.
Mint(c) ==
  /\ pc[c] = "mint"
  /\ minted' = minted \cup {c}
  /\ memo' = [memo EXCEPT ![proc[c]] = c]
  /\ tok' = [tok EXCEPT ![c] = c]
  /\ Goto(c, after[c])
  /\ after' = [after EXCEPT ![c] = "idle"]
  /\ UNCHANGED <<up, proc, req, results, reads, attempted, succeeded,
                 rejected, memory, journal>>

\* recordReadResults: bumpSurfaced, one statement for all the ids.
Surface(c) ==
  /\ pc[c] = "surface"
  /\ surfaced' = [m \in Memory |->
                    IF m \in req[c].ids THEN surfaced[m] + 1 ELSE surfaced[m]]
  /\ Goto(c, "record")
  /\ UNCHANGED <<server, after, tok, token, home, citations, cited, journal>>

\* Wrong on purpose: the bucket is replaced by the newest result set.
RecordReadOverwrite(c) ==
  /\ pc[c] = "record"
  /\ results' = [results EXCEPT ![tok[c]][req[c].kind] = req[c].ids]
  /\ reads' = [reads EXCEPT ![tok[c]] = @ + 1]
  /\ Goto(c, "done")
  /\ UNCHANGED <<server, after, tok, minted, attempted, succeeded, rejected,
                 memory, journal>>

\* Wrong on purpose: bumpSurfaced is not awaited.
RecordReadEarly(c) ==
  /\ pc[c] \in {"surface", "record"}
  /\ results' = [results EXCEPT ![tok[c]][req[c].kind] = @ \cup req[c].ids]
  /\ reads' = [reads EXCEPT ![tok[c]] = @ + 1]
  /\ Goto(c, "done")
  /\ UNCHANGED <<server, after, tok, minted, attempted, succeeded, rejected,
                 memory, journal>>

\* recordReadResults: the ids join the token's bucket and the read is counted.
RecordRead(c) ==
  /\ pc[c] = "record"
  /\ results' = [results EXCEPT ![tok[c]][req[c].kind] = @ \cup req[c].ids]
  /\ reads' = [reads EXCEPT ![tok[c]] = @ + 1]
  /\ Goto(c, "done")
  /\ UNCHANGED <<server, after, tok, minted, attempted, succeeded, rejected,
                 memory, journal>>

----------------------------------------------------------------------------
\* Wrong on purpose: an id of any bucket may be cited.
AdmitsAnyBucket(c) ==
  LET t == tok[c] IN
    IF req[c].cite = "novel"
    THEN reads[t] > 0 \/ results[t][req[c].kind] # {}
    ELSE req[c].ids \subseteq UNION {results[t][k] : k \in Kinds}

\* Wrong on purpose: a long justification is enough to be novel.
AdmitsUnsearched(c) ==
  req[c].cite = "novel" \/ req[c].ids \subseteq results[tok[c]][req[c].kind]

\* What verifyCatA reads off the token row: a citation must name an id of the
\* bucket, a claim of novelty needs a search, zero hits included.
Admits(c) ==
  LET t == tok[c] IN
    IF req[c].cite = "novel"
    THEN reads[t] > 0 \/ results[t][req[c].kind] # {}
    ELSE req[c].ids \subseteq results[t][req[c].kind]

\* verifyCatA, from the SELECT of the token row to its verdict.
Check(c) ==
  /\ pc[c] = "check"
  /\ \/ Admits(c) /\ Goto(c, "commit") /\ UNCHANGED after
     \/ ~Admits(c) /\ EnsureLater(c, "violation")
  /\ UNCHANGED <<server, tok, token, memory, journal>>

\* The citation rows call c inserts when its text lands in memory m.
Cites(c, m) ==
  {[call |-> c, citing |-> m, cited |-> n, token |-> tok[c]] : n \in req[c].ids}

\* decisionAdd and lessonAdd: one transaction inserts the memory, or reinforces
\* the near-duplicate lesson the dedup search found, and records the citation
\* with the cited row's counter.  A note is appended to the tracking files.
Commit(c) ==
  /\ pc[c] = "commit"
  /\ \E m \in {c} \cup (IF req[c].op = "add" /\ req[c].kind = "lesson"
                        THEN Rows("lesson") \ req[c].ids ELSE {}) :
       /\ home' = [home EXCEPT ![c] = m]
       /\ citations' = citations \cup Cites(c, m)
  /\ cited' = [n \in Memory |-> IF n \in req[c].ids THEN cited[n] + 1 ELSE cited[n]]
  /\ EnsureLater(c, "count")
  /\ UNCHANGED <<server, tok, token, surfaced, journal>>

\* Wrong on purpose: recordWriteSuccess sits in the finally block.
AbortCounted(c) ==
  /\ pc[c] = "commit"
  /\ EnsureLater(c, "count")
  /\ UNCHANGED <<server, tok, token, memory, journal>>

\* The embedding, the INSERT or the citation throws: ROLLBACK.  So does a
\* citation of the very lesson the dedup search would reinforce.
Abort(c) ==
  /\ pc[c] = "commit"
  /\ Goto(c, "failed")
  /\ UNCHANGED <<server, after, tok, token, memory, journal>>

\* recordWriteSuccess, first statement.
CountSuccess(c) ==
  /\ pc[c] = "count"
  /\ attempted' = [attempted EXCEPT ![tok[c]] = @ + 1]
  /\ succeeded' = [succeeded EXCEPT ![tok[c]] = @ + 1]
  /\ Goto(c, "close")
  /\ UNCHANGED <<server, after, tok, minted, results, reads, rejected, memory, journal>>

\* Violations of token t nobody has followed up; the newest of them.
Open(t) == {v \in Calls : violation[v] = t /\ closedBy[v] = None}

\* Wrong on purpose: no ORDER BY and no LIMIT 1.
NewestAll(S) == S

Newest(S) == {v \in S : S \ {v} \subseteq older[v]}

\* recordWriteSuccess, second statement: the newest open violation is recovered.
CloseViolation(c) ==
  /\ pc[c] = "close"
  /\ closedBy' = [v \in Calls |->
                    IF v \in Newest(Open(tok[c])) THEN c ELSE closedBy[v]]
  /\ Goto(c, "done")
  /\ UNCHANGED <<server, after, tok, token, memory, violation, older>>

----------------------------------------------------------------------------
\* logViolationAndThrow, the INSERT.  The preview search reads only.
LogViolation(c) ==
  /\ pc[c] = "violation"
  /\ violation' = [violation EXCEPT ![c] = tok[c]]
  /\ older' = [older EXCEPT ![c] = Written \cup {v \in Calls : violation[v] # None}]
  /\ Goto(c, "tally")
  /\ UNCHANGED <<server, after, tok, token, memory, closedBy>>

\* logViolationAndThrow, the UPDATE of the token row; then it throws.
TallyRejection(c) ==
  /\ pc[c] = "tally"
  /\ attempted' = [attempted EXCEPT ![tok[c]] = @ + 1]
  /\ rejected' = [rejected EXCEPT ![tok[c]] = @ + 1]
  /\ Goto(c, "rejected")
  /\ UNCHANGED <<server, after, tok, minted, results, reads, succeeded, memory, journal>>

\* The server process dies: its memo and its calls go, the database stays.
\* (Death while it serves no call is not told apart from serving none later.)
Crash(p) ==
  /\ p \in up
  /\ \E c \in Calls : proc[c] = p /\ pc[c] \notin Ended
  /\ up' = up \ {p}
  /\ pc' = [c \in Calls |->
              IF proc[c] = p /\ pc[c] \notin Ended THEN "crashed" ELSE pc[c]]
  /\ UNCHANGED <<memo, after, proc, req, tok, token, memory, journal>>

Step(c) ==
  \/ UseMemo(c) \/ Mint(c)
  \/ Surface(c) \/ RecordRead(c)
  \/ Check(c) \/ Commit(c) \/ Abort(c) \/ CountSuccess(c) \/ CloseViolation(c)
  \/ LogViolation(c) \/ TallyRejection(c)

Next ==
  \/ \E c \in Calls, p \in Procs, r \in Requests : Start(c, p, r)
  \/ \E c \in Calls : Step(c)
  \/ \E p \in Procs : Crash(p)

Spec == Init /\ [][Next]_vars
----------------------------------------------------------------------------
\* A read that has returned its ids to the agent.
Answered(r) == req[r].op = "read" /\ pc[r] = "done"

\* A persisted citation names a memory some finished read of the same server
\* process and the same bucket returned, whichever token the two went through.
\* verifyCatA against what recordReadResults has filled in.
CitationWasRead ==
  \A x \in citations : \E r \in Calls :
    /\ Answered(r)
    /\ proc[r] = proc[x.call]
    /\ req[r].kind = req[x.call].kind
    /\ x.cited \in req[r].ids

\* A memory written as novel follows a finished search of its own process, not
\* of a server that ran before it.  The novel branch of verifyCatA.
NovelWasSearched ==
  \A c \in Written : req[c].op = "add" /\ req[c].cite = "novel" =>
    \E r \in Calls : Answered(r) /\ proc[r] = proc[c]

\* What a finished read returned stays in the bucket of the token it was
\* recorded under, however many reads of the process run at once.
ReadsStayCitable ==
  \A r \in Calls : Answered(r) => req[r].ids \subseteq results[tok[r]][req[r].kind]

\* An id that can be cited has been counted as surfaced, even if the process
\* died in between: curation never sees a cited memory as never surfaced.
CitableWasSurfaced ==
  \A t \in minted, k \in Kinds : \A m \in results[t][k] : surfaced[m] > 0

\* The tallies of a token: every attempt is a success or a rejection, no
\* rejection is counted without its violation row, and a success marks at most
\* one violation recovered.  recordWriteSuccess and logViolationAndThrow.
TalliesAddUp ==
  \A t \in minted :
    /\ attempted[t] = succeeded[t] + rejected[t]
    /\ rejected[t] <= Cardinality({v \in Calls : violation[v] = t})
    /\ Cardinality({v \in Calls : violation[v] = t /\ closedBy[v] # None}) <= succeeded[t]

\* The successes counted by a token never exceed the writes persisted by calls
\* that went through it: the count comes after COMMIT, so a crash only loses it.
SuccessesWereWritten ==
  \A t \in minted : succeeded[t] <= Cardinality({c \in Written : tok[c] = t})

\* The comment on ensureSessionToken, and the test named "idempotent within the
\* process": a process has one token row.
OneTokenPerProcess ==
  \A s, t \in minted : proc[s] = proc[t] => s = t

\* The violations report calls a violation with followup_succeeded "Recovered
\* (next write succeeded)": the write that closed it came after the rejection.
RecoveredByLaterWrite ==
  \A v \in Calls : closedBy[v] # None => closedBy[v] \notin older[v]

=============================================================================
