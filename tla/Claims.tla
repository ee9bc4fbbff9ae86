------------------------------- MODULE Claims -------------------------------
(***************************************************************************)
(* Advisory path claims of parallel agents (src/src/coordination/claims.ts *)
(* and claim-warn.ts): a session leases a set of path globs, is told which   *)
(* active claims of other sessions overlap, renews its leases with the tool  *)
(* calls it makes and the files it edits, and loses them after Expire of     *)
(* silence.                                                                  *)
(*                                                                          *)
(* A session is one server process.  Each action is one statement sent to    *)
(* the database with the code up to the next await, but for the INSERT, whose *)
(* row has the time its transaction began and is seen when that commits.  A   *)
(* claim row is named by the call that inserts it, so Ids bounds the claims   *)
(* of a behaviour; a retried call that finds its row taken inserts none.      *)
(* Time passes in ticks: leases and sessions carry ages, which saturate where *)
(* nothing reads further.                                                     *)
(***************************************************************************)
EXTENDS Naturals, Sequences, FiniteSets

CONSTANTS
  Sessions,   \* server processes
  Ids,        \* calls of mai_claim, numbered in the order they arrive
  Kept,       \* those a worker channel keeps alive while it is idle
  Symbols,    \* characters of a path or a glob
  Lanes,      \* what a call may claim: sets of globs
  Files,      \* files agents may edit
  Wildcard,   \* any of the characters * ? [ {
  Slash,      \* the path separator
  RootOf,     \* repo_root of a session's checkout
  PidOf,      \* process id of its server, on its own host
  Expire,     \* EXPIRE_HOURS
  Throttle,   \* NUDGE_THROTTLE_MS
  None        \* null

ASSUME IdsNumbered == Ids \subseteq Nat /\ IsFiniteSet(Ids)
ASSUME NoneIsFresh == None \notin Ids /\ None \notin Sessions /\ None \notin Lanes
ASSUME KeptAreSessions == Kept \subseteq Sessions
ASSUME TimesTyped == Expire \in Nat /\ Throttle \in Nat
ASSUME LanesTyped == \A L \in Lanes : \A g \in L : g \in Seq(Symbols) /\ Len(g) > 0
ASSUME FilesTyped == Slash \in Symbols /\ \A f \in Files : f \in Seq(Symbols)

VARIABLES
  up,         \* server processes that have not died
  author,     \* author_session of a call
  lane,       \* the globs it claims
  pc,         \* where the call is
  stands,     \* claimId: the row it answers for
  answer,     \* the overlapping claims its answer lists
  status,     \* status of the row it inserted
  age,        \* now() - last_heartbeat_at while it is active
  stamp,      \* created_at: now() of the INSERT's transaction
  beatAge,    \* now - lastBeatMs of a session
  watermark,  \* watermarkIso
  beat,       \* where its heartbeat pass is
  fresh,      \* the rows the pass has read
  told        \* claims its nudges have named

calls == <<author, lane, pc, stands, answer>>
passes == <<watermark, beat, fresh, told>>
vars == <<up, author, lane, pc, stands, answer, status, age, stamp,
          beatAge, watermark, beat, fresh, told>>

TypeOK ==
  /\ up \subseteq Sessions
  /\ author \in [Ids -> Sessions \cup {None}]
  /\ lane \in [Ids -> Lanes \cup {None}]
  /\ \A i \in Ids : pc[i] # "idle" => author[i] \in Sessions /\ lane[i] \in Lanes
  /\ pc \in [Ids -> {"idle", "insert", "commit", "dupe", "refresh", "overlap",
                     "answered", "unresolved", "failed"}]
  /\ stands \in [Ids -> Ids \cup {None}]
  /\ \A i \in Ids : pc[i] \in {"refresh", "overlap", "answered"} => stands[i] \in Ids
  /\ answer \in [Ids -> SUBSET Ids]
  /\ status \in [Ids -> {"none", "active", "released", "expired"}]
  /\ age \in [Ids -> 0 .. Expire + 1]
  /\ stamp \in [Ids -> Nat]
  /\ beatAge \in [Sessions -> 0 .. Expire + 1]
  /\ watermark \in [Sessions -> Nat]
  /\ beat \in [Sessions -> {"idle", "failed", "refresh", "read", "match"}]
  /\ fresh \in [Sessions -> SUBSET Ids]
  /\ told \in [Sessions -> SUBSET Ids]

\* lastBeatMs starts at 0, so that the first tool call of a process beats.
Init ==
  /\ up = Sessions
  /\ author = [i \in Ids |-> None]
  /\ lane = [i \in Ids |-> None]
  /\ pc = [i \in Ids |-> "idle"]
  /\ stands = [i \in Ids |-> None]
  /\ answer = [i \in Ids |-> {}]
  /\ status = [i \in Ids |-> "none"]
  /\ age = [i \in Ids |-> 0]
  /\ stamp = [i \in Ids |-> 0]
  /\ beatAge = [s \in Sessions |-> Expire + 1]
  /\ watermark = [s \in Sessions |-> 0]
  /\ beat = [s \in Sessions |-> "idle"]
  /\ fresh = [s \in Sessions |-> {}]
  /\ told = [s \in Sessions |-> {}]

----------------------------------------------------------------------------
\* Globs.
StartsWith(p, q) == Len(q) <= Len(p) /\ SubSeq(p, 1, Len(q)) = q

\* The text before the first wildcard.
StaticPrefix(g) ==
  SubSeq(g, 1, Cardinality({k \in 1 .. Len(g) : \A l \in 1 .. k : g[l] # Wildcard}))

\* Wrong on purpose: a directory is looked for in the file, not the reverse.
ContainedIn(a, b) == StartsWith(StaticPrefix(a), StaticPrefix(b))

GlobsOverlap(a, b) ==
  \/ StartsWith(StaticPrefix(a), StaticPrefix(b))
  \/ StartsWith(StaticPrefix(b), StaticPrefix(a))

\* A glob without a wildcard is a file, or a directory and what is below it.
PathInGlob(p, g) ==
  IF StaticPrefix(g) = g
  THEN p = g \/ StartsWith(p, IF g[Len(g)] = Slash THEN g ELSE Append(g, Slash))
  ELSE StartsWith(p, StaticPrefix(g))

LanesOverlap(L, M) == \E a \in L, b \in M : GlobsOverlap(a, b)

Active(i) == status[i] = "active"
Own(s) == {i \in Ids : Active(i) /\ author[i] = s}

\* The claims in S leave the active ones.
End(S, label) ==
  /\ status' = [i \in Ids |-> IF i \in S THEN label ELSE status[i]]
  /\ age' = [i \in Ids |-> IF i \in S THEN 0 ELSE age[i]]

\* Wrong on purpose: a claim expires at the limit, not past it.
ExpireEarly == End({i \in Ids : Active(i) /\ age[i] >= Expire}, "expired")

\* expireStale.
ExpireStale == End({i \in Ids : Active(i) /\ age[i] > Expire}, "expired")

\* last_heartbeat_at of the rows in S is now().
Renewed(S) == [i \in Ids |-> IF i \in S THEN 0 ELSE age[i]]

----------------------------------------------------------------------------
\* claimCreate up to expireStale.
Claim(i, s, L) ==
  /\ pc[i] = "idle"
  /\ \A j \in Ids : j < i => pc[j] # "idle"
  /\ s \in up
  /\ author' = [author EXCEPT ![i] = s]
  /\ lane' = [lane EXCEPT ![i] = L]
  /\ ExpireStale
  /\ pc' = [pc EXCEPT ![i] = "insert"]
  /\ UNCHANGED <<up, stands, answer, stamp, beatAge, passes>>

\* Active claims of the session with the very lane of call i.
Twins(i) == {j \in Own(author[i]) : lane[j] = lane[i]}

\* The transaction of the INSERT begins: created_at is no earlier than that of the
\* last one.
Begin(i) ==
  /\ pc[i] = "insert"
  /\ \E j \in Ids : \E now \in {stamp[j], stamp[j] + 1} :
       /\ now > 0 /\ \A k \in Ids : stamp[k] <= now
       /\ stamp' = [stamp EXCEPT ![i] = now]
  /\ pc' = [pc EXCEPT ![i] = "commit"]
  /\ UNCHANGED <<up, author, lane, stands, answer, status, age, beatAge, passes>>

\* It commits, and others see the row, unless the unique index turns it away for
\* a twin.
Insert(i) ==
  /\ pc[i] = "commit"
  /\ IF Twins(i) = {}
     THEN /\ status' = [status EXCEPT ![i] = "active"]
          /\ stands' = [stands EXCEPT ![i] = i]
          /\ pc' = [pc EXCEPT ![i] = "overlap"]
     ELSE /\ pc' = [pc EXCEPT ![i] = "dupe"]
          /\ UNCHANGED <<status, stands>>
  /\ UNCHANGED <<up, author, lane, answer, age, stamp, beatAge, passes>>

\* Wrong on purpose: no early return when the row in the way is gone.
FindTwinUnchecked(i) ==
  /\ pc[i] = "dupe"
  /\ stands' = [stands EXCEPT ![i] = IF Twins(i) = {} THEN None ELSE CHOOSE j \in Twins(i) : TRUE]
  /\ pc' = [pc EXCEPT ![i] = "refresh"]
  /\ UNCHANGED <<up, author, lane, answer, status, age, stamp, beatAge, passes>>

\* ON CONFLICT: the row in the way is looked up, and may be gone.
FindTwin(i) ==
  /\ pc[i] = "dupe"
  /\ \/ /\ Twins(i) = {}
        /\ pc' = [pc EXCEPT ![i] = "unresolved"]
        /\ UNCHANGED stands
     \/ /\ \E j \in Twins(i) : stands' = [stands EXCEPT ![i] = j]
        /\ pc' = [pc EXCEPT ![i] = "refresh"]
  /\ UNCHANGED <<up, author, lane, answer, status, age, stamp, beatAge, passes>>

\* ... and renewed by its id, whatever its status is by now.
RefreshTwin(i) ==
  /\ pc[i] = "refresh"
  /\ age' = Renewed({stands[i]})
  /\ pc' = [pc EXCEPT ![i] = "overlap"]
  /\ UNCHANGED <<up, author, lane, stands, answer, status, stamp, beatAge, passes>>

\* The active claims of other sessions in the same checkout that call i meets.
Overlapping(i) ==
  {j \in Ids : /\ Active(j) /\ author[j] # author[i]
               /\ RootOf[author[j]] = RootOf[author[i]]
               /\ LanesOverlap(lane[i], lane[j])}

Answer(i) ==
  /\ pc[i] = "overlap"
  /\ answer' = [answer EXCEPT ![i] = Overlapping(i)]
  /\ pc' = [pc EXCEPT ![i] = "answered"]
  /\ UNCHANGED <<up, author, lane, stands, status, age, stamp, beatAge, passes>>

\* A statement throws: the tool answers with an error, the row stays.
FailCall(i) ==
  /\ pc[i] \in {"insert", "commit", "dupe", "refresh", "overlap"}
  /\ pc' = [pc EXCEPT ![i] = "failed"]
  /\ UNCHANGED <<up, author, lane, stands, answer, status, age, stamp, beatAge, passes>>

\* claimRelease: one or all of the session's own claims; the operator's command
\* line releases any one.
Release(S) ==
  /\ S # {}
  /\ End(S, "released")
  /\ UNCHANGED <<up, calls, stamp, beatAge, passes>>

ReleaseOwn(s) == s \in up /\ (Release(Own(s)) \/ \E i \in Own(s) : Release({i}))
OperatorRelease == \E i \in Ids : Active(i) /\ Release({i})

\* claimsList, the prime section, the count of the startup briefing.
Sweep ==
  /\ ExpireStale
  /\ UNCHANGED <<up, calls, stamp, beatAge, passes>>

----------------------------------------------------------------------------
\* claimsBeatAndNudge at the end of a tool call, which does nothing less than
\* Throttle after the last one.  The throttle is set and stale claims are
\* expired, the session's own too.
StartBeat(s) ==
  /\ s \in up
  /\ beatAge[s] >= Throttle
  /\ beat[s] \in {"idle", "failed"}
  /\ beatAge' = [beatAge EXCEPT ![s] = 0]
  /\ ExpireStale
  /\ beat' = [beat EXCEPT ![s] = "refresh"]
  /\ UNCHANGED <<up, calls, stamp, watermark, fresh, told>>

\* Wrong on purpose: the heartbeat has no author_session.
RenewAll(s) ==
  /\ beat[s] = "refresh"
  /\ age' = Renewed({i \in Ids : Active(i)})
  /\ beat' = [beat EXCEPT ![s] = "read"]
  /\ UNCHANGED <<up, calls, status, stamp, beatAge, watermark, fresh, told>>

RenewOwn(s) ==
  /\ beat[s] = "refresh"
  /\ age' = Renewed(Own(s))
  /\ beat' = [beat EXCEPT ![s] = "read"]
  /\ UNCHANGED <<up, calls, status, stamp, beatAge, watermark, fresh, told>>

\* Wrong on purpose: created at the watermark or later.
UnseenFrom(s) ==
  {i \in Ids : Active(i) /\ author[i] # s /\ stamp[i] >= watermark[s]}

\* Claims of other sessions, of any checkout, created since the watermark.
Unseen(s) ==
  {i \in Ids : Active(i) /\ author[i] # s /\ stamp[i] > watermark[s]}

Newest(S) == {i \in S : \A j \in S : stamp[i] >= stamp[j]}

\* The watermark moves to the newest of them, before they are matched.
ReadUnseen(s) ==
  /\ beat[s] = "read"
  /\ \/ /\ Unseen(s) = {}
        /\ beat' = [beat EXCEPT ![s] = "idle"]
        /\ UNCHANGED <<watermark, fresh>>
     \/ /\ \E i \in Newest(Unseen(s)) : watermark' = [watermark EXCEPT ![s] = stamp[i]]
        /\ fresh' = [fresh EXCEPT ![s] = Unseen(s)]
        /\ beat' = [beat EXCEPT ![s] = "match"]
  /\ UNCHANGED <<up, calls, status, age, stamp, beatAge, told>>

\* The rows that meet a claim of the session are named in the nudge, which
\* piggybackNudge drops from an error and from the board, prime, claim, receipt
\* and artifact tools.
Match(s) ==
  /\ beat[s] = "match"
  /\ \/ told' = [told EXCEPT ![s] = @ \cup
                   {j \in fresh[s] : \E i \in Own(s) : LanesOverlap(lane[i], lane[j])}]
     \/ UNCHANGED told
  /\ fresh' = [fresh EXCEPT ![s] = {}]
  /\ beat' = [beat EXCEPT ![s] = "idle"]
  /\ UNCHANGED <<up, calls, status, age, stamp, beatAge, watermark>>

\* A statement of the pass throws; the wrapper is silent and the throttle stays.
FailBeat(s) ==
  /\ beat[s] \in {"refresh", "read", "match"}
  /\ beat' = [beat EXCEPT ![s] = IF beat[s] = "refresh" THEN "failed" ELSE "idle"]
  /\ fresh' = [fresh EXCEPT ![s] = {}]
  /\ UNCHANGED <<up, calls, status, age, stamp, beatAge, watermark, told>>

\* touchOwnClaims of the pre-edit hook, which has seen an active claim with the
\* process id of its own session's server: every active claim that carries it.
Touch(s) ==
  /\ s \in up
  /\ \E i \in Ids : status[i] # "none" /\ PidOf[author[i]] = PidOf[s]
  /\ age' = Renewed({i \in Ids : Active(i) /\ PidOf[author[i]] = PidOf[s]})
  /\ UNCHANGED <<up, calls, status, stamp, beatAge, passes>>

----------------------------------------------------------------------------
\* The process dies with its calls, its hook and its throttle.
Crash(s) ==
  /\ s \in up
  /\ up' = up \ {s}
  /\ pc' = [i \in Ids |->
              IF author[i] = s /\ pc[i] \notin {"idle", "answered", "unresolved"}
              THEN "failed" ELSE pc[i]]
  /\ beat' = [beat EXCEPT ![s] = "idle"]
  /\ fresh' = [fresh EXCEPT ![s] = {}]
  /\ beatAge' = [beatAge EXCEPT ![s] = Expire + 1]
  /\ UNCHANGED <<author, lane, stands, answer, status, age, stamp, watermark, told>>

Older(n, most) == IF n < most THEN n + 1 ELSE n

Tick ==
  /\ age' = [i \in Ids |-> IF Active(i) THEN Older(age[i], Expire + 1) ELSE age[i]]
  /\ beatAge' = [s \in Sessions |-> Older(beatAge[s], Expire + 1)]
  /\ UNCHANGED <<up, calls, status, stamp, passes>>

Beat(s) ==
  \/ StartBeat(s) \/ RenewOwn(s) \/ ReadUnseen(s) \/ Match(s)

Create(i) ==
  \/ Begin(i) \/ Insert(i) \/ FindTwin(i) \/ RefreshTwin(i) \/ Answer(i)

Next ==
  \/ \E i \in Ids, s \in Sessions, L \in Lanes : Claim(i, s, L)
  \/ \E i \in Ids : Create(i) \/ FailCall(i)
  \/ \E s \in Sessions : ReleaseOwn(s)
  \/ OperatorRelease \/ Sweep
  \/ \E s \in Sessions : Beat(s) \/ FailBeat(s)
  \/ \E s \in Sessions : Touch(s)
  \/ \E s \in Sessions : Crash(s)
  \/ Tick

Spec == Init /\ [][Next]_vars

\* Statements of a live process end, time passes, and a session on a worker
\* channel beats whenever the throttle lets it: the channel calls a tool every
\* 30 s while it is idle (scripts/mai-worker-session.mjs).
FairSpec ==
  /\ Spec
  /\ WF_vars(Tick)
  /\ \A i \in Ids : WF_vars(Create(i))
  /\ \A s \in Kept : WF_vars(Beat(s))
----------------------------------------------------------------------------
\* Call i inserted its claim, which still stands, and has answered.
Standing(i) == Active(i) /\ stands[i] = i /\ pc[i] = "answered"

\* Two standing claims of different sessions in one checkout that both cover a
\* file, by the edit hook's reading of a glob: one of the two claimants was
\* told of the other when it claimed, however their calls interleaved.
\* claimCreate inserts first and looks for overlaps second.
SharedFileReported ==
  \A i, j \in Ids :
    /\ Standing(i) /\ Standing(j)
    /\ author[i] # author[j] /\ RootOf[author[i]] = RootOf[author[j]]
    /\ \E f \in Files, g \in lane[i], h \in lane[j] : PathInGlob(f, g) /\ PathInGlob(f, h)
    => j \in answer[i] \/ i \in answer[j]

\* A session that goes on calling tools keeps its claims: one expires only when
\* its session has begun no heartbeat for Expire, or the last one it began has
\* yet to renew the claim or failed to.  The comment on claims.ts, "every tool
\* call a working session makes refreshes its leases".
WorkingLeaseHeld ==
  [][\A i \in Ids : Active(i) /\ status'[i] = "expired" =>
       beatAge[author[i]] > Expire \/ beat[author[i]] \in {"refresh", "failed"}]_vars

\* A claim is named in at most one nudge of a session, across all its passes.
\* The watermark of claimsBeatAndNudge.
NudgedOnce == \A s \in Sessions : fresh[s] \cap told[s] = {}

\* The claims of a dead session lapse as long as a session is kept alive.
\* "a crashed session's claims age out via TTL instead of holding a lane forever".
CrashedLeaseLapses ==
  \A i \in Ids : (Active(i) /\ author[i] \notin up) ~> (~Active(i) \/ up \cap Kept = {})

\* The comment on claimsBeatAndNudge, "reports NEW overlapping claims by other
\* sessions since the last check": once a session with a standing claim has
\* checked past an overlapping claim of the same checkout, it knows of it.
OverlapNudged ==
  \A i, j \in Ids :
    /\ Standing(i) /\ Active(j) /\ author[i] \in up /\ author[i] # author[j]
    /\ RootOf[author[i]] = RootOf[author[j]] /\ LanesOverlap(lane[i], lane[j])
    /\ watermark[author[i]] >= stamp[j] /\ beat[author[i]] = "idle"
    => \/ j \in told[author[i]]
       \/ \E k \in Ids : author[k] = author[i] /\ j \in answer[k]

\* The comment on touchOwnClaims, "the sibling-PID set identifies which claims
\* are ours": a lease is renewed by the session that holds it.
RenewedByOwner ==
  [][\A i \in Ids : age'[i] < age[i] /\ status'[i] = "active" => author[i] \in up]_vars

=============================================================================
