----------------------------- MODULE HostProofs -----------------------------
(***************************************************************************)
(* Proofs about what else goes on on one host: GraphWatch, SemanticIndex,     *)
(* Dashboard, PrimeBudget and ReadPages, for any bounds and lengths.           *)
(*                                                                          *)
(* GraphWatch.  A writer's session is the lease (Fenced): while it lasts,     *)
(* nobody else writes, and what its writer has scanned is no older than the    *)
(* graph.  A mark of the scheduler is taken only by what goes on with it or    *)
(* puts it back (NoChangeLost).                                               *)
(*                                                                          *)
(* SemanticIndex.  A transaction that saves a vector holds the project, then   *)
(* the job, then the symbol; what it has read of each stays so (Locks).       *)
(*                                                                          *)
(* Dashboard.  A runner that keeps the state lock is alone and the state file  *)
(* is that of its launch (Launching), a launch without a runner so far has no   *)
(* server, and what may be cleared is the file of no server that lives.  Every  *)
(* phase has the process it belongs to, alive or dead (Attended).              *)
(*                                                                          *)
(* PrimeBudget.  What the sources rendered so far may take and the shares of   *)
(* the others fit together, and with the pool they are all there is            *)
(* (RenderedOnce).  The sums are the community modules' folds: lemmas tell      *)
(* what they are of sums, multiples and counts.                                *)
(*                                                                          *)
(* ReadPages.  The count of parts grows from try to try, and its digits with   *)
(* it, until it is confirmed, which is before the tries run out                *)
(* (TotalConfirms).  The pages a reader has are then the stretches before the   *)
(* one it wants (ReadSoFar).                                                   *)
(*                                                                          *)
(* The sum of all of them, MCHost, makes no step that is not one of a component  *)
(* (HostSteps), so what is proved of each holds of it.                         *)
(*                                                                          *)
(* Induction is by the least number, or the smallest set, for which something  *)
(* fails (Numbering, OneByOne).                                                *)
(***************************************************************************)
EXTENDS MCHost, FiniteSetTheorems, WellFoundedInduction, TLAPS

WatchType ==
  [at : {"off", "idle", "check", "acquire", "scan", "write"}, pending : BOOLEAN,
   hints : {"none", "noise", "source"}, batch : {"none", "noise", "source"},
   had : BOOLEAN, needs : BOOLEAN, startup : BOOLEAN, checkDue : 0 .. Off,
   hint : 0 .. Debounce, observed : 0 .. Debounce, qualified : 0 .. Debounce,
   nextStart : 0 .. Interval, retryAt : 0 .. Interval, census : 0 .. MaxChanges,
   seen : 0 .. MaxChanges, session : BOOLEAN]

BuildType == [at : {"off", "scan", "write"}, seen : 0 .. MaxChanges, session : BOOLEAN]

GraphTables ==
  /\ disk \in 0 .. MaxChanges /\ index \in 0 .. disk
  /\ lease \in {"free", "watch", "build"}
  /\ watch \in WatchType /\ build \in BuildType
  /\ builds \in 0 .. MaxBuilds /\ faults \in 0 .. MaxFaults

\* A writer with its session has the lease, and has scanned what is there now or
\* nothing yet.
Fenced ==
  /\ watch.session => lease = "watch" /\ watch.at \in {"scan", "write"}
  /\ build.session => lease = "build" /\ build.at \in {"scan", "write"}
  /\ watch.session /\ watch.at = "write" => index <= watch.seen
  /\ build.session /\ build.at = "write" => index <= build.seen
  /\ watch.seen <= disk /\ build.seen <= disk

\* Hints are kept for a pass that comes, or for one that is to be made again.
Marked == watch.hints # "none" => watch.pending \/ (watch.at = "idle" /\ watch.needs)

GraphInv == GraphTables /\ Fenced /\ Marked

----------------------------------------------------------------------------
JobType ==
  [state : {"none", "running"} \cup Ended, cancel : BOOLEAN, revision : 0 .. MaxRevisions,
   model : Models \cup {"off"}]

WorkerType ==
  [at : {"none", "start", "embed", "save", "project", "job", "node", "final"},
   doc : 0 .. MaxSymbol]

SemanticTables ==
  /\ policy \in [revision : 0 .. MaxRevisions, model : Models \cup {"off"}]
  /\ change \in BOOLEAN
  /\ jobs \in [JobIds -> JobType] /\ worker \in [JobIds -> WorkerType]
  /\ \A j \in JobIds : jobs[j].revision <= policy.revision /\ worker[j].doc <= symbol
  /\ lane \in {0} \cup JobIds
  /\ symbol \in 1 .. MaxSymbol
  /\ vectors \in [Models -> 0 .. symbol]

\* What a transaction of saveDocument has read under its locks.
Locks ==
  /\ change => ~ProjectShared
  /\ \A j \in JobIds :
       /\ JobLocked(j) => /\ Running(j) /\ ~jobs[j].cancel
                          /\ jobs[j].revision = policy.revision
                          /\ jobs[j].model = policy.model
       /\ worker[j].at = "node" => worker[j].doc \in {0, symbol}

SemanticInv == SemanticTables /\ Locks

----------------------------------------------------------------------------
StateType ==
  [phase : {"none", "reserved", "launching", "running", "stopping"}, launch : Nat,
   known : BOOLEAN, owner : Stoppers \cup {Nobody}]

Locking == {"prepare", "spawned", "publish"}

\* The state file under the lock of a runner that prepares, or has published.
Launching ==
  \A i \in Launches :
    /\ runner[i] \in Locking => state.phase = "launching" /\ state.launch = i
    /\ runner[i] = "published" => state.phase = "running" /\ state.launch = i

\* A launch has a server once its runner has spawned it, and a runner once there is
\* such a launch and its starter has spawned that.
Spawned ==
  \A i \in Launches :
    /\ runner[i] \in {"none", "queued", "prepare"} => server[i] = "none"
    /\ starter[i] = "spawning" => runner[i] = "none"
    /\ i > launches => starter[i] = "none" /\ runner[i] = "none"

DashInv == DashTypeOK /\ state \in StateType /\ Launching /\ Spawned /\ EveryServerIsOnRecord

----------------------------------------------------------------------------
(* GraphWatch *)

\* The invariant at the start.
LEMMA GraphInitInv == GraphInit => GraphInv
<1> SUFFICES ASSUME GraphInit PROVE GraphInv
  OBVIOUS
<1>1. NotWatching \in WatchType /\ NotBuilding \in BuildType
  BY GraphBounds DEF NotWatching, NotBuilding, WatchType, BuildType, Off
<1>2. /\ watch.session = FALSE /\ build.session = FALSE /\ watch.hints = "none"
      /\ watch.seen = 0 /\ build.seen = 0
  BY DEF GraphInit, NotWatching, NotBuilding
<1>3. GraphTables
  BY <1>1, GraphBounds DEF GraphInit, GraphTables
<1>4. Fenced /\ Marked
  BY <1>2 DEF GraphInit, Fenced, Marked
<1> QED
  BY <1>3, <1>4 DEF GraphInv

\* A pass that fails is made again.
LEMMA WatchFails ==
  ASSUME NEW R \in WatchType
  PROVE  /\ PassFailed(R) \in WatchType
         /\ PassFailed(R).at = "idle" /\ PassFailed(R).needs
         /\ PassFailed(R).session = R.session /\ PassFailed(R).seen = R.seen
         /\ PassFailed(R).hints = R.hints
<1>1. Interval \in 0 .. Interval
  BY GraphBounds
<1> QED
  BY <1>1 DEF WatchType, PassFailed

\* The watcher goes on without the graph, or with the lease it has.
LEMMA WatcherGoes ==
  ASSUME GraphInv, NEW w \in WatchType, watch' = w,
         w.session = watch.session, w.seen = watch.seen,
         w.at = watch.at \/ ~watch.session,
         w.hints # "none" => w.pending \/ (w.at = "idle" /\ w.needs),
         UNCHANGED <<disk, index, lease, build, builds>>, faults' \in 0 .. MaxFaults
  PROVE  GraphInv'
<1>1. GraphTables'
  BY DEF GraphInv, GraphTables
<1>2. Fenced'
  BY DEF GraphInv, Fenced
<1>3. Marked'
  BY DEF Marked
<1> QED
  BY <1>1, <1>2, <1>3 DEF GraphInv

\* A watcher that drops its session and the lease.
LEMMA WatcherLeaves ==
  ASSUME GraphInv, NEW w \in WatchType, watch' = w, ~w.session, w.seen <= disk,
         w.hints # "none" => w.pending \/ (w.at = "idle" /\ w.needs),
         lease' = Released("watch"),
         UNCHANGED <<disk, index, build, builds>>, faults' \in 0 .. MaxFaults
  PROVE  GraphInv'
<1>1. GraphTables'
  BY DEF GraphInv, GraphTables, Released
<1>2. Fenced'
  BY DEF GraphInv, Fenced, Released
<1>3. Marked'
  BY DEF Marked
<1> QED
  BY <1>1, <1>2, <1>3 DEF GraphInv

\* The same of the other writer.
LEMMA BuilderLeaves ==
  ASSUME GraphInv, NEW b \in BuildType, build' = b, ~b.session, b.seen <= disk,
         lease' = Released("build"),
         UNCHANGED <<disk, index, watch, builds>>, faults' \in 0 .. MaxFaults
  PROVE  GraphInv'
<1>1. GraphTables'
  BY DEF GraphInv, GraphTables, Released
<1>2. Fenced'
  BY DEF GraphInv, Fenced, Released
<1>3. Marked'
  BY DEF GraphInv, Marked
<1> QED
  BY <1>1, <1>2, <1>3 DEF GraphInv

\* What the invariant says of the records and of a failure.
LEMMA GraphFacts ==
  ASSUME GraphInv
  PROVE  /\ watch \in WatchType /\ build \in BuildType
         /\ watch.session => watch.at \in {"scan", "write"}
         /\ watch.session \in BOOLEAN /\ watch.seen <= disk
         /\ faults \in 0 .. MaxFaults
         /\ Fault => faults' \in 0 .. MaxFaults
BY GraphBounds DEF GraphInv, GraphTables, Fenced, Fault, WatchType

\* Changes, hints and timers.
LEMMA SourcesInv ==
  ASSUME GraphInv, Change \/ Hint \/ Noise \/ Tick
  PROVE  GraphInv'
<1>1. CASE Change
  <2>1. /\ disk' = disk + 1 /\ disk' \in 0 .. MaxChanges /\ disk \in Nat /\ index \in 0 .. disk
        /\ watch.seen \in Nat /\ build.seen \in Nat
        /\ UNCHANGED <<index, lease, watch, build, builds, faults>>
    BY <1>1, GraphBounds DEF Change, GraphInv, GraphTables, WatchType, BuildType
  <2>2. GraphTables'
    BY <2>1 DEF GraphInv, GraphTables
  <2>3. Fenced' /\ Marked'
    BY <2>1 DEF GraphInv, Fenced, Marked
  <2> QED
    BY <2>2, <2>3 DEF GraphInv
<1>2. ASSUME NEW kind \in {"noise", "source"}, watch' = Hinted(kind),
             UNCHANGED <<disk, index, lease, build, builds, faults>>
      PROVE  GraphInv'
  <2> DEFINE due == IF watch.pending THEN watch.checkDue ELSE Debounce
             h == IF kind = "noise" /\ watch.hints # "none" THEN watch.hints ELSE kind
  <2>1. due \in 0 .. Off
    BY GraphFacts, GraphBounds DEF WatchType, Off
  <2>2. h \in {"none", "noise", "source"}
    BY GraphFacts DEF WatchType
  <2>3. watch' = [watch EXCEPT !.pending = TRUE, !.hint = 0, !.checkDue = due, !.hints = h]
    BY <1>2, GraphFacts DEF Hinted, WatchType
  <2> HIDE DEF due, h
  <2> DEFINE w == [watch EXCEPT !.pending = TRUE, !.hint = 0, !.checkDue = due, !.hints = h]
  <2>4. /\ w \in WatchType
        /\ w.at = watch.at /\ w.session = watch.session /\ w.seen = watch.seen /\ w.pending
    <3>1. 0 \in 0 .. Debounce /\ watch \in WatchType
      BY GraphBounds, GraphFacts
    <3> QED
      BY <2>1, <2>2, <3>1 DEF WatchType
  <2>5. watch' = w
    BY <2>3
  <2> HIDE DEF w
  <2> QED
    BY <1>2, <2>4, <2>5, GraphFacts, WatcherGoes
<1>3. CASE Hint \/ Noise
  BY <1>2, <1>3 DEF Hint, Noise
<1>4. CASE Tick
  <2> DEFINE due == IF watch.checkDue = Off THEN watch.checkDue ELSE Less(watch.checkDue)
             n == Less(watch.nextStart)
             m == Less(watch.retryAt)
             a == Older(watch.hint)
             b == Older(watch.observed)
             c == Older(watch.qualified)
  <2>1. /\ watch.checkDue \in 0 .. Off /\ watch.nextStart \in 0 .. Interval
        /\ watch.retryAt \in 0 .. Interval /\ watch.hint \in 0 .. Debounce
        /\ watch.observed \in 0 .. Debounce /\ watch.qualified \in 0 .. Debounce
    BY GraphFacts DEF WatchType
  <2>2. due \in 0 .. Off /\ n \in 0 .. Interval /\ m \in 0 .. Interval
    BY <2>1, GraphBounds DEF Less, Off
  <2>3. a \in 0 .. Debounce /\ b \in 0 .. Debounce /\ c \in 0 .. Debounce
    BY <2>1, GraphBounds DEF Older
  <2>4. watch' = [watch EXCEPT !.checkDue = due, !.nextStart = n, !.retryAt = m,
                               !.hint = a, !.observed = b, !.qualified = c]
    BY <1>4, GraphFacts DEF Tick, WatchType
  <2> HIDE DEF due, n, m, a, b, c
  <2> DEFINE w == [watch EXCEPT !.checkDue = due, !.nextStart = n, !.retryAt = m,
                                !.hint = a, !.observed = b, !.qualified = c]
  <2>5. /\ w \in WatchType
        /\ w.at = watch.at /\ w.session = watch.session /\ w.seen = watch.seen
        /\ w.hints = watch.hints /\ w.pending = watch.pending /\ w.needs = watch.needs
    <3>1. watch \in WatchType
      BY GraphFacts
    <3> QED
      BY <2>2, <2>3, <3>1 DEF WatchType
  <2>6. watch' = w /\ UNCHANGED <<disk, index, lease, build, builds, faults>>
    BY <1>4, <2>4 DEF Tick
  <2> HIDE DEF w
  <2> QED
    BY <2>5, <2>6, GraphFacts, WatcherGoes DEF GraphInv, Marked
<1> QED
  BY <1>1, <1>3, <1>4

\* Starts and stops of the watcher.
LEMMA StartStopInv ==
  ASSUME GraphInv, StartWatch \/ StopWatch
  PROVE  GraphInv'
<1>1. disk \in 0 .. MaxChanges /\ 0 <= disk /\ NotWatching \in WatchType
  BY GraphBounds DEF GraphInv, GraphTables, NotWatching, WatchType, Off
<1>2. CASE StartWatch
  <2> DEFINE w == [NotWatching EXCEPT !.at = "idle", !.startup = TRUE, !.needs = TRUE,
                                      !.census = disk]
  <2>1. w \in WatchType
    BY <1>1 DEF WatchType
  <2>2. w.session = FALSE /\ w.seen = 0 /\ w.hints = "none"
    BY DEF NotWatching
  <2>3. watch' = w /\ watch.at = "off" /\ UNCHANGED <<disk, index, lease, build, builds, faults>>
    BY <1>2 DEF StartWatch
  <2> HIDE DEF w
  <2>4. GraphTables'
    BY <2>1, <2>3 DEF GraphInv, GraphTables
  <2>5. Fenced' /\ Marked'
    BY <1>1, <2>2, <2>3 DEF GraphInv, Fenced, Marked
  <2> QED
    BY <2>4, <2>5 DEF GraphInv
<1>3. CASE StopWatch
  <2>1. NotWatching.session = FALSE /\ NotWatching.seen = 0 /\ NotWatching.hints = "none"
    BY DEF NotWatching
  <2>2. watch' = NotWatching /\ lease' = Released("watch")
        /\ UNCHANGED <<disk, index, build, builds, faults>>
    BY <1>3 DEF StopWatch
  <2> QED
    BY <1>1, <2>1, <2>2, GraphFacts, WatcherLeaves
<1> QED
  BY <1>2, <1>3

\* A pass up to its update keeps or hands on the hints it has taken.
LEMMA PassInv ==
  ASSUME GraphInv, BeginPass \/ CensusFails \/ CensusReads
  PROVE  GraphInv'
<1>1. watch \in WatchType /\ ~watch.session
  BY GraphFacts DEF BeginPass, CensusFails, CensusReads
<1>2. CASE BeginPass
  <2> DEFINE w == [watch EXCEPT !.at = "check", !.had = watch.pending, !.observed = watch.hint,
                                !.pending = FALSE, !.checkDue = Off,
                                !.batch = watch.hints, !.hints = "none"]
  <2>1. /\ watch.pending \in BOOLEAN /\ watch.hint \in 0 .. Debounce /\ Off \in 0 .. Off
        /\ watch.hints \in {"none", "noise", "source"}
    BY <1>1, GraphBounds DEF WatchType, Off
  <2>2. /\ w \in WatchType /\ w.session = watch.session /\ w.seen = watch.seen
        /\ w.hints = "none"
    BY <1>1, <2>1 DEF WatchType
  <2>3. watch' = w /\ UNCHANGED <<disk, index, lease, build, builds, faults>>
    BY <1>2 DEF BeginPass
  <2> HIDE DEF w
  <2> QED
    BY <1>1, <2>2, <2>3, GraphFacts, WatcherGoes
<1>3. CASE CensusFails
  <2> DEFINE h == IF watch.batch = "none" THEN watch.hints ELSE "source"
             one == [watch EXCEPT !.hints = h]
             w == PassFailed(one)
  <2>1. h \in {"none", "noise", "source"}
    BY <1>1 DEF WatchType
  <2>2. watch' = w /\ UNCHANGED <<disk, index, lease, build, builds>> /\ Fault
    BY <1>3 DEF CensusFails
  <2> HIDE DEF h
  <2>3. one \in WatchType /\ one.session = watch.session /\ one.seen = watch.seen
    BY <1>1, <2>1 DEF WatchType
  <2> HIDE DEF one
  <2>4. /\ w \in WatchType /\ w.at = "idle" /\ w.needs
        /\ w.session = watch.session /\ w.seen = watch.seen
    BY <2>3, WatchFails
  <2> HIDE DEF w
  <2> QED
    BY <1>1, <2>2, <2>4, GraphFacts, WatcherGoes
<1>4. CASE CensusReads
  <2>1. PICK changed \in BOOLEAN :
          LET q == Qualified(changed)
              due == watch.needs \/ changed
              starts == due /\ UpdateDue(q)
          IN watch' = [watch EXCEPT !.at = IF starts THEN "acquire" ELSE "idle",
                                    !.needs = due /\ ~starts,
                                    !.startup = @ /\ ~starts,
                                    !.nextStart = IF starts THEN Interval ELSE @,
                                    !.qualified = q, !.batch = "none", !.census = disk]
    BY <1>4 DEF CensusReads
  <2> DEFINE q == Qualified(changed)
             due == watch.needs \/ changed
             starts == due /\ UpdateDue(q)
             at == IF starts THEN "acquire" ELSE "idle"
             p == due /\ ~starts
             b == watch.startup /\ ~starts
             n == IF starts THEN Interval ELSE watch.nextStart
             w == [watch EXCEPT !.at = at, !.needs = p, !.startup = b, !.nextStart = n,
                                !.qualified = q, !.batch = "none", !.census = disk]
  <2>2. watch' = w
    BY <2>1
  <2>3. q \in 0 .. Debounce
    BY <1>1 DEF Qualified, WatchType
  <2>4. n \in 0 .. Interval
    BY <1>1, GraphBounds DEF WatchType
  <2>5. at \in {"acquire", "idle"} /\ p \in BOOLEAN /\ b \in BOOLEAN
    OBVIOUS
  <2>6. disk \in 0 .. MaxChanges
    BY DEF GraphInv, GraphTables
  <2>7. watch.hints # "none" => watch.pending
    BY <1>4 DEF CensusReads, GraphInv, Marked
  <2> HIDE DEF q, at, p, b, n
  <2>8. /\ w \in WatchType
        /\ w.session = watch.session /\ w.seen = watch.seen
        /\ w.hints = watch.hints /\ w.pending = watch.pending
    BY <1>1, <2>3, <2>4, <2>5, <2>6 DEF WatchType
  <2>9. UNCHANGED <<disk, index, lease, build, builds, faults>>
    BY <1>4 DEF CensusReads
  <2> HIDE DEF w
  <2> QED
    BY <1>1, <2>2, <2>7, <2>8, <2>9, GraphFacts, WatcherGoes
<1> QED
  BY <1>2, <1>3, <1>4

\* The update of the watcher: a scan under the lease is current for as long as the
\* lease lasts.
LEMMA UpdateInv ==
  ASSUME GraphInv, Acquire \/ NoGraph \/ Scan \/ WriteIndex \/ UpdateFails
  PROVE  GraphInv'
<1>1. /\ watch \in WatchType /\ disk \in 0 .. MaxChanges /\ index \in 0 .. disk
      /\ watch.seen \in 0 .. MaxChanges /\ watch.seen <= disk
  BY DEF GraphInv, GraphTables, Fenced, WatchType
<1>2. CASE Acquire
  <2> DEFINE w == [watch EXCEPT !.at = "scan", !.session = TRUE]
  <2>1. /\ w \in WatchType /\ w.at = "scan" /\ w.seen = watch.seen
        /\ w.hints = watch.hints /\ w.pending = watch.pending
    BY <1>1 DEF WatchType
  <2>2. /\ watch' = w /\ lease = "free" /\ lease' = "watch" /\ watch.at = "acquire"
        /\ UNCHANGED <<disk, index, build, builds, faults>>
    BY <1>2 DEF Acquire
  <2> HIDE DEF w
  <2>3. GraphTables'
    BY <2>1, <2>2 DEF GraphInv, GraphTables
  <2>4. Fenced' /\ Marked'
    BY <1>1, <2>1, <2>2 DEF GraphInv, Fenced, Marked
  <2> QED
    BY <2>3, <2>4 DEF GraphInv
<1>3. CASE Scan
  <2> DEFINE w == [watch EXCEPT !.at = "write", !.seen = disk]
  <2>1. /\ w \in WatchType /\ w.at = "write" /\ w.seen = disk /\ w.session = watch.session
        /\ w.hints = watch.hints /\ w.pending = watch.pending
    BY <1>1 DEF WatchType
  <2>2. /\ watch' = w /\ watch.at = "scan"
        /\ UNCHANGED <<disk, index, lease, build, builds, faults>>
    BY <1>3 DEF Scan
  <2> HIDE DEF w
  <2>3. GraphTables'
    BY <2>1, <2>2 DEF GraphInv, GraphTables
  <2>4. Fenced' /\ Marked'
    BY <1>1, <2>1, <2>2 DEF GraphInv, Fenced, Marked
  <2> QED
    BY <2>3, <2>4 DEF GraphInv
<1>4. CASE WriteIndex
  <2> DEFINE w == [watch EXCEPT !.at = "idle", !.session = FALSE]
  <2>1. /\ w \in WatchType /\ w.at = "idle" /\ w.session = FALSE /\ w.seen = watch.seen
        /\ w.hints = watch.hints /\ w.pending = watch.pending
    BY <1>1 DEF WatchType
  <2>2. /\ watch' = w /\ watch.at = "write" /\ watch.session
        /\ index' = watch.seen /\ lease' = Released("watch")
        /\ UNCHANGED <<disk, build, builds, faults>>
    BY <1>4 DEF WriteIndex, MayWrite
  <2> HIDE DEF w
  <2>3. GraphTables'
    BY <1>1, <2>1, <2>2 DEF GraphInv, GraphTables, Released
  <2>4. Fenced' /\ Marked'
    BY <1>1, <2>1, <2>2 DEF GraphInv, Fenced, Marked, Released
  <2> QED
    BY <2>3, <2>4 DEF GraphInv
<1>5. CASE UpdateFails
  <2> DEFINE one == [watch EXCEPT !.session = FALSE]
             w == PassFailed(one)
  <2>1. one \in WatchType /\ one.session = FALSE /\ one.seen = watch.seen
    BY <1>1 DEF WatchType
  <2>2. /\ watch' = w /\ lease' = Released("watch") /\ faults' \in 0 .. MaxFaults
        /\ UNCHANGED <<disk, index, build, builds>>
    BY <1>5, GraphFacts DEF UpdateFails
  <2> HIDE DEF one
  <2>3. w \in WatchType /\ w.at = "idle" /\ w.needs /\ w.session = FALSE /\ w.seen = watch.seen
    BY <2>1, WatchFails
  <2> HIDE DEF w
  <2> QED
    BY <1>1, <2>2, <2>3, WatcherLeaves
<1>6. CASE NoGraph
  <2> DEFINE w == [watch EXCEPT !.at = "idle", !.session = FALSE]
  <2>1. /\ w \in WatchType /\ w.session = FALSE /\ w.seen = watch.seen
        /\ w.hints = watch.hints /\ w.pending = watch.pending
    BY <1>1 DEF WatchType
  <2>2. /\ watch' = w /\ watch.at = "scan" /\ lease' = Released("watch")
        /\ UNCHANGED <<disk, index, build, builds, faults>>
    BY <1>6 DEF NoGraph
  <2> HIDE DEF w
  <2>3. GraphTables'
    BY <2>1, <2>2 DEF GraphInv, GraphTables, Released
  <2>4. Fenced' /\ Marked'
    BY <1>1, <2>1, <2>2 DEF GraphInv, Fenced, Marked, Released
  <2> QED
    BY <2>3, <2>4 DEF GraphInv
<1> QED
  BY <1>2, <1>3, <1>4, <1>5, <1>6

\* A writer that loses its session has no rights left.
LEMMA LoseSessionInv ==
  ASSUME GraphInv, LoseSession
  PROVE  GraphInv'
<1>1. /\ watch \in WatchType /\ build \in BuildType
      /\ watch.seen <= disk /\ build.seen <= disk
      /\ faults' \in 0 .. MaxFaults /\ UNCHANGED <<disk, index, builds>>
  BY GraphFacts DEF LoseSession, GraphInv, Fenced
<1>2. CASE watch.session /\ watch' = [watch EXCEPT !.session = FALSE]
           /\ lease' = Released("watch") /\ UNCHANGED build
  <2> DEFINE w == [watch EXCEPT !.session = FALSE]
  <2>1. /\ w \in WatchType /\ w.session = FALSE /\ w.seen = watch.seen /\ w.at = watch.at
        /\ w.hints = watch.hints /\ w.pending = watch.pending /\ w.needs = watch.needs
    BY <1>1 DEF WatchType
  <2>2. watch' = w
    BY <1>2
  <2> HIDE DEF w
  <2> QED
    BY <1>1, <1>2, <2>1, <2>2, WatcherLeaves DEF GraphInv, Marked
<1>3. CASE build' = [build EXCEPT !.session = FALSE]
           /\ lease' = Released("build") /\ UNCHANGED watch
  <2> DEFINE b == [build EXCEPT !.session = FALSE]
  <2>1. b \in BuildType /\ b.session = FALSE /\ b.seen = build.seen
    BY <1>1 DEF BuildType
  <2>2. build' = b
    BY <1>3
  <2> HIDE DEF b
  <2> QED
    BY <1>1, <1>3, <2>1, <2>2, BuilderLeaves
<1> QED
  BY <1>2, <1>3 DEF LoseSession

\* The other writer, as the watcher.
LEMMA BuildInv ==
  ASSUME GraphInv, StartBuild \/ ScanBuild \/ WriteBuild \/ StopBuild
  PROVE  GraphInv'
<1>1. /\ build \in BuildType /\ disk \in 0 .. MaxChanges /\ index \in 0 .. disk
      /\ build.seen \in 0 .. MaxChanges /\ build.seen <= disk
      /\ builds \in 0 .. MaxBuilds /\ faults \in 0 .. MaxFaults
  BY DEF GraphInv, GraphTables, Fenced, BuildType
<1>2. NotBuilding \in BuildType /\ NotBuilding.session = FALSE /\ NotBuilding.seen = 0
  BY GraphBounds DEF NotBuilding, BuildType
<1>3. CASE StartBuild
  <2> DEFINE b == [NotBuilding EXCEPT !.at = "scan", !.session = TRUE]
  <2>1. b \in BuildType /\ b.at = "scan" /\ b.seen = 0
    BY <1>2 DEF BuildType
  <2>2. /\ build' = b /\ lease = "free" /\ lease' = "build" /\ builds' \in 0 .. MaxBuilds
        /\ UNCHANGED <<disk, index, watch, faults>>
    BY <1>1, <1>3, GraphBounds DEF StartBuild
  <2> HIDE DEF b
  <2>3. GraphTables'
    BY <2>1, <2>2 DEF GraphInv, GraphTables
  <2>4. Fenced' /\ Marked'
    BY <1>1, <2>1, <2>2 DEF GraphInv, Fenced, Marked
  <2> QED
    BY <2>3, <2>4 DEF GraphInv
<1>4. CASE ScanBuild
  <2> DEFINE b == [build EXCEPT !.at = "write", !.seen = disk]
  <2>1. b \in BuildType /\ b.at = "write" /\ b.seen = disk /\ b.session = build.session
    BY <1>1 DEF BuildType
  <2>2. /\ build' = b /\ build.at = "scan"
        /\ UNCHANGED <<disk, index, lease, watch, builds, faults>>
    BY <1>4 DEF ScanBuild
  <2> HIDE DEF b
  <2>3. GraphTables'
    BY <2>1, <2>2 DEF GraphInv, GraphTables
  <2>4. Fenced' /\ Marked'
    BY <1>1, <2>1, <2>2 DEF GraphInv, Fenced, Marked
  <2> QED
    BY <2>3, <2>4 DEF GraphInv
<1>5. CASE WriteBuild
  <2>1. /\ build.at = "write" /\ build.session /\ build' = NotBuilding
        /\ index' = build.seen /\ lease' = Released("build")
        /\ UNCHANGED <<disk, watch, builds, faults>>
    BY <1>5 DEF WriteBuild, MayWrite
  <2>2. GraphTables'
    BY <1>1, <1>2, <2>1 DEF GraphInv, GraphTables, Released
  <2>3. Fenced' /\ Marked'
    BY <1>1, <1>2, <2>1 DEF GraphInv, Fenced, Marked, Released
  <2> QED
    BY <2>2, <2>3 DEF GraphInv
<1>6. CASE StopBuild
  BY <1>1, <1>2, <1>6, BuilderLeaves DEF StopBuild
<1> QED
  BY <1>3, <1>4, <1>5, <1>6

(* The inductive invariant of the watcher and the writers of the graph: their   *)
(* types, the lease as the writer's session, and the marks of the scheduler.   *)
THEOREM GraphInvariant == GraphSpec => []GraphInv
<1>1. GraphInv /\ [GraphNext]_graphVars => GraphInv'
  <2> SUFFICES ASSUME GraphInv, [GraphNext]_graphVars
               PROVE  GraphInv'
    OBVIOUS
  <2>1. ASSUME Change \/ Hint \/ Noise \/ Tick PROVE GraphInv'
    BY <2>1, SourcesInv
  <2>2. ASSUME StartWatch \/ StopWatch PROVE GraphInv'
    BY <2>2, StartStopInv
  <2>3. ASSUME BeginPass \/ CensusFails \/ CensusReads PROVE GraphInv'
    BY <2>3, PassInv
  <2>4. ASSUME Acquire \/ NoGraph \/ Scan \/ WriteIndex \/ UpdateFails PROVE GraphInv'
    BY <2>4, UpdateInv
  <2>5. ASSUME LoseSession PROVE GraphInv'
    BY <2>5, LoseSessionInv
  <2>6. ASSUME StartBuild \/ ScanBuild \/ WriteBuild \/ StopBuild PROVE GraphInv'
    BY <2>6, BuildInv
  <2>7. CASE UNCHANGED graphVars
    BY <2>7 DEF graphVars, GraphInv, GraphTables, Fenced, Marked
  <2> QED
    BY <2>1, <2>2, <2>3, <2>4, <2>5, <2>6, <2>7 DEF GraphNext, WatchNext
<1> QED
  BY <1>1, GraphInitInv, PTL DEF GraphSpec

\* A graph appears in a build and does not go.
LEMMA OnlyBuildsMakeGraphs ==
  ASSUME [GraphNext]_graphVars
  PROVE  /\ built' = built \/ built' = TRUE
         /\ ~WriteBuild => built' = built
<1>1. CASE WatchNext
  BY <1>1 DEF WatchNext, Change, Hint, Noise, Tick, StartWatch, StopWatch, BeginPass,
              CensusFails, CensusReads, Acquire, NoGraph, Scan, WriteIndex, UpdateFails
<1>2. CASE LoseSession \/ StartBuild \/ ScanBuild \/ WriteBuild \/ StopBuild
  BY <1>2 DEF LoseSession, StartBuild, ScanBuild, WriteBuild, StopBuild
<1>3. CASE UNCHANGED graphVars
  BY <1>3 DEF graphVars
<1> QED
  BY <1>1, <1>2, <1>3 DEF GraphNext

(* The watcher and the other writer have their types; a hint that is kept has    *)
(* a pass that will look at it.                                               *)
THEOREM GraphTypes == GraphSpec => []GraphTypeOK
<1> DEFINE Known == built \in BOOLEAN
<1>1. GraphInv /\ Known => GraphTypeOK
  BY DEF GraphInv, GraphTables, Marked, WatchType, BuildType, GraphTypeOK
<1>2. GraphInit => Known
  BY DEF GraphInit
<1>3. Known /\ [GraphNext]_graphVars => Known'
  <2> SUFFICES ASSUME Known, [GraphNext]_graphVars
               PROVE  Known'
    OBVIOUS
  <2>1. built' = built \/ built' = TRUE
    BY OnlyBuildsMakeGraphs
  <2> QED
    BY <2>1
<1> HIDE DEF Known
<1> QED
  BY <1>1, <1>2, <1>3, GraphInvariant, PTL DEF GraphSpec

(* The graph never goes back to an older scan, also when a writer runs on        *)
(* without its lease, for any number of changes, builds and failures (the one   *)
(* session of withGraphWriter).                                               *)
THEOREM ScansAreNotOvertaken == GraphSpec => IndexNeverGoesBack
<1>1. GraphInv /\ [GraphNext]_graphVars => [index' >= index]_graphVars
  <2> SUFFICES ASSUME GraphInv, GraphNext
               PROVE  index' >= index
    OBVIOUS
  <2>1. index \in Nat /\ index >= index
    BY DEF GraphInv, GraphTables
  <2>2. CASE WriteIndex
    BY <2>2 DEF WriteIndex, MayWrite, GraphInv, GraphTables, Fenced, WatchType
  <2>3. CASE WriteBuild
    BY <2>3 DEF WriteBuild, MayWrite, GraphInv, GraphTables, Fenced, BuildType
  <2>4. CASE ~WriteIndex /\ ~WriteBuild
    <3>1. index' = index
      BY <2>4 DEF GraphNext, WatchNext, Change, Hint, Noise, Tick, StartWatch, StopWatch, BeginPass,
                  CensusFails, CensusReads, Acquire, NoGraph, Scan, UpdateFails, LoseSession, StartBuild,
                  ScanBuild, StopBuild
    <3> QED
      BY <2>1, <3>1
  <2> QED
    BY <2>2, <2>3, <2>4
<1> QED
  BY <1>1, GraphInvariant, PTL DEF GraphSpec, IndexNeverGoesBack

\* A change that the graph does not have is being seen to: the hint about it is yet
\* to come, waits for a check that has a time, is being checked, or an update is
\* wanted, or under way and will have scanned the sources as they are.
SeenTo ==
  \/ owed
  \/ watch.hints = "source" /\ watch.pending /\ watch.checkDue # Off
  \/ watch.needs
  \/ watch.at = "check" /\ watch.batch = "source"
  \/ watch.at \in {"acquire", "scan"}
  \/ watch.at = "write" /\ watch.seen = disk

\* A graph that is there is behind the sources, or one that is about to be built is.
Behind ==
  \/ built /\ index # disk
  \/ build.at = "write" /\ build.session /\ build.seen # disk

\* While the watcher runs, no change is forgotten: not by a failed check, by a lost lease,
\* by hints that come while it works or by a build that scanned before the change
\* (watch-scheduler.ts).
NoChangeLost == Watching /\ Behind => SeenTo

\* A check that is pending has a time.
Timed == watch.pending => watch.checkDue # Off

\* A check keeps its time, and a change its hint, while sources change and time passes.
LEMMA HintsKeepChanges ==
  ASSUME GraphInv, Timed, NoChangeLost, Change \/ Hint \/ Noise \/ Tick
  PROVE  Timed' /\ NoChangeLost'
<1>1. /\ watch \in WatchType /\ Debounce \in Nat /\ Debounce # Off
      /\ watch.checkDue \in 0 .. Off /\ Off = Debounce + 1
  BY GraphFacts, GraphBounds DEF WatchType, Off
<1>2. CASE Change
  BY <1>2 DEF Change, Timed, NoChangeLost, SeenTo, Watching
<1>3. ASSUME NEW kind \in {"noise", "source"}, watch' = Hinted(kind),
             UNCHANGED <<disk, built, index, build>>, owed' = owed \/ kind = "source"
      PROVE  Timed' /\ NoChangeLost'
  <2> DEFINE due == IF watch.pending THEN watch.checkDue ELSE Debounce
             h == IF kind = "noise" /\ watch.hints # "none" THEN watch.hints ELSE kind
  <2>1. due # Off /\ (h = "source" <=> watch.hints = "source" \/ kind = "source")
    BY <1>1, <1>3 DEF Timed, GraphInv, Marked, WatchType
  <2>2. watch' = [watch EXCEPT !.pending = TRUE, !.hint = 0, !.checkDue = due, !.hints = h]
    BY <1>3, GraphFacts DEF Hinted, WatchType
  <2> HIDE DEF due, h
  <2>3. /\ watch'.pending /\ watch'.checkDue = due /\ watch'.hints = h
        /\ watch'.at = watch.at /\ watch'.needs = watch.needs
        /\ watch'.batch = watch.batch /\ watch'.seen = watch.seen
    BY <1>1, <2>2 DEF WatchType
  <2>4. NoChangeLost'
    BY <1>3, <2>1, <2>3 DEF NoChangeLost, Behind, SeenTo, Watching
  <2> QED
    BY <2>1, <2>3, <2>4 DEF Timed
<1>4. CASE Hint
  <2>1. watch' = Hinted("source") /\ UNCHANGED <<disk, built, index, build>>
    BY <1>4 DEF Hint
  <2> DEFINE due == IF watch.pending THEN watch.checkDue ELSE Debounce
  <2>2. due # Off
    BY <1>1 DEF Timed
  <2>3. watch' = [watch EXCEPT !.pending = TRUE, !.hint = 0, !.checkDue = due, !.hints = "source"]
    BY <2>1, GraphFacts DEF Hinted, WatchType
  <2> HIDE DEF due
  <2>4. watch'.pending /\ watch'.checkDue = due /\ watch'.hints = "source"
    BY <1>1, <2>3 DEF WatchType
  <2> QED
    BY <2>2, <2>4 DEF Timed, NoChangeLost, SeenTo
<1>5. CASE Noise
  <2>1. watch' = Hinted("noise") /\ UNCHANGED <<disk, built, index, build, owed>>
    BY <1>5 DEF Noise
  <2> QED
    BY <1>3, <2>1
<1>6. CASE Tick
  <2> DEFINE due == IF watch.checkDue = Off THEN watch.checkDue ELSE Less(watch.checkDue)
             n == Less(watch.nextStart)
             m == Less(watch.retryAt)
             a == Older(watch.hint)
             b == Older(watch.observed)
             c == Older(watch.qualified)
  <2>1. due = Off => watch.checkDue = Off
    BY <1>1 DEF Less
  <2>2. watch' = [watch EXCEPT !.checkDue = due, !.nextStart = n, !.retryAt = m,
                               !.hint = a, !.observed = b, !.qualified = c]
    BY <1>6, GraphFacts DEF Tick, WatchType
  <2> HIDE DEF due, n, m, a, b, c
  <2>3. /\ watch'.checkDue = due /\ watch'.pending = watch.pending
        /\ watch'.hints = watch.hints /\ watch'.at = watch.at /\ watch'.needs = watch.needs
        /\ watch'.batch = watch.batch /\ watch'.seen = watch.seen
    BY <1>1, <2>2 DEF WatchType
  <2> QED
    BY <1>6, <2>1, <2>3 DEF Tick, Timed, NoChangeLost, Behind, SeenTo, Watching
<1> QED
  BY <1>2, <1>4, <1>5, <1>6

\* What a pass takes from the marks it puts back, or hands to an update.
LEMMA PassesKeepChanges ==
  ASSUME GraphInv, Timed, NoChangeLost,
         StartWatch \/ StopWatch \/ BeginPass \/ CensusFails \/ CensusReads
  PROVE  Timed' /\ NoChangeLost'
<1>1. watch \in WatchType
  BY GraphFacts
<1>2. CASE StartWatch
  <2>1. watch'.needs /\ ~watch'.pending
    BY <1>2 DEF StartWatch, NotWatching
  <2> QED
    BY <2>1 DEF Timed, NoChangeLost, SeenTo
<1>3. CASE StopWatch
  <2>1. watch'.at = "off" /\ ~watch'.pending
    BY <1>3 DEF StopWatch, NotWatching
  <2> QED
    BY <2>1 DEF Timed, NoChangeLost, Watching
<1>4. CASE BeginPass
  <2>1. /\ watch'.at = "check" /\ ~watch'.pending /\ watch'.batch = watch.hints
        /\ watch'.needs = watch.needs /\ watch.at = "idle"
        /\ UNCHANGED <<disk, built, index, build, owed>>
    BY <1>1, <1>4 DEF BeginPass, WatchType
  <2> QED
    BY <2>1 DEF Timed, NoChangeLost, Behind, SeenTo, Watching
<1>5. CASE CensusFails
  <2> DEFINE h == IF watch.batch = "none" THEN watch.hints ELSE "source"
             one == [watch EXCEPT !.hints = h]
  <2>1. watch' = PassFailed(one)
    BY <1>5 DEF CensusFails
  <2> HIDE DEF h
  <2>2. /\ one = [one EXCEPT !.hints = h]
        /\ one.pending = watch.pending /\ one.checkDue = watch.checkDue
    BY <1>1 DEF WatchType
  <2>3. PassFailed(one).needs /\ PassFailed(one).pending = one.pending
        /\ PassFailed(one).checkDue = one.checkDue
    BY <1>1 DEF PassFailed, WatchType
  <2> HIDE DEF one
  <2> QED
    BY <2>1, <2>2, <2>3 DEF Timed, NoChangeLost, SeenTo
<1>6. CASE CensusReads
  <2>1. PICK changed \in BOOLEAN :
          /\ watch.batch = "source" => changed
          /\ LET q == Qualified(changed)
                 due == watch.needs \/ changed
                 starts == due /\ UpdateDue(q)
             IN watch' = [watch EXCEPT !.at = IF starts THEN "acquire" ELSE "idle",
                                       !.needs = due /\ ~starts,
                                       !.startup = @ /\ ~starts,
                                       !.nextStart = IF starts THEN Interval ELSE @,
                                       !.qualified = q, !.batch = "none", !.census = disk]
    BY <1>6 DEF CensusReads
  <2> DEFINE q == Qualified(changed)
             due == watch.needs \/ changed
             starts == due /\ UpdateDue(q)
             at == IF starts THEN "acquire" ELSE "idle"
             p == due /\ ~starts
             b == watch.startup /\ ~starts
             n == IF starts THEN Interval ELSE watch.nextStart
             w == [watch EXCEPT !.at = at, !.needs = p, !.startup = b, !.nextStart = n,
                                !.qualified = q, !.batch = "none", !.census = disk]
  <2>2. watch' = w
    BY <2>1
  <2>3. (watch.needs \/ watch.batch = "source") => (at = "acquire" \/ p)
    BY <2>1
  <2> HIDE DEF q, starts, at, p, b, n
  <2>4. /\ w.at = at /\ w.needs = p /\ w.hints = watch.hints
        /\ w.pending = watch.pending /\ w.checkDue = watch.checkDue
    BY <1>1 DEF WatchType
  <2>5. UNCHANGED <<disk, built, index, build, owed>> /\ watch.at = "check"
    BY <1>6 DEF CensusReads
  <2> HIDE DEF w
  <2> QED
    BY <2>2, <2>3, <2>4, <2>5 DEF Timed, NoChangeLost, Behind, SeenTo, Watching
<1> QED
  BY <1>2, <1>3, <1>4, <1>5, <1>6

\* An update that ends has brought the graph to the sources as they are, or the
\* change came after its scan; one that fails is made again.
LEMMA UpdatesKeepChanges ==
  ASSUME GraphInv, Timed, NoChangeLost,
         Acquire \/ NoGraph \/ Scan \/ WriteIndex \/ UpdateFails
  PROVE  Timed' /\ NoChangeLost'
<1>1. watch \in WatchType
  BY GraphFacts
<1>2. CASE Acquire
  <2>1. /\ watch'.at = "scan" /\ watch'.pending = watch.pending
        /\ watch'.checkDue = watch.checkDue
    BY <1>1, <1>2 DEF Acquire, WatchType
  <2> QED
    BY <2>1 DEF Timed, NoChangeLost, SeenTo
<1>3. CASE Scan
  <2>1. /\ watch'.at = "write" /\ watch'.seen = disk /\ disk' = disk
        /\ watch'.pending = watch.pending /\ watch'.checkDue = watch.checkDue
    BY <1>1, <1>3 DEF Scan, WatchType
  <2> QED
    BY <2>1 DEF Timed, NoChangeLost, SeenTo
<1>4. CASE WriteIndex
  <2>1. /\ watch'.at = "idle" /\ watch.at = "write" /\ watch'.hints = watch.hints
        /\ watch'.pending = watch.pending /\ watch'.checkDue = watch.checkDue
        /\ watch'.needs = watch.needs
        /\ index' = watch.seen /\ UNCHANGED <<disk, built, build, owed>>
    BY <1>1, <1>4 DEF WriteIndex, WatchType
  <2>2. /\ watch.seen # disk => index # disk
        /\ ~build.session
    <3>1. watch.session /\ index \in 0 .. disk /\ disk \in Nat
          /\ watch.seen \in 0 .. MaxChanges /\ watch.seen <= disk /\ index <= watch.seen
      BY <1>1, <1>4, GraphBounds DEF WriteIndex, MayWrite, GraphInv, GraphTables, Fenced, WatchType
    <3>2. ~build.session
      BY <3>1 DEF GraphInv, Fenced
    <3> QED
      BY <3>1, <3>2
  <2>3. Behind' => Watching /\ built /\ watch.seen # disk
    BY <2>1, <2>2 DEF Behind, Watching
  <2>4. Behind' => SeenTo
    BY <2>2, <2>3 DEF NoChangeLost, Behind
  <2>5. Behind' => SeenTo'
    BY <2>1, <2>3, <2>4 DEF SeenTo
  <2> QED
    BY <2>1, <2>5 DEF Timed, NoChangeLost
<1>5. CASE UpdateFails
  <2> DEFINE one == [watch EXCEPT !.session = FALSE]
  <2>1. watch' = PassFailed(one)
    BY <1>5 DEF UpdateFails
  <2>2. /\ PassFailed(one).needs /\ PassFailed(one).pending = watch.pending
        /\ PassFailed(one).checkDue = watch.checkDue
    BY <1>1 DEF PassFailed, WatchType
  <2> HIDE DEF one
  <2> QED
    BY <2>1, <2>2 DEF Timed, NoChangeLost, SeenTo
<1>6. CASE NoGraph
  <2>1. /\ ~built' /\ build' = build /\ ~build.session
        /\ watch'.pending = watch.pending /\ watch'.checkDue = watch.checkDue
    BY <1>1, <1>6 DEF NoGraph, WatchType, GraphInv, Fenced
  <2> QED
    BY <2>1 DEF Timed, NoChangeLost, Behind
<1> QED
  BY <1>2, <1>3, <1>4, <1>5, <1>6

\* Another writer, and a lost session, take no mark away and bring the graph back to
\* nothing older.
LEMMA WritersKeepChanges ==
  ASSUME GraphInv, Timed, NoChangeLost,
         LoseSession \/ StartBuild \/ ScanBuild \/ WriteBuild \/ StopBuild
  PROVE  Timed' /\ NoChangeLost'
<1>1. watch \in WatchType
  BY GraphFacts
<1>2. /\ watch'.at = watch.at /\ watch'.hints = watch.hints /\ watch'.needs = watch.needs
      /\ watch'.pending = watch.pending /\ watch'.checkDue = watch.checkDue
      /\ watch'.batch = watch.batch /\ watch'.seen = watch.seen
      /\ UNCHANGED <<disk, owed>>
  <2>1. CASE LoseSession
    BY <1>1, <2>1 DEF LoseSession, WatchType
  <2>2. CASE StartBuild \/ ScanBuild \/ WriteBuild \/ StopBuild
    BY <2>2 DEF StartBuild, ScanBuild, WriteBuild, StopBuild
  <2> QED
    BY <2>1, <2>2
<1>3. index \in 0 .. disk /\ disk \in Nat /\ build \in BuildType
  BY GraphBounds DEF GraphInv, GraphTables
<1>4. Watching' /\ Behind' => Watching /\ Behind
  <2>1. CASE WriteBuild
    BY <1>2, <2>1 DEF WriteBuild, MayWrite, NotBuilding, Behind, Watching
  <2>2. CASE LoseSession
    BY <1>2, <1>3, <2>2 DEF LoseSession, BuildType, Behind, Watching
  <2>3. CASE StartBuild
    BY <1>2, <2>3 DEF StartBuild, NotBuilding, Behind, Watching
  <2>4. CASE ScanBuild
    BY <1>2, <1>3, <2>4 DEF ScanBuild, BuildType, Behind, Watching
  <2>5. CASE StopBuild
    BY <1>2, <2>5 DEF StopBuild, NotBuilding, Behind, Watching
  <2> QED
    BY <2>1, <2>2, <2>3, <2>4, <2>5
<1>5. SeenTo => SeenTo'
  BY <1>2 DEF SeenTo
<1> QED
  BY <1>2, <1>4, <1>5 DEF Timed, NoChangeLost

(* No change of the sources falls through between the marks and deadlines of     *)
(* the watcher: while it runs and the graph that is there, or the one that is   *)
(* about to be built, is behind, something of it or of the file system is about *)
(* to see to it.  This is the part of                  *)
(* EventuallyIndexed that is not about time.                                  *)
THEOREM NoChangeIsLost == GraphSpec => []NoChangeLost
<1>1. GraphInit => Timed /\ NoChangeLost
  BY DEF GraphInit, NotWatching, Timed, NoChangeLost, Watching
<1>2. GraphInv /\ Timed /\ NoChangeLost /\ [GraphNext]_graphVars => Timed' /\ NoChangeLost'
  <2> SUFFICES ASSUME GraphInv, Timed, NoChangeLost, [GraphNext]_graphVars
               PROVE  Timed' /\ NoChangeLost'
    OBVIOUS
  <2>1. CASE Change \/ Hint \/ Noise \/ Tick
    BY <2>1, HintsKeepChanges
  <2>2. CASE StartWatch \/ StopWatch \/ BeginPass \/ CensusFails \/ CensusReads
    BY <2>2, PassesKeepChanges
  <2>3. CASE Acquire \/ NoGraph \/ Scan \/ WriteIndex \/ UpdateFails
    BY <2>3, UpdatesKeepChanges
  <2>4. CASE LoseSession \/ StartBuild \/ ScanBuild \/ WriteBuild \/ StopBuild
    BY <2>4, WritersKeepChanges
  <2>5. CASE UNCHANGED graphVars
    BY <2>5 DEF graphVars, Timed, NoChangeLost, Behind, SeenTo, Watching
  <2> QED
    BY <2>1, <2>2, <2>3, <2>4, <2>5 DEF GraphNext, WatchNext
<1> QED
  BY <1>1, <1>2, GraphInvariant, PTL DEF GraphSpec

----------------------------------------------------------------------------
(* SemanticIndex *)

\* The invariant at the start.
LEMMA SemanticInitInv == SemanticInit => SemanticInv
<1> SUFFICES ASSUME SemanticInit PROVE SemanticInv
  OBVIOUS
<1>1. policy \in [revision : 0 .. MaxRevisions, model : Models \cup {"off"}]
  BY SemanticBounds DEF SemanticInit
<1>2. NoJob \in JobType /\ NoWorker \in WorkerType
  BY SemanticBounds DEF NoJob, NoWorker, JobType, WorkerType
<1>3. \A j \in JobIds : jobs[j].revision = 0 /\ worker[j].doc = 0 /\ worker[j].at = "none"
  BY DEF SemanticInit, NoJob, NoWorker
<1>4. jobs \in [JobIds -> JobType] /\ worker \in [JobIds -> WorkerType]
  BY <1>2 DEF SemanticInit
<1>5. policy.revision = 0
  BY DEF SemanticInit
<1>6. /\ change \in BOOLEAN /\ lane \in {0} \cup JobIds /\ symbol = 1
  BY DEF SemanticInit
<1>7. vectors \in [Models -> 0 .. symbol]
  <2>1. vectors = [m \in Models |-> 0] /\ 0 \in 0 .. symbol
    BY DEF SemanticInit
  <2> QED
    BY <2>1
<1>8. symbol \in 1 .. MaxSymbol
  BY <1>6, SemanticBounds
<1>9. SemanticTables
  BY <1>1, <1>3, <1>4, <1>5, <1>6, <1>7, <1>8 DEF SemanticTables
<1> QED
  BY <1>3, <1>9 DEF SemanticInit, SemanticInv, Locks, JobLocked

\* A job that changes into a typed one.
LEMMA JobChanges ==
  ASSUME NEW R \in JobType, NEW s \in {"none", "running"} \cup Ended, NEW b \in BOOLEAN
  PROVE  /\ [R EXCEPT !.state = s] \in JobType
         /\ [R EXCEPT !.state = s].revision = R.revision
         /\ [R EXCEPT !.cancel = b] \in JobType
         /\ [R EXCEPT !.cancel = b].revision = R.revision
BY DEF JobType

\* A worker that changes into a typed one.
LEMMA WorkerChanges ==
  ASSUME NEW R \in WorkerType, NEW n \in 0 .. MaxSymbol,
         NEW at \in {"none", "start", "embed", "save", "project", "job", "node", "final"}
  PROVE  /\ [R EXCEPT !.at = at] \in WorkerType
         /\ [R EXCEPT !.at = at].at = at /\ [R EXCEPT !.at = at].doc = R.doc
         /\ [R EXCEPT !.doc = n] \in WorkerType
         /\ [R EXCEPT !.doc = n].doc = n /\ [R EXCEPT !.doc = n].at = R.at
         /\ [at |-> at, doc |-> n] \in WorkerType
BY DEF WorkerType

\* A worker that goes on to a step without locks, or drops those it has.
LEMMA WorkerGoes ==
  ASSUME SemanticInv, NEW j \in JobIds, NEW w \in WorkerType,
         worker' = [worker EXCEPT ![j] = w], w.doc <= symbol,
         w.at \notin {"project", "job", "node"}, jobs' = jobs, lane' \in {0} \cup JobIds,
         UNCHANGED <<policy, change, symbol>>, vectors' \in [Models -> 0 .. symbol]
  PROVE  SemanticInv'
<1>1. SemanticTables'
  BY DEF SemanticInv, SemanticTables
<1>2. Locks'
  BY DEF SemanticInv, SemanticTables, Locks, JobLocked, Running, ProjectShared
<1> QED
  BY <1>1, <1>2 DEF SemanticInv

\* A job is reserved when no other runs.
LEMMA ReserveJobInv ==
  ASSUME SemanticInv, ReserveJob
  PROVE  SemanticInv'
<1> DEFINE new == [state |-> "running", cancel |-> FALSE,
                   revision |-> policy.revision, model |-> policy.model]
<1>1. PICK j \in JobIds : /\ jobs[j] = NoJob
                          /\ jobs' = [jobs EXCEPT ![j] = new]
                          /\ worker' = At(j, "start")
  BY DEF ReserveJob
<1>2. ~change /\ ~ProjectShared /\ UNCHANGED <<policy, change, lane, symbol, vectors>>
  BY DEF ReserveJob
<1>3. new \in JobType /\ new.revision = policy.revision
  BY DEF SemanticInv, SemanticTables, JobType
<1> DEFINE w == [worker[j] EXCEPT !.at = "start"]
<1>4. w \in WorkerType /\ w.at = "start" /\ w.doc = worker[j].doc
  <2>1. worker[j] \in WorkerType /\ 0 \in 0 .. MaxSymbol
    BY SemanticBounds DEF SemanticInv, SemanticTables
  <2> QED
    BY <2>1, WorkerChanges
<1>5. worker' = [worker EXCEPT ![j] = w]
  BY <1>1 DEF At
<1> HIDE DEF new, w
<1>6. SemanticTables'
  BY <1>1, <1>2, <1>3, <1>4, <1>5 DEF SemanticInv, SemanticTables
<1>7. Locks'
  BY <1>1, <1>2, <1>4, <1>5
     DEF SemanticInv, SemanticTables, Locks, JobLocked, Running, ProjectShared
<1> QED
  BY <1>6, <1>7 DEF SemanticInv

\* A job that nobody has locked is ended or cancelled.
LEMMA JobGoes ==
  ASSUME SemanticInv, NEW j \in JobIds, NEW job \in JobType,
         jobs' = [jobs EXCEPT ![j] = job], job.revision = jobs[j].revision,
         \/ ~JobLocked(j) /\ worker' = worker
         \/ worker' = [worker EXCEPT ![j] = NoWorker],
         lane' \in {0} \cup JobIds,
         UNCHANGED <<policy, change, symbol, vectors>>
  PROVE  SemanticInv'
<1>1. NoWorker \in WorkerType /\ NoWorker.at = "none" /\ NoWorker.doc = 0
  BY SemanticBounds DEF NoWorker, WorkerType
<1>2. SemanticTables'
  BY <1>1, SemanticBounds DEF SemanticInv, SemanticTables
<1>3. Locks'
  BY <1>1 DEF SemanticInv, SemanticTables, Locks, JobLocked, Running, ProjectShared
<1> QED
  BY <1>2, <1>3 DEF SemanticInv

\* A job that ends, is cancelled or recovered.
LEMMA JobEndsInv ==
  ASSUME SemanticInv, NEW j \in JobIds, CancelJob(j) \/ RecoverJob(j) \/ FinishIndex(j)
  PROVE  SemanticInv'
<1>1. jobs[j] \in JobType /\ jobs \in [JobIds -> JobType] /\ lane \in {0} \cup JobIds
  BY DEF SemanticInv, SemanticTables
<1>2. CASE CancelJob(j)
  <2> DEFINE s == IF jobs[j].state = "running" THEN "cancelled" ELSE jobs[j].state
             one == [jobs[j] EXCEPT !.cancel = TRUE]
             job == [one EXCEPT !.state = s]
  <2>1. jobs' = [jobs EXCEPT ![j] = job]
    BY <1>1, <1>2 DEF CancelJob, JobType
  <2>2. one \in JobType /\ one.revision = jobs[j].revision
    BY <1>1, JobChanges DEF Ended
  <2>3. s \in {"none", "running"} \cup Ended
    BY <1>1 DEF JobType, Ended
  <2> HIDE DEF s, one
  <2>4. job \in JobType /\ job.revision = jobs[j].revision
    BY <2>2, <2>3, JobChanges
  <2> HIDE DEF job
  <2> QED
    BY <1>1, <1>2, <2>1, <2>4, JobGoes DEF CancelJob
<1>3. CASE RecoverJob(j)
  <2> DEFINE s == IF jobs[j].cancel THEN "cancelled" ELSE "failed"
             job == [jobs[j] EXCEPT !.state = s]
  <2>1. jobs' = [jobs EXCEPT ![j] = job]
    BY <1>3 DEF RecoverJob
  <2>2. s \in {"none", "running"} \cup Ended
    BY DEF Ended
  <2> HIDE DEF s
  <2>3. job \in JobType /\ job.revision = jobs[j].revision
    BY <1>1, <2>2, JobChanges
  <2> HIDE DEF job
  <2> QED
    BY <1>1, <1>3, <2>1, <2>3, JobGoes DEF RecoverJob
<1>4. CASE FinishIndex(j)
  <2>1. PICK state_ \in {"completed", "partial"} :
          jobs' = IF Running(j) THEN [jobs EXCEPT ![j].state = state_] ELSE jobs
    BY <1>4 DEF FinishIndex
  <2> DEFINE job == IF Running(j) THEN [jobs[j] EXCEPT !.state = state_] ELSE jobs[j]
  <2>2. jobs' = [jobs EXCEPT ![j] = job]
    BY <1>1, <2>1
  <2>3. state_ \in {"none", "running"} \cup Ended
    BY <2>1 DEF Ended
  <2>4. job \in JobType /\ job.revision = jobs[j].revision
    BY <1>1, <2>3, JobChanges
  <2> HIDE DEF job
  <2>5. /\ worker' = [worker EXCEPT ![j] = NoWorker] /\ lane' \in {0} \cup JobIds
        /\ UNCHANGED <<policy, change, symbol, vectors>>
    BY <1>1, <1>4 DEF FinishIndex, LaneAfter
  <2> QED
    BY <2>2, <2>4, <2>5, JobGoes
<1> QED
  BY <1>2, <1>3, <1>4

\* The policy changes while nobody has the project.
LEMMA ChangeInv ==
  ASSUME SemanticInv, BeginChange \/ CommitChange \/ EndChange
  PROVE  SemanticInv'
<1>1. CASE BeginChange
  BY <1>1 DEF BeginChange, SemanticInv, SemanticTables, Locks, JobLocked, Running, ProjectShared
<1>2. CASE EndChange
  BY <1>2 DEF EndChange, SemanticInv, SemanticTables, Locks, JobLocked, Running, ProjectShared
<1>3. CASE CommitChange
  <2>1. PICK m \in (Models \cup {"off"}) \ {policy.model} :
          policy' = [revision |-> policy.revision + 1, model |-> m]
    BY <1>3 DEF CommitChange
  <2>2. /\ policy' \in [revision : 0 .. MaxRevisions, model : Models \cup {"off"}]
        /\ policy'.revision = policy.revision + 1
    BY <1>3, <2>1, SemanticBounds DEF CommitChange, SemanticInv, SemanticTables
  <2>3. \A j \in JobIds : ~JobLocked(j)
    BY <1>3 DEF CommitChange, SemanticInv, Locks, ProjectShared, JobLocked
  <2>4. \A j \in JobIds : jobs'[j] \in JobType /\ jobs'[j].revision = jobs[j].revision
    BY <1>3, JobChanges DEF CommitChange, SemanticInv, SemanticTables, Ended
  <2>5. jobs' \in [JobIds -> JobType]
    BY <1>3, <2>4 DEF CommitChange
  <2>6. UNCHANGED <<worker, lane, symbol, vectors>> /\ change' = FALSE
    BY <1>3 DEF CommitChange
  <2>7. SemanticTables'
    <3>1. \A j \in JobIds : jobs'[j].revision <= policy'.revision
      BY <2>2, <2>4, SemanticBounds DEF SemanticInv, SemanticTables, JobType
    <3> QED
      BY <2>2, <2>5, <2>6, <3>1 DEF SemanticInv, SemanticTables
  <2>8. Locks'
    BY <2>3, <2>6 DEF SemanticInv, Locks, JobLocked
  <2> QED
    BY <2>7, <2>8 DEF SemanticInv
<1> QED
  BY <1>1, <1>2, <1>3

\* A symbol is written by nobody while a save holds its row.
LEMMA WriteSymbolInv ==
  ASSUME SemanticInv, WriteSymbol
  PROVE  SemanticInv'
<1>1. /\ symbol' = symbol + 1 /\ symbol' \in 1 .. MaxSymbol /\ symbol \in Nat
      /\ \A j \in JobIds : worker[j].at # "node"
      /\ UNCHANGED <<policy, change, jobs, worker, lane, vectors>>
  BY SemanticBounds DEF WriteSymbol, SymbolShared, SemanticInv, SemanticTables
<1>2. SemanticTables'
  BY <1>1, SemanticBounds DEF SemanticInv, SemanticTables, WorkerType
<1>3. Locks'
  BY <1>1 DEF SemanticInv, Locks, JobLocked, Running, ProjectShared
<1> QED
  BY <1>2, <1>3 DEF SemanticInv

\* The worker, but for the locks of its transaction.
LEMMA WorkerInv ==
  ASSUME SemanticInv, NEW j \in JobIds,
         StartIndex(j) \/ Embed(j) \/ SaveCommit(j) \/ WorkerDies(j)
  PROVE  SemanticInv'
<1>1. /\ worker[j] \in WorkerType /\ worker[j].doc \in 0 .. MaxSymbol /\ worker[j].doc <= symbol
      /\ symbol \in 0 .. MaxSymbol /\ 0 \in 0 .. MaxSymbol /\ 0 <= symbol
      /\ lane \in {0} \cup JobIds
      /\ vectors \in [Models -> 0 .. symbol]
  BY SemanticBounds DEF SemanticInv, SemanticTables, WorkerType
<1>2. CASE StartIndex(j)
  <2> DEFINE w == [worker[j] EXCEPT !.at = "embed"]
  <2>1. w \in WorkerType /\ w.at = "embed" /\ w.doc <= symbol
    BY <1>1, WorkerChanges
  <2>2. worker' = [worker EXCEPT ![j] = w] /\ lane' = j
        /\ UNCHANGED <<policy, change, jobs, symbol, vectors>>
    BY <1>2 DEF StartIndex, At
  <2> HIDE DEF w
  <2> QED
    BY <1>1, <2>1, <2>2, WorkerGoes
<1>3. CASE Embed(j)
  <2>1. PICK doc \in {0, symbol} :
          worker' = [worker EXCEPT ![j] = [at |-> "save", doc |-> doc]]
    BY <1>3 DEF Embed
  <2> DEFINE w == [at |-> "save", doc |-> doc]
  <2>2. w \in WorkerType /\ w.at = "save" /\ w.doc <= symbol
    <3>1. doc \in 0 .. MaxSymbol /\ doc <= symbol
      BY <1>1, <2>1
    <3> QED
      BY <3>1 DEF WorkerType
  <2>3. worker' = [worker EXCEPT ![j] = w] /\ UNCHANGED <<policy, change, jobs, lane, symbol, vectors>>
    BY <1>3, <2>1 DEF Embed
  <2> HIDE DEF w
  <2> QED
    BY <1>1, <2>2, <2>3, WorkerGoes
<1>4. CASE SaveCommit(j)
  <2> DEFINE w == [worker[j] EXCEPT !.at = "final"]
  <2>1. w \in WorkerType /\ w.at = "final" /\ w.doc <= symbol
    BY <1>1, WorkerChanges
  <2>2. worker' = [worker EXCEPT ![j] = w] /\ UNCHANGED <<policy, change, jobs, lane, symbol>>
    BY <1>4 DEF SaveCommit, At
  <2>3. vectors' \in [Models -> 0 .. symbol]
    <3>1. worker[j].doc \in 0 .. symbol
      BY <1>1
    <3> QED
      BY <1>1, <1>4, <3>1 DEF SaveCommit
  <2> HIDE DEF w
  <2> QED
    BY <1>1, <2>1, <2>2, <2>3, WorkerGoes
<1>5. CASE WorkerDies(j)
  <2>1. NoWorker \in WorkerType /\ NoWorker.at = "none" /\ NoWorker.doc <= symbol
    BY <1>1 DEF NoWorker, WorkerType
  <2>2. worker' = [worker EXCEPT ![j] = NoWorker] /\ lane' \in {0} \cup JobIds
        /\ UNCHANGED <<policy, change, jobs, symbol, vectors>>
    BY <1>1, <1>5 DEF WorkerDies, LaneAfter
  <2> QED
    BY <1>1, <2>1, <2>2, WorkerGoes
<1> QED
  BY <1>2, <1>3, <1>4, <1>5

\* The locks of its transaction, each with what is read under it.
LEMMA SaveInv ==
  ASSUME SemanticInv, NEW j \in JobIds,
         SaveShareProject(j) \/ SaveLockJob(j) \/ SaveShareSymbol(j)
  PROVE  SemanticInv'
<1>1. /\ worker[j] \in WorkerType /\ worker[j].doc \in 0 .. MaxSymbol /\ worker[j].doc <= symbol
      /\ 0 \in 0 .. MaxSymbol /\ 0 <= symbol
  BY SemanticBounds DEF SemanticInv, SemanticTables, WorkerType
<1>2. UNCHANGED <<policy, change, jobs, lane, symbol, vectors>> /\ ~change
  BY DEF SaveShareProject, SaveLockJob, SaveShareSymbol, SemanticInv, Locks, ProjectShared
<1>3. CASE SaveShareProject(j)
  <2> DEFINE w == [worker[j] EXCEPT !.at = "project"]
  <2>1. w \in WorkerType /\ w.at = "project" /\ w.doc = worker[j].doc
    BY <1>1, WorkerChanges
  <2>2. worker' = [worker EXCEPT ![j] = w]
    BY <1>3 DEF SaveShareProject, At
  <2> HIDE DEF w
  <2>3. SemanticTables'
    BY <1>1, <1>2, <2>1, <2>2 DEF SemanticInv, SemanticTables
  <2>4. Locks'
    BY <1>2, <2>1, <2>2 DEF SemanticInv, SemanticTables, Locks, JobLocked, Running
  <2> QED
    BY <2>3, <2>4 DEF SemanticInv
<1>4. CASE SaveLockJob(j)
  <2> DEFINE w == [worker[j] EXCEPT !.at = "job"]
  <2>1. w \in WorkerType /\ w.at = "job" /\ w.doc = worker[j].doc
    BY <1>1, WorkerChanges
  <2>2. worker' = [worker EXCEPT ![j] = w]
    BY <1>4 DEF SaveLockJob, At
  <2> HIDE DEF w
  <2>3. SemanticTables'
    BY <1>1, <1>2, <2>1, <2>2 DEF SemanticInv, SemanticTables
  <2>4. Locks'
    BY <1>2, <1>4, <2>1, <2>2
       DEF SaveLockJob, SemanticInv, SemanticTables, Locks, JobLocked, Running
  <2> QED
    BY <2>3, <2>4 DEF SemanticInv
<1>5. CASE SaveShareSymbol(j)
  <2> DEFINE n == IF worker[j].doc = symbol THEN worker[j].doc ELSE 0
             one == [worker[j] EXCEPT !.at = "node"]
             w == [one EXCEPT !.doc = n]
  <2>1. one \in WorkerType /\ one.at = "node" /\ one.doc = worker[j].doc
    BY <1>1, WorkerChanges
  <2>2. worker' = [worker EXCEPT ![j] = w]
    BY <1>1, <1>5, <2>1 DEF SaveShareSymbol, SemanticInv, SemanticTables
  <2>3. n \in 0 .. MaxSymbol /\ n \in {0, symbol} /\ n <= symbol
    BY <1>1
  <2> HIDE DEF n, one
  <2>4. w \in WorkerType /\ w.at = "node" /\ w.doc = n
    BY <2>1, <2>3 DEF WorkerType
  <2> HIDE DEF w
  <2>5. worker[j].at = "job"
    BY <1>5 DEF SaveShareSymbol
  <2>6. SemanticTables'
    BY <1>2, <2>2, <2>3, <2>4 DEF SemanticInv, SemanticTables
  <2>7. Locks'
    BY <1>2, <2>2, <2>3, <2>4, <2>5
       DEF SemanticInv, SemanticTables, Locks, JobLocked, Running
  <2> QED
    BY <2>6, <2>7 DEF SemanticInv
<1> QED
  BY <1>3, <1>4, <1>5

(* The inductive invariant of the semantic index: its types, and what a        *)
(* transaction that saves a vector has read under its locks.                  *)
THEOREM SemanticInvariant == SemanticSpec => []SemanticInv
<1>1. SemanticInv /\ [SemanticNext]_semanticVars => SemanticInv'
  <2> SUFFICES ASSUME SemanticInv, [SemanticNext]_semanticVars
               PROVE  SemanticInv'
    OBVIOUS
  <2>1. ASSUME ReserveJob PROVE SemanticInv'
    BY <2>1, ReserveJobInv
  <2>2. ASSUME BeginChange \/ CommitChange \/ EndChange PROVE SemanticInv'
    BY <2>2, ChangeInv
  <2>3. ASSUME WriteSymbol PROVE SemanticInv'
    BY <2>3, WriteSymbolInv
  <2>4. ASSUME LoseLane PROVE SemanticInv'
    BY <2>4 DEF LoseLane, SemanticInv, SemanticTables, Locks, JobLocked, Running, ProjectShared
  <2>5. ASSUME NEW j \in JobIds, CancelJob(j) \/ RecoverJob(j) \/ FinishIndex(j)
        PROVE  SemanticInv'
    BY <2>5, JobEndsInv
  <2>6. ASSUME NEW j \in JobIds, StartIndex(j) \/ Embed(j) \/ SaveCommit(j) \/ WorkerDies(j)
        PROVE  SemanticInv'
    BY <2>6, WorkerInv
  <2>7. ASSUME NEW j \in JobIds,
               SaveShareProject(j) \/ SaveLockJob(j) \/ SaveShareSymbol(j)
        PROVE  SemanticInv'
    BY <2>7, SaveInv
  <2>8. CASE UNCHANGED semanticVars
    BY <2>8 DEF semanticVars, SemanticInv, SemanticTables, Locks, JobLocked, Running, ProjectShared
  <2> QED
    BY <2>1, <2>2, <2>3, <2>4, <2>5, <2>6, <2>7, <2>8 DEF SemanticNext
<1> QED
  BY <1>1, SemanticInitInv, PTL DEF SemanticSpec

(* The policy, the jobs, their workers and the vectors have their types.       *)
THEOREM SemanticTypes == SemanticSpec => []SemanticTypeOK
<1>1. SemanticInv => SemanticTypeOK
  <2> SUFFICES ASSUME SemanticInv PROVE SemanticTypeOK
    OBVIOUS
  <2>1. \A j \in JobIds : jobs[j] \in JobType /\ worker[j] \in WorkerType
    BY DEF SemanticInv, SemanticTables
  <2>2. \A j \in JobIds :
          /\ jobs[j].state \in {"none", "running"} \cup Ended
          /\ jobs[j].revision \in 0 .. policy.revision /\ jobs[j].model \in Models \cup {"off"}
    BY <2>1, SemanticBounds DEF SemanticInv, SemanticTables, JobType
  <2>3. \A j \in JobIds :
          /\ worker[j].at \in {"none", "start", "embed", "save", "project", "job", "node", "final"}
          /\ worker[j].doc \in 0 .. symbol
    BY <2>1, SemanticBounds DEF SemanticInv, SemanticTables, WorkerType
  <2> QED
    BY <2>2, <2>3 DEF SemanticInv, SemanticTables, SemanticTypeOK
<1> QED
  BY <1>1, SemanticInvariant, PTL

(* A vector that is stored is that of the symbol in the graph, made by the      *)
(* model of the policy for a job that runs and is not cancelled, for any number *)
(* of models, jobs and changes (the locks of saveDocument).                     *)
THEOREM VectorsAreWanted == SemanticSpec => SavesWhatIsWanted
<1> DEFINE Wanted == \A m \in Models :
        vectors'[m] # vectors[m] =>
          /\ vectors'[m] = symbol
          /\ policy.model = m
          /\ \E j \in JobIds : Running(j) /\ ~jobs[j].cancel
                               /\ jobs[j].revision = policy.revision
<1>1. SemanticInv /\ [SemanticNext]_semanticVars => [Wanted]_semanticVars
  <2> SUFFICES ASSUME SemanticInv, SemanticNext, NEW m \in Models, vectors'[m] # vectors[m]
               PROVE  /\ vectors'[m] = symbol
                      /\ policy.model = m
                      /\ \E j \in JobIds : Running(j) /\ ~jobs[j].cancel
                                           /\ jobs[j].revision = policy.revision
    OBVIOUS
  <2>1. PICK j \in JobIds : SaveCommit(j)
    BY DEF SemanticNext, ReserveJob, BeginChange, CommitChange, EndChange, WriteSymbol, LoseLane,
           CancelJob, RecoverJob, StartIndex, Embed, SaveShareProject, SaveLockJob,
           SaveShareSymbol, FinishIndex, WorkerDies
  <2>2. /\ Running(j) /\ ~jobs[j].cancel /\ jobs[j].revision = policy.revision
        /\ jobs[j].model = policy.model /\ worker[j].doc \in {0, symbol}
    BY <2>1 DEF SaveCommit, SemanticInv, Locks, JobLocked
  <2>3. /\ worker[j].doc # 0
        /\ vectors' = [vectors EXCEPT ![jobs[j].model] = worker[j].doc]
    BY <2>1 DEF SaveCommit
  <2>4. m = jobs[j].model /\ vectors'[m] = worker[j].doc
    BY <2>3 DEF SemanticInv, SemanticTables
  <2> QED
    BY <2>2, <2>3, <2>4
<1> QED
  BY <1>1, SemanticInvariant, PTL DEF SemanticSpec, SavesWhatIsWanted

----------------------------------------------------------------------------
(* Dashboard *)

\* The invariant at the start.
LEMMA DashInitInv == DashInit => DashInv
BY MaxLaunchesTyped DEF DashInit, DashInv, DashTypeOK, StateType, NoState, Launching, Locking,
   Spawned, EveryServerIsOnRecord, Alive, Launches, Nobody

\* A state file in another phase.
LEMMA PhaseTyped ==
  ASSUME NEW p \in {"none", "reserved", "launching", "running", "stopping"}, NEW i \in Nat
  PROVE  /\ Phase(p, i) \in StateType
         /\ Phase(p, i).phase = p /\ Phase(p, i).launch = i
         /\ Phase(p, i).owner = Nobody /\ ~Phase(p, i).known
BY DEF Phase, NoState, StateType

\* No state file.
LEMMA NoStateTyped ==
  /\ NoState \in StateType
  /\ NoState.phase = "none" /\ NoState.launch = 0 /\ NoState.owner = Nobody
BY DEF NoState, StateType

\* What may be cleared, and no state, is of no server that lives.
LEMMA ClearedIsDead ==
  ASSUME EveryServerIsOnRecord, state.phase \in {"none", "reserved"} \/ Clearable
  PROVE  \A i \in Launches : ~Alive(i)
BY DEF EveryServerIsOnRecord, Clearable, LaunchingClearable

\* Nobody has the state lock.
LEMMA Unlocked ==
  ASSUME LockFree
  PROVE  \A i \in Launches : runner[i] \notin Locking \cup {"published"}
BY DEF LockFree, Locking

\* What is cleared is the file of no server that lives.
LEMMA ClearStateInv ==
  ASSUME DashInv, ClearState
  PROVE  DashInv'
BY ClearedIsDead, Unlocked, NoStateTyped
   DEF ClearState, DashInv, DashTypeOK, Launching, Spawned, EveryServerIsOnRecord, Alive

\* A launch begins where nothing is on record.
LEMMA LaunchInv ==
  ASSUME DashInv, Reserve \/ RunForeground
  PROVE  DashInv'
<1> DEFINE n == launches + 1
<1>1. /\ LockFree /\ n \in Launches /\ launches' = n /\ n > launches
      /\ state.phase = "none" \/ Clearable
      /\ UNCHANGED <<server, stopper>>
  BY MaxLaunchesTyped DEF Reserve, RunForeground, Launches, DashInv, DashTypeOK
<1>2. \A i \in Launches : ~Alive(i) /\ runner[i] \notin Locking \cup {"published"}
  BY <1>1, ClearedIsDead, Unlocked DEF DashInv
<1>3. starter[n] = "none" /\ runner[n] = "none" /\ server[n] = "none"
  BY <1>1 DEF DashInv, Spawned
<1>4. CASE Reserve
  <2>1. /\ state' = Phase("reserved", n)
        /\ starter' = [starter EXCEPT ![n] = "spawning"] /\ runner' = runner
    BY <1>1, <1>4 DEF Reserve
  <2>2. state' \in StateType /\ state'.phase = "reserved" /\ state'.launch = n
        /\ state'.owner = Nobody
    BY <2>1, <1>1, PhaseTyped DEF Launches
  <2> HIDE DEF n
  <2>3. DashTypeOK'
    BY <1>1, <2>1, <2>2, MaxLaunchesTyped DEF DashInv, DashTypeOK, Launches
  <2>4. Spawned'
    BY <1>1, <1>3, <2>1, MaxLaunchesTyped DEF DashInv, DashTypeOK, Spawned, Launches
  <2> QED
    BY <1>1, <1>2, <2>1, <2>2, <2>3, <2>4
       DEF DashInv, Launching, EveryServerIsOnRecord, Alive
<1>5. CASE RunForeground
  <2>1. /\ state' = Phase("launching", n)
        /\ runner' = [runner EXCEPT ![n] = "prepare"] /\ starter' = starter
    BY <1>1, <1>5 DEF RunForeground
  <2>2. state' \in StateType /\ state'.phase = "launching" /\ state'.launch = n
        /\ state'.owner = Nobody
    BY <2>1, <1>1, PhaseTyped DEF Launches
  <2> HIDE DEF n
  <2>3. DashTypeOK'
    BY <1>1, <2>1, <2>2, MaxLaunchesTyped DEF DashInv, DashTypeOK, Launches
  <2>4. Spawned'
    BY <1>1, <1>3, <2>1, MaxLaunchesTyped DEF DashInv, DashTypeOK, Spawned, Launches
  <2> QED
    BY <1>1, <1>2, <2>1, <2>2, <2>3, <2>4
       DEF DashInv, DashTypeOK, Launching, EveryServerIsOnRecord, Alive
<1> QED
  BY <1>4, <1>5

\* The starter of a launch.
LEMMA StarterInv ==
  ASSUME DashInv, NEW i \in Launches,
         SpawnRunner(i) \/ CancelReservation(i) \/ StarterEnds(i)
  PROVE  DashInv'
<1>1. CASE SpawnRunner(i)
  BY <1>1 DEF SpawnRunner, DashInv, DashTypeOK, Launching, Locking, Spawned,
              EveryServerIsOnRecord, Alive
<1>2. CASE CancelReservation(i)
  <2>1. state' = state \/ (state' = NoState /\ \A j \in Launches : ~Alive(j))
    BY <1>2, ClearedIsDead DEF CancelReservation, DashInv
  <2> QED
    BY <1>2, <2>1, NoStateTyped, Unlocked
       DEF CancelReservation, DashInv, DashTypeOK, Launching, Spawned,
           EveryServerIsOnRecord, Alive
<1>3. CASE StarterEnds(i)
  BY <1>3 DEF StarterEnds, DashInv, DashTypeOK, Launching, Spawned,
              EveryServerIsOnRecord, Alive
<1> QED
  BY <1>1, <1>2, <1>3

\* The runner of a launch, until it has the lock.
LEMMA QueuedInv ==
  ASSUME DashInv, NEW i \in Launches, Prepare(i) \/ RefuseLaunch(i)
  PROVE  DashInv'
<1>1. CASE Prepare(i)
  <2>1. /\ state' = Phase("launching", i) /\ runner' = [runner EXCEPT ![i] = "prepare"]
        /\ state.launch = i
        /\ UNCHANGED <<launches, starter, server, stopper>>
    BY <1>1 DEF Prepare
  <2>2. state' \in StateType /\ state'.phase = "launching" /\ state'.launch = i
        /\ state'.owner = Nobody
    BY <2>1, PhaseTyped DEF Launches
  <2>3. \A j \in Launches : ~Alive(j) /\ runner[j] \notin Locking \cup {"published"}
    BY <1>1, ClearedIsDead, Unlocked DEF Prepare, DashInv
  <2>4. server[i] = "none" /\ starter[i] # "spawning" /\ i <= launches
    BY <1>1 DEF Prepare, DashInv, DashTypeOK, Spawned, Launches
  <2> QED
    BY <2>1, <2>2, <2>3, <2>4
       DEF DashInv, DashTypeOK, Launching, Spawned, EveryServerIsOnRecord, Alive
<1>2. CASE RefuseLaunch(i)
  <2>1. state' = state \/ (state' = NoState /\ \A j \in Launches : ~Alive(j))
    BY <1>2, ClearedIsDead DEF RefuseLaunch, DashInv
  <2> QED
    BY <1>2, <2>1, NoStateTyped, Unlocked
       DEF RefuseLaunch, DashInv, DashTypeOK, Launching, Locking, Spawned,
           EveryServerIsOnRecord, Alive
<1> QED
  BY <1>1, <1>2

\* The runner of a launch while it has the lock.
LEMMA PreparedInv ==
  ASSUME DashInv, NEW i \in Launches,
         \/ SpawnServer(i) \/ SpawnFails(i) \/ PublishPid(i) \/ PublishRunning(i)
         \/ Supervise(i) \/ PublishFails(i)
  PROVE  DashInv'
<1>1. /\ runner[i] \in Locking \cup {"published"}
      /\ state.launch = i
      /\ runner[i] \in Locking => state.phase = "launching"
      /\ runner[i] = "published" => state.phase = "running"
      /\ \A j \in Launches : j # i => runner[j] \notin Locking \cup {"published"} /\ ~Alive(j)
      /\ starter[i] # "spawning" /\ i <= launches
  BY DEF SpawnServer, SpawnFails, PublishPid, PublishRunning, Supervise, PublishFails, DashInv,
         DashTypeOK, Launching, Locking, Spawned, EveryServerIsOnRecord, Launches
<1>2. CASE SpawnServer(i)
  BY <1>1, <1>2 DEF SpawnServer, DashInv, DashTypeOK, Launching, Locking, Spawned,
                    EveryServerIsOnRecord, Alive
<1>3. CASE SpawnFails(i)
  BY <1>1, <1>3, NoStateTyped
     DEF SpawnFails, DashInv, DashTypeOK, Launching, Locking, Spawned,
         EveryServerIsOnRecord, Alive
<1>4. CASE PublishPid(i)
  <2>1. /\ state' = [state EXCEPT !.known = TRUE] /\ runner' = [runner EXCEPT ![i] = "publish"]
        /\ UNCHANGED <<launches, starter, server, stopper>>
    BY <1>4 DEF PublishPid
  <2>2. /\ state'.phase = state.phase /\ state'.launch = state.launch
        /\ state'.owner = state.owner /\ state' \in StateType
    BY <2>1 DEF DashInv, StateType
  <2>3. /\ runner[i] \in Locking /\ runner[i] \notin {"none", "queued", "prepare"}
        /\ state.phase = "launching"
    BY <1>1, <1>4 DEF PublishPid, Locking
  <2>4. DashTypeOK'
    BY <2>1, <2>2 DEF DashInv, DashTypeOK
  <2>5. Launching'
    BY <1>1, <2>1, <2>2, <2>3 DEF DashInv, DashTypeOK, Launching, Locking
  <2>6. Spawned'
    BY <1>1, <2>1, <2>3 DEF DashInv, DashTypeOK, Spawned, Launches
  <2>7. EveryServerIsOnRecord'
    BY <1>1, <2>1, <2>2 DEF DashInv, DashTypeOK, EveryServerIsOnRecord, Alive
  <2> QED
    BY <2>2, <2>4, <2>5, <2>6, <2>7 DEF DashInv
<1>5. CASE PublishRunning(i)
  <2>1. /\ state' = Phase("running", i) /\ runner' = [runner EXCEPT ![i] = "published"]
        /\ UNCHANGED <<launches, starter, server, stopper>>
    BY <1>5 DEF PublishRunning
  <2>2. state' \in StateType /\ state'.phase = "running" /\ state'.launch = i
        /\ state'.owner = Nobody
    BY <2>1, PhaseTyped DEF Launches
  <2>3. runner[i] \in Locking /\ runner[i] \notin {"none", "queued", "prepare"}
    BY <1>5 DEF PublishRunning, Locking
  <2>4. DashTypeOK'
    BY <1>1, <2>1, <2>2 DEF DashInv, DashTypeOK, Launches
  <2>5. Launching'
    BY <1>1, <2>1, <2>2 DEF DashInv, DashTypeOK, Launching, Locking
  <2>6. Spawned'
    BY <1>1, <2>1, <2>3 DEF DashInv, DashTypeOK, Spawned, Launches
  <2>7. EveryServerIsOnRecord'
    BY <1>1, <2>1, <2>2 DEF EveryServerIsOnRecord, Alive
  <2> QED
    BY <2>2, <2>4, <2>5, <2>6, <2>7 DEF DashInv
<1>6. CASE Supervise(i) \/ PublishFails(i)
  BY <1>1, <1>6 DEF Supervise, PublishFails, DashInv, DashTypeOK, Launching, Locking, Spawned,
                    EveryServerIsOnRecord, Alive
<1> QED
  BY <1>2, <1>3, <1>4, <1>5, <1>6

\* The runner of a launch after it had the lock, and its server.
LEMMA SupervisedInv ==
  ASSUME DashInv, NEW i \in Launches,
         \/ RecoverSignal(i) \/ RecoverClean(i)
         \/ RunnerEnds(i) \/ RunnerDies(i) \/ ServerEnds(i)
  PROVE  DashInv'
<1>1. CASE RecoverSignal(i)
  BY <1>1 DEF RecoverSignal, DashInv, DashTypeOK, Launching, Locking, Spawned,
              EveryServerIsOnRecord, Alive
<1>2. CASE RecoverClean(i)
  <2>1. state' = state \/ (state' = NoState /\ \A j \in Launches : ~Alive(j))
    BY <1>2 DEF RecoverClean, OwnLaunch, DashInv, EveryServerIsOnRecord
  <2>2. runner[i] = "recover" /\ LockFree /\ runner' = [runner EXCEPT ![i] = "gone"]
        /\ UNCHANGED <<launches, starter, server, stopper>>
    BY <1>2 DEF RecoverClean
  <2> QED
    BY <2>1, <2>2, NoStateTyped, Unlocked
       DEF DashInv, DashTypeOK, Launching, Locking, Spawned, EveryServerIsOnRecord, Alive
<1>3. CASE RunnerEnds(i)
  <2>1. state' = state \/ (state' = NoState /\ \A j \in Launches : ~Alive(j))
    BY <1>3 DEF RunnerEnds, RemoveOwn, DashInv, EveryServerIsOnRecord
  <2>2. runner[i] = "supervise" /\ LockFree /\ runner' = [runner EXCEPT ![i] = "gone"]
        /\ UNCHANGED <<launches, starter, server, stopper>>
    BY <1>3 DEF RunnerEnds
  <2> QED
    BY <2>1, <2>2, NoStateTyped, Unlocked
       DEF DashInv, DashTypeOK, Launching, Locking, Spawned, EveryServerIsOnRecord, Alive
<1>4. CASE RunnerDies(i)
  BY <1>4 DEF RunnerDies, DashInv, DashTypeOK, Launching, Locking, Spawned,
              EveryServerIsOnRecord, Alive
<1>5. CASE ServerEnds(i)
  BY <1>5 DEF ServerEnds, DashInv, DashTypeOK, Launching, Locking, Spawned,
              EveryServerIsOnRecord, Alive
<1> QED
  BY <1>1, <1>2, <1>3, <1>4, <1>5

\* A stopper changes the phase of the launch on record, or ends its server.
LEMMA StopperInv ==
  ASSUME DashInv, NEW k \in Stoppers,
         \/ ReserveStop(k) \/ DeliverSignal(k) \/ FinishStop(k)
         \/ StopperGivesUp(k) \/ StopperDies(k)
  PROVE  DashInv'
<1>1. CASE ReserveStop(k)
  <2>1. /\ state' = [Phase("stopping", state.launch) EXCEPT !.owner = k]
        /\ stopper' = [stopper EXCEPT ![k] = "deliver"]
        /\ state.phase \in {"running", "stopping"} /\ LockFree
        /\ UNCHANGED <<launches, starter, runner, server>>
    BY <1>1 DEF ReserveStop
  <2>2. /\ state' \in StateType /\ state'.phase = "stopping" /\ state'.launch = state.launch
        /\ state'.owner = k
    <3>1. state.launch \in Nat
      BY DEF DashInv, StateType
    <3>2. Phase("stopping", state.launch) \in StateType
          /\ Phase("stopping", state.launch).phase = "stopping"
          /\ Phase("stopping", state.launch).launch = state.launch
      BY <3>1, PhaseTyped
    <3> QED
      BY <2>1, <3>2 DEF StateType
  <2> QED
    BY <2>1, <2>2, Unlocked
       DEF DashInv, DashTypeOK, Launching, Spawned, EveryServerIsOnRecord, Alive
<1>2. CASE DeliverSignal(k)
  BY <1>2, Unlocked DEF DeliverSignal, OwnStop, DashInv, DashTypeOK, Launching, Spawned,
              EveryServerIsOnRecord, Alive
<1>3. CASE FinishStop(k)
  <2>1. /\ state' = IF OwnStop(k) THEN AfterStop ELSE state
        /\ stopper' = [stopper EXCEPT ![k] = "idle"] /\ LockFree
        /\ UNCHANGED <<launches, starter, runner, server>>
    BY <1>3 DEF FinishStop
  <2>2. CASE ~OwnStop(k)
    BY <2>1, <2>2, Unlocked
       DEF DashInv, DashTypeOK, Launching, Spawned, EveryServerIsOnRecord, Alive
  <2>3. CASE OwnStop(k) /\ Alive(state.launch)
    <3>1. state' = Phase("running", state.launch) /\ state.launch \in Nat
      BY <2>1, <2>3 DEF AfterStop, DashInv, StateType
    <3>2. /\ state' \in StateType /\ state'.phase = "running" /\ state'.launch = state.launch
          /\ state'.owner = Nobody
      BY <3>1, PhaseTyped
    <3> QED
      BY <2>1, <3>2, Unlocked
         DEF DashInv, DashTypeOK, Launching, Spawned, EveryServerIsOnRecord, Alive
  <2>4. CASE OwnStop(k) /\ ~Alive(state.launch)
    <3>1. state' = NoState /\ \A j \in Launches : ~Alive(j)
      BY <2>1, <2>4 DEF AfterStop, DashInv, EveryServerIsOnRecord
    <3> QED
      BY <2>1, <3>1, NoStateTyped, Unlocked
         DEF DashInv, DashTypeOK, Launching, Spawned, EveryServerIsOnRecord, Alive
  <2> QED
    BY <2>2, <2>3, <2>4
<1>4. CASE StopperGivesUp(k) \/ StopperDies(k)
  BY <1>4 DEF StopperGivesUp, StopperDies, DashInv, DashTypeOK, Launching, Spawned,
              EveryServerIsOnRecord, Alive
<1> QED
  BY <1>1, <1>2, <1>3, <1>4

(* The inductive invariant of the dashboard: its types, what a runner under    *)
(* the lock knows, and the record of the server.                              *)
THEOREM DashInvariant == DashSpec => []DashInv
<1>1. DashInv /\ [DashNext]_dashVars => DashInv'
  <2> SUFFICES ASSUME DashInv, [DashNext]_dashVars
               PROVE  DashInv'
    OBVIOUS
  <2>1. ASSUME ClearState PROVE DashInv'
    BY <2>1, ClearStateInv
  <2>2. ASSUME Reserve \/ RunForeground PROVE DashInv'
    BY <2>2, LaunchInv
  <2>3. ASSUME NEW i \in Launches,
               SpawnRunner(i) \/ CancelReservation(i) \/ StarterEnds(i)
        PROVE  DashInv'
    BY <2>3, StarterInv
  <2>4. ASSUME NEW i \in Launches, Prepare(i) \/ RefuseLaunch(i) PROVE DashInv'
    BY <2>4, QueuedInv
  <2>5. ASSUME NEW i \in Launches,
               \/ SpawnServer(i) \/ SpawnFails(i)
               \/ PublishPid(i) \/ PublishRunning(i) \/ Supervise(i) \/ PublishFails(i)
        PROVE  DashInv'
    BY <2>5, PreparedInv
  <2>6. ASSUME NEW i \in Launches,
               \/ RecoverSignal(i) \/ RecoverClean(i)
               \/ RunnerEnds(i) \/ RunnerDies(i) \/ ServerEnds(i)
        PROVE  DashInv'
    BY <2>6, SupervisedInv
  <2>7. ASSUME NEW k \in Stoppers,
               \/ ReserveStop(k) \/ DeliverSignal(k) \/ FinishStop(k)
               \/ StopperGivesUp(k) \/ StopperDies(k)
        PROVE  DashInv'
    BY <2>7, StopperInv
  <2>8. CASE UNCHANGED dashVars
    BY <2>8 DEF dashVars, DashInv, DashTypeOK, Launching, Spawned, EveryServerIsOnRecord, Alive
  <2> QED
    BY <2>1, <2>2, <2>3, <2>4, <2>5, <2>6, <2>7, <2>8 DEF DashNext
<1> QED
  BY <1>1, DashInitInv, PTL DEF DashSpec

(* The state file and the processes of the dashboard have their types.        *)
THEOREM DashTypes == DashSpec => []DashTypeOK
<1>1. DashInv => DashTypeOK
  BY DEF DashInv
<1> QED
  BY <1>1, DashInvariant, PTL

(* Every dashboard server that lives is the one of the state file, for any     *)
(* number of launches and stoppers and wherever any of them is killed          *)
(* (launchingCanBeCleared, executeStop, recoveryOwnsChild).                   *)
THEOREM EveryLivingServerIsOnRecord == DashSpec => []EveryServerIsOnRecord
<1>1. DashInv => EveryServerIsOnRecord
  BY DEF DashInv
<1> QED
  BY <1>1, DashInvariant, PTL

\* Every phase of the state file has the runner that belongs to it, alive or dead, and
\* a stop the stopper that reserved it, at work or dead.
Attended ==
  /\ state.phase # "none" => state.launch \in Launches
  /\ state.phase = "reserved" => runner[state.launch] \in {"none", "queued", "gone"}
  /\ state.phase = "launching" => runner[state.launch] \in Locking \cup {"recover", "gone"}
  /\ state.phase = "running" =>
       runner[state.launch] \in {"published", "supervise", "recover", "gone"}
  /\ state.phase = "stopping" =>
       /\ runner[state.launch] \in {"supervise", "recover", "gone"}
       /\ state.owner \in Stoppers
       /\ stopper[state.owner] \in {"deliver", "finish", "stuck", "dead"}

\* A launch begins with a runner of its own.
LEMMA LaunchAttended ==
  ASSUME DashInv, Reserve \/ RunForeground
  PROVE  Attended'
<1> DEFINE n == launches + 1
<1>1. n \in Launches /\ n > launches /\ launches' = n
  BY MaxLaunchesTyped DEF Reserve, RunForeground, Launches, DashInv, DashTypeOK
<1>2. runner[n] = "none" /\ runner \in [Launches -> {"none", "queued", "prepare", "spawned",
                                          "publish", "published", "supervise", "recover",
                                          "gone"}]
  BY <1>1 DEF DashInv, DashTypeOK, Spawned
<1>3. CASE Reserve
  <2>1. state' = Phase("reserved", n) /\ runner' = runner
    BY <1>1, <1>3 DEF Reserve
  <2>2. state'.phase = "reserved" /\ state'.launch = n
    BY <1>1, <2>1, PhaseTyped DEF Launches
  <2> HIDE DEF n
  <2> QED
    BY <1>1, <1>2, <2>1, <2>2 DEF Attended
<1>4. CASE RunForeground
  <2>1. state' = Phase("launching", n) /\ runner' = [runner EXCEPT ![n] = "prepare"]
    BY <1>1, <1>4 DEF RunForeground
  <2>2. state'.phase = "launching" /\ state'.launch = n
    BY <1>1, <2>1, PhaseTyped DEF Launches
  <2> HIDE DEF n
  <2> QED
    BY <1>1, <1>2, <2>1, <2>2 DEF Attended, Locking
<1> QED
  BY <1>3, <1>4

\* The steps of a launch keep the phase and its runner together.
LEMMA RunnerAttended ==
  ASSUME DashInv, Attended, NEW i \in Launches,
         \/ SpawnRunner(i) \/ CancelReservation(i) \/ StarterEnds(i)
         \/ Prepare(i) \/ RefuseLaunch(i)
         \/ SpawnServer(i) \/ SpawnFails(i) \/ PublishPid(i) \/ PublishRunning(i)
         \/ Supervise(i) \/ PublishFails(i) \/ RecoverSignal(i) \/ RecoverClean(i)
         \/ RunnerEnds(i) \/ RunnerDies(i) \/ ServerEnds(i)
  PROVE  Attended'
<1> DEFINE known == [state EXCEPT !.known = TRUE]
<1>1. /\ runner \in [Launches -> {"none", "queued", "prepare", "spawned",
                                  "publish", "published", "supervise", "recover",
                                          "gone"}]
      /\ state \in StateType /\ i \in Nat
  BY DEF DashInv, DashTypeOK, Launches
<1>2. /\ NoState.phase = "none"
      /\ \A p \in {"none", "reserved", "launching", "running", "stopping"} :
           Phase(p, i).phase = p /\ Phase(p, i).launch = i
  BY <1>1, NoStateTyped, PhaseTyped
<1>3. known.phase = state.phase /\ known.launch = state.launch /\ known.owner = state.owner
  BY <1>1 DEF StateType
<1> HIDE DEF known
<1>4. CASE SpawnRunner(i)
  <2>1. runner[i] = "none"
    BY <1>4 DEF SpawnRunner, DashInv, Spawned
  <2> QED
    BY <1>1, <1>4, <2>1 DEF SpawnRunner, Attended, Locking
<1>5. CASE CancelReservation(i) \/ StarterEnds(i)
  BY <1>2, <1>5 DEF CancelReservation, StarterEnds, Attended
<1>6. CASE Prepare(i)
  BY <1>1, <1>2, <1>6 DEF Prepare, Attended, Locking
<1>7. CASE RefuseLaunch(i) \/ RecoverClean(i) \/ RunnerEnds(i)
  <2>1. /\ state' \in {state, NoState} /\ stopper' = stopper
        /\ runner' = [runner EXCEPT ![i] = "gone"]
    BY <1>7 DEF RefuseLaunch, RecoverClean, RunnerEnds
  <2> QED
    BY <1>1, <1>2, <2>1 DEF Attended
<1>8. CASE SpawnServer(i) \/ Supervise(i) \/ PublishFails(i)
  <2>1. /\ state' = state /\ stopper' = stopper
        /\ \/ /\ runner[i] \in Locking
              /\ \E to \in Locking \cup {"recover"} : runner' = [runner EXCEPT ![i] = to]
           \/ /\ runner[i] = "published"
              /\ \E to \in {"supervise", "recover"} : runner' = [runner EXCEPT ![i] = to]
    BY <1>8 DEF SpawnServer, Supervise, PublishFails, Locking
  <2>2. /\ state.launch = i
        /\ runner[i] \in Locking => state.phase = "launching"
        /\ runner[i] = "published" => state.phase = "running"
    BY <2>1 DEF DashInv, Launching
  <2> QED
    BY <1>1, <2>1, <2>2 DEF Attended, Locking
<1>9. CASE SpawnFails(i)
  BY <1>2, <1>9 DEF SpawnFails, Attended
<1>10. CASE PublishPid(i)
  <2>1. /\ state' = known /\ stopper' = stopper
        /\ runner' = [runner EXCEPT ![i] = "publish"] /\ runner[i] \in Locking
    BY <1>10 DEF PublishPid, Locking, known
  <2>2. state.phase = "launching" /\ state.launch = i
    BY <2>1 DEF DashInv, Launching
  <2> QED
    BY <1>1, <1>3, <2>1, <2>2 DEF Attended, Locking
<1>11. CASE PublishRunning(i)
  BY <1>1, <1>2, <1>11 DEF PublishRunning, Attended
<1>12. CASE RunnerDies(i)
  BY <1>1, <1>12 DEF RunnerDies, Attended
<1>13. CASE RecoverSignal(i) \/ ServerEnds(i)
  BY <1>13 DEF RecoverSignal, ServerEnds, Attended
<1> QED
  BY <1>4, <1>5, <1>6, <1>7, <1>8, <1>9, <1>10, <1>11, <1>12, <1>13

\* A stopper is idle again only when its stop is no longer on record.
LEMMA StopperAttended ==
  ASSUME DashInv, Attended, NEW k \in Stoppers,
         \/ ReserveStop(k) \/ DeliverSignal(k) \/ FinishStop(k)
         \/ StopperGivesUp(k) \/ StopperDies(k)
  PROVE  Attended'
<1>1. /\ stopper \in [Stoppers -> {"idle", "deliver", "finish", "stuck", "dead"}]
      /\ state \in StateType /\ state.launch \in Nat
  BY DEF DashInv, DashTypeOK, StateType
<1>2. CASE ReserveStop(k)
  <2>1. /\ state' = [Phase("stopping", state.launch) EXCEPT !.owner = k]
        /\ stopper' = [stopper EXCEPT ![k] = "deliver"]
        /\ state.phase \in {"running", "stopping"} /\ runner' = runner
        /\ \A i \in Launches : runner[i] # "published"
    BY <1>2, Unlocked DEF ReserveStop
  <2>2. state'.phase = "stopping" /\ state'.launch = state.launch /\ state'.owner = k
    <3>1. Phase("stopping", state.launch) \in StateType
          /\ Phase("stopping", state.launch).phase = "stopping"
          /\ Phase("stopping", state.launch).launch = state.launch
      BY <1>1, PhaseTyped
    <3> QED
      BY <2>1, <3>1 DEF StateType
  <2> QED
    BY <1>1, <2>1, <2>2 DEF Attended
<1>3. CASE DeliverSignal(k) \/ StopperGivesUp(k) \/ StopperDies(k)
  <2>1. /\ \E to \in {"finish", "stuck", "dead"} : stopper' = [stopper EXCEPT ![k] = to]
        /\ UNCHANGED <<state, runner>>
    BY <1>3 DEF DeliverSignal, StopperGivesUp, StopperDies
  <2> QED
    BY <1>1, <2>1 DEF Attended
<1>4. CASE FinishStop(k)
  <2>1. /\ stopper' = [stopper EXCEPT ![k] = "idle"] /\ runner' = runner
        /\ state' = IF OwnStop(k) THEN AfterStop ELSE state
    BY <1>4 DEF FinishStop
  <2>2. CASE OwnStop(k)
    <3>1. /\ state' \in {Phase("running", state.launch), NoState}
          /\ state.launch \in Launches /\ runner[state.launch] \in {"supervise", "recover", "gone"}
      BY <2>1, <2>2 DEF AfterStop, OwnStop, Attended
    <3>2. /\ NoState.phase = "none" /\ Phase("running", state.launch).phase = "running"
          /\ Phase("running", state.launch).launch = state.launch
      BY <1>1, NoStateTyped, PhaseTyped
    <3> QED
      BY <2>1, <3>1, <3>2 DEF Attended
  <2>3. CASE ~OwnStop(k)
    BY <1>1, <2>1, <2>3 DEF Attended, OwnStop
  <2> QED
    BY <2>2, <2>3
<1> QED
  BY <1>2, <1>3, <1>4

(* No phase of the dashboard is left behind without the process that is to end     *)
(* it: a launch has a runner that prepares or recovers it, a stop the stopper that  *)
(* is at it, unless that one is dead, which is what the commands look for           *)
(* (Clearable, ReserveStop).  This is the part of PhasesEnd that is not about time. *)
THEOREM PhasesAreAttended == DashSpec => []Attended
<1>1. DashInit => Attended
  BY NoStateTyped DEF DashInit, Attended
<1>2. DashInv /\ Attended /\ [DashNext]_dashVars => Attended'
  <2> SUFFICES ASSUME DashInv, Attended, [DashNext]_dashVars
               PROVE  Attended'
    OBVIOUS
  <2>1. CASE ClearState
    BY <2>1, NoStateTyped DEF ClearState, Attended
  <2>2. CASE Reserve \/ RunForeground
    BY <2>2, LaunchAttended
  <2>3. ASSUME NEW i \in Launches,
               \/ SpawnRunner(i) \/ CancelReservation(i) \/ StarterEnds(i)
               \/ Prepare(i) \/ RefuseLaunch(i)
               \/ SpawnServer(i) \/ SpawnFails(i) \/ PublishPid(i) \/ PublishRunning(i)
               \/ Supervise(i) \/ PublishFails(i) \/ RecoverSignal(i) \/ RecoverClean(i)
               \/ RunnerEnds(i) \/ RunnerDies(i) \/ ServerEnds(i)
        PROVE  Attended'
    BY <2>3, RunnerAttended
  <2>4. ASSUME NEW k \in Stoppers,
               \/ ReserveStop(k) \/ DeliverSignal(k) \/ FinishStop(k)
               \/ StopperGivesUp(k) \/ StopperDies(k)
        PROVE  Attended'
    BY <2>4, StopperAttended
  <2>5. CASE UNCHANGED dashVars
    BY <2>5 DEF dashVars, Attended
  <2> QED
    BY <2>1, <2>2, <2>3, <2>4, <2>5 DEF DashNext
<1> QED
  BY <1>1, <1>2, DashInvariant, PTL DEF DashSpec

----------------------------------------------------------------------------
\* Sums.  Induction needs a set of numbers or of sets here, never an operator.

\* A set of numbers that goes on from zero is all of them.
LEMMA Numbering ==
  ASSUME NEW E, 0 \in E, \A n \in Nat : n \in E => n + 1 \in E
  PROVE  Nat \subseteq E
<1> SUFFICES ASSUME Nat \ E # {} PROVE FALSE
  OBVIOUS
<1>1. PICK x \in Nat \ E : \A y \in Nat \ E : ~(<<y, x>> \in OpToRel(<, Nat))
  BY NatLessThanWellFounded, WFMin
<1>2. x # 0 /\ x - 1 \in Nat /\ x - 1 < x
  OBVIOUS
<1>3. x - 1 \in E
  BY <1>1, <1>2 DEF OpToRel
<1> QED
  BY <1>2, <1>3

\* Elements are counted one by one.
LEMMA OneLess ==
  ASSUME NEW S, IsFiniteSet(S), NEW x \in S
  PROVE  /\ IsFiniteSet(S \ {x}) /\ Cardinality(S) \in Nat /\ Cardinality(S \ {x}) \in Nat
         /\ Cardinality(S) = Cardinality(S \ {x}) + 1
<1>1. IsFiniteSet(S \ {x}) /\ Cardinality(S \ {x}) = Cardinality(S) - 1
  BY FS_RemoveElement
<1>2. Cardinality(S) \in Nat /\ Cardinality(S \ {x}) \in Nat
  BY <1>1, FS_CardinalityType
<1> QED
  BY <1>1, <1>2

\* What holds of the empty set, and with a set of that set and one more, holds of
\* every finite set.
LEMMA OneByOne ==
  ASSUME NEW S, IsFiniteSet(S), NEW P, {} \in P,
         \A T \in SUBSET S, x \in S : T \in P /\ x \notin T => T \cup {x} \in P
  PROVE  S \in P
<1> DEFINE E == {n \in Nat : \A T \in SUBSET S : Cardinality(T) = n => T \in P}
<1>1. \A T \in SUBSET S : IsFiniteSet(T) /\ Cardinality(T) \in Nat
  BY FS_Subset, FS_CardinalityType
<1>2. 0 \in E
  BY <1>1, FS_EmptySet
<1>3. ASSUME NEW n \in Nat, n \in E PROVE n + 1 \in E
  <2> SUFFICES ASSUME NEW T \in SUBSET S, Cardinality(T) = n + 1 PROVE T \in P
    BY <1>3
  <2>1. PICK x \in T : TRUE
    BY <1>1, FS_EmptySet
  <2>2. Cardinality(T \ {x}) = n
    BY <1>1, <2>1, OneLess
  <2>3. T \ {x} \in P /\ T = (T \ {x}) \cup {x}
    BY <1>3, <2>1, <2>2
  <2> QED
    BY <2>1, <2>3
<1> HIDE DEF E
<1>4. Cardinality(S) \in E
  BY <1>1, <1>2, <1>3, Numbering
<1> QED
  BY <1>4 DEF E

\* The function a sum over S is computed by.
Chosen(s) == CHOOSE x \in s : TRUE
Summed(f, S, g) ==
  g = [s \in SUBSET S |-> IF s = {} THEN 0 ELSE f[Chosen(s)] + g[s \ {Chosen(s)}]]
Summing(f, S) == CHOOSE g : Summed(f, S, g)

\* There is such a function: on sets of n elements at most, whatever n is.
LEMMA SummingIs ==
  ASSUME NEW S, IsFiniteSet(S), NEW f
  PROVE  /\ SumFunctionOnSet(f, S) = Summing(f, S)[S]
         /\ Summed(f, S, Summing(f, S))
<1> DEFINE Small(n) == {s \in SUBSET S : Cardinality(s) <= n}
           Good(n, h) == h = [s \in Small(n) |-> IF s = {} THEN 0
                                                ELSE f[Chosen(s)] + h[s \ {Chosen(s)}]]
           E == {n \in Nat : \E h : Good(n, h)}
<1>1. \A T \in SUBSET S : /\ IsFiniteSet(T) /\ Cardinality(T) \in Nat
                          /\ Cardinality(T) <= Cardinality(S)
                          /\ T # {} => Chosen(T) \in T
  BY FS_Subset, FS_CardinalityType DEF Chosen
<1>2. 0 \in E
  <2>1. \A s \in SUBSET S : Cardinality(s) <= 0 <=> s = {}
    BY <1>1, FS_EmptySet
  <2>2. Small(0) = {{}}
    <3>1. \A s : s \in Small(0) <=> s = {}
      BY <1>1, <2>1
    <3> QED
      BY <3>1
  <2>3. [s \in {{}} |-> 0] = [s \in {{}} |-> IF s = {} THEN 0
                            ELSE f[Chosen(s)] + [r \in {{}} |-> 0][s \ {Chosen(s)}]]
    OBVIOUS
  <2>4. Good(0, [s \in {{}} |-> 0])
    BY <2>2, <2>3
  <2> QED
    BY <2>4
<1>3. ASSUME NEW n \in Nat, n \in E PROVE n + 1 \in E
  <2>1. PICK h : Good(n, h)
    BY <1>3
  <2> DEFINE k == [s \in Small(n + 1) |-> IF s = {} THEN 0
                                          ELSE f[Chosen(s)] + h[s \ {Chosen(s)}]]
  <2>2. ASSUME NEW t \in Small(n) PROVE t \in Small(n + 1) /\ k[t] = h[t]
    <3>1. t \in Small(n + 1)
      BY <1>1
    <3>2. h[t] = IF t = {} THEN 0 ELSE f[Chosen(t)] + h[t \ {Chosen(t)}]
      <4> HIDE DEF Small
      <4> QED
        BY <2>1
    <3> QED
      BY <3>1, <3>2
  <2>3. ASSUME NEW s \in Small(n + 1), s # {} PROVE s \ {Chosen(s)} \in Small(n)
    <3>1. Cardinality(s \ {Chosen(s)}) = Cardinality(s) - 1
      BY <1>1, <2>3, OneLess
    <3> QED
      BY <1>1, <2>3, <3>1
  <2>4. ASSUME NEW s \in Small(n + 1)
        PROVE  k[s] = IF s = {} THEN 0 ELSE f[Chosen(s)] + k[s \ {Chosen(s)}]
    BY <2>2, <2>3, <2>4
  <2>5. k = [s \in Small(n + 1) |-> k[s]]
    OBVIOUS
  <2> HIDE DEF k, Small
  <2>6. Good(n + 1, k)
    BY <2>4, <2>5
  <2> QED
    BY <2>6
<1>4. Cardinality(S) \in E
  <2> HIDE DEF E
  <2> QED
    BY <1>1, <1>2, <1>3, Numbering
<1>5. Small(Cardinality(S)) = SUBSET S
  BY <1>1
<1>6. PICK g : Summed(f, S, g)
  BY <1>4, <1>5 DEF Summed
<1>7. Summed(f, S, Summing(f, S))
  BY <1>6 DEF Summing
<1>8. SumFunctionOnSet(f, S) = Summing(f, S)[S]
  BY DEF SumFunctionOnSet, FoldFunctionOnSet, MapThenFoldSet, Summing, Summed, Chosen
<1> QED
  BY <1>7, <1>8

\* A sum is that of one element and the rest.
LEMMA SumChosen ==
  ASSUME NEW S, IsFiniteSet(S), NEW f
  PROVE  /\ SumFunctionOnSet(f, {}) = 0
         /\ S # {} => SumFunctionOnSet(f, S) =
                        f[Chosen(S)] + SumFunctionOnSet(f, S \ {Chosen(S)})
<1>1. SumFunctionOnSet(f, {}) = 0
  BY FS_EmptySet, SummingIs DEF Summed
<1>2. ASSUME S # {}
      PROVE  SumFunctionOnSet(f, S) = f[Chosen(S)] + SumFunctionOnSet(f, S \ {Chosen(S)})
  <2> DEFINE T == S \ {Chosen(S)}
             F == Summing(f, S)
             G == Summing(f, T)
             P == {s \in SUBSET T : F[s] = G[s]}
             E == {n \in Nat : \A s \in SUBSET T : Cardinality(s) = n => F[s] = G[s]}
  <2>1. IsFiniteSet(T) /\ T \in SUBSET S
    BY FS_Subset
  <2>2. Summed(f, S, F) /\ Summed(f, T, G)
    BY <2>1, SummingIs
  <2>3. \A s \in SUBSET T : /\ IsFiniteSet(s) /\ Cardinality(s) \in Nat
                            /\ s # {} => Chosen(s) \in s
    BY <2>1, FS_Subset, FS_CardinalityType DEF Chosen
  <2>4. \A s \in SUBSET T :
          /\ F[s] = IF s = {} THEN 0 ELSE f[Chosen(s)] + F[s \ {Chosen(s)}]
          /\ G[s] = IF s = {} THEN 0 ELSE f[Chosen(s)] + G[s \ {Chosen(s)}]
    BY <2>1, <2>2 DEF Summed
  <2> HIDE DEF F, G
  <2>5. 0 \in E
    <3>1. \A s \in SUBSET T : Cardinality(s) = 0 => s = {}
      BY <2>3, FS_EmptySet
    <3> QED
      BY <2>4, <3>1
  <2>6. ASSUME NEW n \in Nat, n \in E PROVE n + 1 \in E
    <3> SUFFICES ASSUME NEW s \in SUBSET T, Cardinality(s) = n + 1 PROVE F[s] = G[s]
      OBVIOUS
    <3>1. s # {}
      BY FS_EmptySet
    <3>2. Cardinality(s \ {Chosen(s)}) = n /\ s \ {Chosen(s)} \in SUBSET T
      BY <2>3, <3>1, OneLess
    <3>3. F[s \ {Chosen(s)}] = G[s \ {Chosen(s)}]
      BY <2>6, <3>2
    <3> QED
      BY <2>4, <3>1, <3>3
  <2>7. Cardinality(T) \in E
    <3> HIDE DEF E
    <3> QED
      BY <2>3, <2>5, <2>6, Numbering
  <2>8. F[T] = G[T]
    BY <2>3, <2>7
  <2>9. SumFunctionOnSet(f, S) = F[S] /\ SumFunctionOnSet(f, T) = G[T]
    BY <2>1, SummingIs DEF F, G
  <2>10. F[S] = f[Chosen(S)] + F[T]
    BY <1>2, <2>2 DEF Summed
  <2> QED
    BY <2>8, <2>9, <2>10
<1> QED
  BY <1>1, <1>2

\* A sum of numbers is a number, and any element may be taken first.
LEMMA SumRest ==
  ASSUME NEW I, IsFiniteSet(I), NEW f \in [I -> Nat], NEW S \in SUBSET I
  PROVE  /\ SumFunctionOnSet(f, S) \in Nat
         /\ \A x \in S : SumFunctionOnSet(f, S) = f[x] + SumFunctionOnSet(f, S \ {x})
<1> DEFINE Sum(s) == SumFunctionOnSet(f, s)
           E == {n \in Nat : \A s \in SUBSET I : Cardinality(s) <= n =>
                  Sum(s) \in Nat /\ \A x \in s : Sum(s) = f[x] + Sum(s \ {x})}
<1>1. \A s \in SUBSET I : /\ IsFiniteSet(s) /\ Cardinality(s) \in Nat
                          /\ s # {} => Chosen(s) \in s
  BY FS_Subset, FS_CardinalityType DEF Chosen
<1>2. /\ Sum({}) = 0
      /\ \A s \in SUBSET I : s # {} => Sum(s) = f[Chosen(s)] + Sum(s \ {Chosen(s)})
  BY <1>1, SumChosen, FS_EmptySet
<1> HIDE DEF Sum
<1>3. 0 \in E
  <2>1. \A s \in SUBSET I : Cardinality(s) <= 0 => s = {}
    BY <1>1, FS_EmptySet
  <2>2. ASSUME NEW s \in SUBSET I, Cardinality(s) <= 0
        PROVE  Sum(s) \in Nat /\ \A x \in s : Sum(s) = f[x] + Sum(s \ {x})
    BY <1>2, <2>1, <2>2
  <2> QED
    BY <2>2
<1>4. ASSUME NEW n \in Nat, n \in E PROVE n + 1 \in E
  <2> SUFFICES ASSUME NEW s \in SUBSET I, Cardinality(s) <= n + 1
               PROVE  Sum(s) \in Nat /\ \A x \in s : Sum(s) = f[x] + Sum(s \ {x})
    OBVIOUS
  <2>1. CASE s = {}
    BY <1>2, <2>1
  <2>2. CASE s # {}
    <3>1. PICK c \in s : Sum(s) = f[c] + Sum(s \ {c})
      BY <1>1, <1>2, <2>2
    <3>2. \A x \in s : Cardinality(s \ {x}) <= n /\ s \ {x} \in SUBSET I
      BY <1>1, OneLess
    <3>3. \A x \in s : /\ Sum(s \ {x}) \in Nat /\ f[x] \in Nat
                       /\ \A y \in s \ {x} : Sum(s \ {x}) = f[y] + Sum((s \ {x}) \ {y})
      BY <1>4, <3>2
    <3>4. ASSUME NEW x \in s, x # c PROVE Sum(s) = f[x] + Sum(s \ {x})
      <4> DEFINE t == (s \ {x}) \ {c}
      <4>1. Sum(s \ {x}) = f[c] + Sum(t)
        BY <3>3, <3>4
      <4>2. Sum(s \ {c}) = f[x] + Sum(t)
        <5>1. (s \ {c}) \ {x} = t
          OBVIOUS
        <5>2. x \in s \ {c}
          BY <3>4
        <5> QED
          BY <3>3, <5>1, <5>2
      <4>3. Sum(t) \in Nat
        <5>1. Cardinality(t) <= Cardinality(s \ {x}) /\ t \in SUBSET I
          BY <1>1, FS_Subset
        <5>2. Cardinality(t) <= n
          BY <1>1, <3>2, <5>1
        <5> QED
          BY <1>4, <5>1, <5>2
      <4> QED
        BY <3>1, <3>3, <4>1, <4>2, <4>3
    <3>5. Sum(s) \in Nat
      BY <3>1, <3>3
    <3> QED
      BY <3>1, <3>4, <3>5
  <2> QED
    BY <2>1, <2>2
<1>5. Cardinality(S) \in E
  <2> HIDE DEF E
  <2> QED
    BY <1>1, <1>3, <1>4, Numbering
<1> QED
  BY <1>1, <1>5 DEF Sum

\* Sums grow by one element at a time.
LEMMA SumMore ==
  ASSUME NEW I, IsFiniteSet(I), NEW f \in [I -> Nat], NEW T \in SUBSET I
  PROVE  /\ SumFunctionOnSet(f, {}) = 0
         /\ SumFunctionOnSet(f, T) \in Nat
         /\ \A x \in I \ T :
              /\ SumFunctionOnSet(f, T \cup {x}) = f[x] + SumFunctionOnSet(f, T)
              /\ SumFunctionOnSet(f, T \cup {x}) \in Nat
<1>1. SumFunctionOnSet(f, {}) = 0
  BY SumChosen, FS_EmptySet
<1>2. SumFunctionOnSet(f, T) \in Nat
  BY SumRest
<1>3. ASSUME NEW x \in I \ T
      PROVE  /\ SumFunctionOnSet(f, T \cup {x}) = f[x] + SumFunctionOnSet(f, T)
             /\ SumFunctionOnSet(f, T \cup {x}) \in Nat
  <2>1. T \cup {x} \in SUBSET I /\ x \in T \cup {x} /\ (T \cup {x}) \ {x} = T
    OBVIOUS
  <2>2. /\ SumFunctionOnSet(f, T \cup {x}) \in Nat
        /\ \A y \in T \cup {x} : SumFunctionOnSet(f, T \cup {x}) =
                                  f[y] + SumFunctionOnSet(f, (T \cup {x}) \ {y})
    BY <2>1, SumRest
  <2> QED
    BY <2>1, <2>2
<1> QED
  BY <1>1, <1>2, <1>3

\* The sum of a sum of functions, and of a multiple.
LEMMA SumOfSums ==
  ASSUME NEW I, IsFiniteSet(I), NEW f \in [I -> Nat], NEW g \in [I -> Nat],
         NEW h \in [I -> Nat], \A x \in I : h[x] = f[x] + g[x]
  PROVE  SumFunctionOnSet(h, I) = SumFunctionOnSet(f, I) + SumFunctionOnSet(g, I)
<1> DEFINE F(T) == SumFunctionOnSet(f, T)
           G(T) == SumFunctionOnSet(g, T)
           H(T) == SumFunctionOnSet(h, T)
           P == {T \in SUBSET I : H(T) = F(T) + G(T)}
<1>1. ASSUME NEW T \in SUBSET I
      PROVE  /\ F({}) = 0 /\ G({}) = 0 /\ H({}) = 0
             /\ F(T) \in Nat /\ G(T) \in Nat
             /\ \A x \in I \ T : /\ F(T \cup {x}) = f[x] + F(T)
                                /\ G(T \cup {x}) = g[x] + G(T)
                                /\ H(T \cup {x}) = h[x] + H(T)
  BY SumMore
<1> HIDE DEF F, G, H
<1>2. {} \in P
  BY <1>1
<1>3. ASSUME NEW T \in SUBSET I, NEW x \in I, T \in P, x \notin T PROVE T \cup {x} \in P
  <2>1. f[x] \in Nat /\ g[x] \in Nat
    OBVIOUS
  <2> QED
    BY <1>1, <1>3, <2>1
<1>4. I \in P
  <2> HIDE DEF P
  <2> QED
    BY <1>2, <1>3, OneByOne
<1> QED
  BY <1>4 DEF F, G, H

\* The sum of a multiple.
LEMMA SumOfMultiples ==
  ASSUME NEW I, IsFiniteSet(I), NEW f \in [I -> Nat], NEW h \in [I -> Nat], NEW c \in Nat,
         \A x \in I : h[x] = c * f[x]
  PROVE  SumFunctionOnSet(h, I) = c * SumFunctionOnSet(f, I)
<1> DEFINE F(T) == SumFunctionOnSet(f, T)
           H(T) == SumFunctionOnSet(h, T)
           P == {T \in SUBSET I : H(T) = c * F(T)}
<1>1. ASSUME NEW T \in SUBSET I
      PROVE  /\ F({}) = 0 /\ H({}) = 0
             /\ F(T) \in Nat
             /\ \A x \in I \ T : /\ F(T \cup {x}) = f[x] + F(T)
                                /\ H(T \cup {x}) = h[x] + H(T)
  BY SumMore
<1> HIDE DEF F, H
<1>2. {} \in P
  BY <1>1
<1>3. ASSUME NEW T \in SUBSET I, NEW x \in I, T \in P, x \notin T PROVE T \cup {x} \in P
  <2>1. \A a \in Nat, b \in Nat : c * a + c * b = c * (a + b)
    OBVIOUS
  <2>2. c * f[x] + c * F(T) = c * (f[x] + F(T))
    BY <1>1, <2>1
  <2> QED
    BY <1>1, <1>3, <2>2
<1>4. I \in P
  <2> HIDE DEF P
  <2> QED
    BY <1>2, <1>3, OneByOne
<1> QED
  BY <1>4 DEF F, H

\* Sums are monotone.
LEMMA SumBelow ==
  ASSUME NEW I, IsFiniteSet(I), NEW f \in [I -> Nat], NEW g \in [I -> Nat],
         NEW S \in SUBSET I, \A x \in S : f[x] <= g[x]
  PROVE  SumFunctionOnSet(f, S) <= SumFunctionOnSet(g, S)
<1> DEFINE F(T) == SumFunctionOnSet(f, T)
           G(T) == SumFunctionOnSet(g, T)
           P == {T \in SUBSET S : F(T) <= G(T)}
<1>1. ASSUME NEW T \in SUBSET S
      PROVE  /\ F({}) = 0 /\ G({}) = 0
             /\ F(T) \in Nat /\ G(T) \in Nat
             /\ \A x \in S \ T : /\ F(T \cup {x}) = f[x] + F(T)
                                /\ G(T \cup {x}) = g[x] + G(T)
  BY SumMore
<1> HIDE DEF F, G
<1>2. {} \in P
  BY <1>1
<1>3. ASSUME NEW T \in SUBSET S, NEW x \in S, T \in P, x \notin T PROVE T \cup {x} \in P
  <2>1. f[x] \in Nat /\ g[x] \in Nat /\ f[x] <= g[x]
    OBVIOUS
  <2> QED
    BY <1>1, <1>3, <2>1
<1>4. S \in P
  <2> HIDE DEF P
  <2>1. IsFiniteSet(S)
    BY FS_Subset
  <2> QED
    BY <1>2, <1>3, <2>1, OneByOne
<1> QED
  BY <1>4 DEF F, G

\* Functions that agree have one sum.
LEMMA SumSame ==
  ASSUME NEW I, IsFiniteSet(I), NEW f \in [I -> Nat], NEW g \in [I -> Nat],
         NEW S \in SUBSET I, \A x \in S : f[x] = g[x]
  PROVE  SumFunctionOnSet(f, S) = SumFunctionOnSet(g, S)
<1>1. SumFunctionOnSet(f, S) \in Nat /\ SumFunctionOnSet(g, S) \in Nat
  BY SumMore
<1>2. \A x \in S : f[x] <= g[x] /\ g[x] <= f[x]
  OBVIOUS
<1>3. /\ SumFunctionOnSet(f, S) <= SumFunctionOnSet(g, S)
      /\ SumFunctionOnSet(g, S) <= SumFunctionOnSet(f, S)
  BY <1>2, SumBelow
<1> QED
  BY <1>1, <1>3

\* A function that is changed in one place.
LEMMA SumChanged ==
  ASSUME NEW I, IsFiniteSet(I), NEW f \in [I -> Nat], NEW g \in [I -> Nat], NEW k \in I,
         \A x \in I \ {k} : f[x] = g[x]
  PROVE  SumFunctionOnSet(g, I) + f[k] = SumFunctionOnSet(f, I) + g[k]
<1>1. SumFunctionOnSet(f, I \ {k}) = SumFunctionOnSet(g, I \ {k})
  BY SumSame
<1>2. /\ SumFunctionOnSet(f, I) = f[k] + SumFunctionOnSet(f, I \ {k})
      /\ SumFunctionOnSet(g, I) = g[k] + SumFunctionOnSet(g, I \ {k})
  BY SumRest
<1>3. SumFunctionOnSet(f, I \ {k}) \in Nat /\ f[k] \in Nat /\ g[k] \in Nat
  BY SumMore
<1> QED
  BY <1>1, <1>2, <1>3

\* Counting is summing.
LEMMA SumCounts ==
  ASSUME NEW I, IsFiniteSet(I), NEW S \in SUBSET I, NEW h \in [I -> Nat],
         \A x \in I : h[x] = IF x \in S THEN 1 ELSE 0
  PROVE  SumFunctionOnSet(h, I) = Cardinality(S)
<1> DEFINE H(T) == SumFunctionOnSet(h, T)
           C(T) == Cardinality(T \cap S)
           P == {T \in SUBSET I : H(T) = C(T)}
<1>1. ASSUME NEW T \in SUBSET I
      PROVE  /\ H({}) = 0 /\ C({}) = 0
             /\ H(T) \in Nat
             /\ \A x \in I \ T : H(T \cup {x}) = h[x] + H(T)
  <2>1. {} \cap S = {}
    OBVIOUS
  <2> QED
    BY <2>1, SumMore, FS_EmptySet
<1>2. ASSUME NEW T \in SUBSET I, NEW x \in I \ T
      PROVE  C(T \cup {x}) = h[x] + C(T) /\ C(T) \in Nat
  <2>1. IsFiniteSet(T \cap S) /\ C(T) \in Nat
    BY FS_Subset, FS_CardinalityType
  <2>2. CASE x \in S
    <3>1. (T \cup {x}) \cap S = (T \cap S) \cup {x} /\ x \notin T \cap S
      BY <2>2
    <3>2. Cardinality((T \cap S) \cup {x}) = C(T) + 1
      BY <2>1, <3>1, FS_AddElement
    <3>3. C(T \cup {x}) = C(T) + 1
      BY <3>1, <3>2
    <3>4. h[x] = 1
      BY <2>2
    <3> HIDE DEF C
    <3> QED
      BY <2>1, <3>3, <3>4
  <2>3. CASE x \notin S
    <3>1. (T \cup {x}) \cap S = T \cap S
      BY <2>3
    <3>2. C(T \cup {x}) = C(T)
      BY <3>1
    <3>3. h[x] = 0
      BY <2>3
    <3> HIDE DEF C
    <3> QED
      BY <2>1, <3>2, <3>3
  <2> QED
    BY <2>2, <2>3
<1> HIDE DEF H, C
<1>3. {} \in P
  BY <1>1
<1>4. ASSUME NEW T \in SUBSET I, NEW x \in I, T \in P, x \notin T PROVE T \cup {x} \in P
  BY <1>1, <1>2, <1>4
<1>5. I \in P
  <2> HIDE DEF P
  <2> QED
    BY <1>3, <1>4, OneByOne
<1>6. I \cap S = S
  OBVIOUS
<1> QED
  BY <1>5, <1>6 DEF H, C

----------------------------------------------------------------------------
\* PrimeBudget: the division of an answer.

\* Intervals from one, and from zero.
LEMMA Counted ==
  ASSUME NEW n \in Nat
  PROVE  /\ IsFiniteSet(1 .. n) /\ Cardinality(1 .. n) = n
         /\ IsFiniteSet(0 .. n - 1) /\ Cardinality(0 .. n - 1) = n
<1>1. /\ IsFiniteSet(1 .. n)
      /\ Cardinality(1 .. n) = IF 1 > n THEN 0 ELSE n - 1 + 1
  BY FS_Interval
<1>2. /\ n - 1 \in Int /\ IsFiniteSet(0 .. n - 1)
      /\ Cardinality(0 .. n - 1) = IF 0 > n - 1 THEN 0 ELSE n - 1 - 0 + 1
  BY FS_Interval
<1> QED
  BY <1>1, <1>2

\* What division with remainder is.
LEMMA Divided ==
  ASSUME NEW a \in Nat, NEW b \in Nat \ {0}
  PROVE  a \div b \in Nat /\ a % b \in Nat /\ a % b < b /\ b * (a \div b) + (a % b) = a
OBVIOUS

\* Sources are numbered.
LEMMA SourcesNumbered ==
  /\ Len(Floors) \in Nat /\ Sources = 1 .. Len(Floors)
  /\ IsFiniteSet(Sources) /\ Cardinality(Sources) = Len(Floors)
  /\ Floors \in [Sources -> Nat] /\ Recoveries \in [Sources -> Nat \ {0}]
<1>1. Len(Floors) \in Nat /\ Sources = 1 .. Len(Floors) /\ Floors \in [Sources -> Nat]
  BY PrimeTyped DEF Sources
<1>2. IsFiniteSet(1 .. Len(Floors)) /\ Cardinality(1 .. Len(Floors)) = Len(Floors)
  BY <1>1, Counted
<1> QED
  BY <1>1, <1>2, PrimeTyped

\* Of n ranked sources, as many have a rank below a number as it says.
LEMMA RankedApart ==
  ASSUME NEW rest \in [Sources -> Nat], NEW left \in 0 .. Len(Floors)
  PROVE  LET ahead(k) == {j \in Sources : rest[j] > rest[k] \/ (rest[j] = rest[k] /\ j < k)}
         IN Cardinality({k \in Sources : Cardinality(ahead(k)) < left}) = left
<1> DEFINE ahead(k) == {j \in Sources : rest[j] > rest[k] \/ (rest[j] = rest[k] /\ j < k)}
           N == Len(Floors)
           rank == [k \in Sources |-> Cardinality(ahead(k))]
           K == {k \in Sources : rank[k] < left}
<1>1. N \in Nat /\ Sources = 1 .. N /\ IsFiniteSet(Sources) /\ Cardinality(Sources) = N
  BY SourcesNumbered
<1>2. \A k \in Sources : IsFiniteSet(ahead(k)) /\ Cardinality(ahead(k)) \in Nat
  BY <1>1, FS_Subset, FS_CardinalityType
<1>3. ASSUME NEW j \in Sources, NEW k \in Sources, j \in ahead(k) PROVE rank[j] < rank[k]
  <2>1. ahead(j) \subseteq ahead(k) \ {j}
    BY <1>1, <1>3
  <2>2. Cardinality(ahead(j)) <= Cardinality(ahead(k) \ {j})
    BY <1>2, <2>1, FS_Subset, OneLess
  <2>3. /\ Cardinality(ahead(k)) = Cardinality(ahead(k) \ {j}) + 1
        /\ Cardinality(ahead(k) \ {j}) \in Nat
    BY <1>2, <1>3, OneLess
  <2> HIDE DEF ahead
  <2> QED
    BY <1>2, <2>2, <2>3
<1>4. ASSUME NEW k \in Sources PROVE rank[k] \in 0 .. N - 1
  <2>1. ahead(k) \subseteq Sources \ {k}
    BY <1>1
  <2>2. /\ IsFiniteSet(Sources \ {k}) /\ Cardinality(Sources \ {k}) \in Nat
        /\ Cardinality(Sources) = Cardinality(Sources \ {k}) + 1
    <3> HIDE DEF N
    <3> QED
      BY <1>1, OneLess
  <2>3. Cardinality(ahead(k)) <= Cardinality(Sources \ {k})
    BY <2>1, <2>2, FS_Subset
  <2>4. rank[k] = Cardinality(ahead(k)) /\ Cardinality(ahead(k)) \in Nat
    BY <1>2
  <2> HIDE DEF ahead, rank, N
  <2> QED
    BY <1>1, <2>2, <2>3, <2>4
<1>5. \A j, k \in Sources : j # k => j \in ahead(k) \/ k \in ahead(j)
  BY <1>1
<1>6. \A j, k \in Sources : rank[j] = rank[k] => j = k
  <2> HIDE DEF ahead
  <2>1. \A k \in Sources : rank[k] \in Nat
    BY <1>2
  <2> HIDE DEF rank
  <2> QED
    BY <1>3, <1>5, <2>1
<1> HIDE DEF ahead
<1>7. rank \in Injection(Sources, 0 .. N - 1)
  BY <1>4, <1>6 DEF Injection, IsInjective
<1>8. rank \in Surjection(Sources, 0 .. N - 1)
  <2>1. IsFiniteSet(0 .. N - 1) /\ Cardinality(0 .. N - 1) = N
    BY <1>1, Counted
  <2> QED
    BY <1>1, <1>7, <2>1, FS_Injection
<1>9. [k \in K |-> rank[k]] \in Bijection(K, 0 .. left - 1)
  <2>1. \A k \in K : rank[k] \in 0 .. left - 1
    BY <1>1, <1>4
  <2>2. ASSUME NEW r \in 0 .. left - 1 PROVE \E k \in K : rank[k] = r
    <3>1. r \in 0 .. N - 1
      BY <1>1
    <3>2. PICK k \in Sources : rank[k] = r
      BY <1>8, <3>1 DEF Surjection
    <3> QED
      BY <1>1, <3>2
  <2> HIDE DEF rank
  <2> QED
    BY <1>6, <2>1, <2>2 DEF Bijection, Injection, IsInjective, Surjection
<1>10. Cardinality(K) = Cardinality(0 .. left - 1)
  <2>1. IsFiniteSet(K)
    BY <1>1, FS_Subset
  <2> QED
    BY <1>9, <2>1, FS_Bijection DEF ExistsBijection
<1>11. Cardinality(0 .. left - 1) = left
  BY <1>1, Counted
<1>12. K = {k \in Sources : Cardinality(ahead(k)) < left}
  OBVIOUS
<1> QED
  BY <1>10, <1>11, <1>12 DEF ahead

\* Minima and targets are within the demands.
LEMMA MinimaFit ==
  ASSUME NEW f \in [Sources -> Nat]
  PROVE  /\ MinimumOf(f) \in [Sources -> Nat] /\ Targets(f) \in [Sources -> Nat]
         /\ \A k \in Sources : /\ MinimumOf(f)[k] <= f[k]
                               /\ MinimumOf(f)[k] + Targets(f)[k] <= f[k]
BY SourcesNumbered DEF MinimumOf, Targets, Lesser, Beyond

\* What targets are scaled to: themselves, or parts that use up what remains.
LEMMA ScaledFit ==
  ASSUME NEW t \in [Sources -> Nat], NEW remaining \in Nat
  PROVE  /\ Scaled(t, remaining) \in [Sources -> Nat]
         /\ SumFunction(t) <= remaining => Scaled(t, remaining) = t
         /\ SumFunction(Scaled(t, remaining)) <= remaining
<1> DEFINE total == SumFunction(t)
           base == [k \in Sources |-> (t[k] * remaining) \div total]
           rest == [k \in Sources |-> (t[k] * remaining) % total]
           ahead(k) == {j \in Sources : rest[j] > rest[k] \/ (rest[j] = rest[k] /\ j < k)}
           left == remaining - SumFunction(base)
           more == [k \in Sources |-> IF Cardinality(ahead(k)) < left THEN 1 ELSE 0]
           S == Scaled(t, remaining)
<1>1. SumFunction(t) = SumFunctionOnSet(t, Sources) /\ IsFiniteSet(Sources)
  BY SourcesNumbered DEF SumFunction
<1>2. total \in Nat
  BY <1>1, SumMore
<1>3. total <= remaining => S = t
  BY DEF Scaled
<1>4. ASSUME ~(total <= remaining) PROVE S \in [Sources -> Nat] /\ SumFunction(S) = remaining
  <2>1. S = [k \in Sources |-> base[k] + more[k]]
    BY <1>4 DEF Scaled
  <2>2. total \in Nat \ {0}
    BY <1>2, <1>4
  <2>3. ASSUME NEW a \in Nat
        PROVE  /\ a \div total \in Nat /\ a % total \in Nat /\ a % total <= total
               /\ total * (a \div total) + (a % total) = a
    <3> HIDE DEF total
    <3>1. /\ a \div total \in Nat /\ a % total \in Nat /\ a % total < total
          /\ total * (a \div total) + (a % total) = a
      BY <2>2, Divided
    <3> QED
      BY <2>2, <3>1
  <2>4. \A k \in Sources : t[k] * remaining \in Nat /\ t[k] * remaining = remaining * t[k]
    OBVIOUS
  <2>5. /\ base \in [Sources -> Nat] /\ rest \in [Sources -> Nat]
        /\ \A k \in Sources : rest[k] <= total /\ total * base[k] + rest[k] = remaining * t[k]
    BY <2>3, <2>4
  <2>6. /\ SumFunction(base) = SumFunctionOnSet(base, Sources)
        /\ SumFunction(base) \in Nat
    BY <1>1, <2>5, SumMore DEF SumFunction
  <2> HIDE DEF total, base, rest, S
  <2>7. total * SumFunction(base) + SumFunctionOnSet(rest, Sources) = remaining * total
    <3> DEFINE whole == [k \in Sources |-> remaining * t[k]]
               parts == [k \in Sources |-> total * base[k]]
    <3>1. whole \in [Sources -> Nat] /\ parts \in [Sources -> Nat]
      BY <2>2, <2>5
    <3>2. SumFunctionOnSet(whole, Sources) = remaining * SumFunctionOnSet(t, Sources)
      BY <1>1, <3>1, SumOfMultiples
    <3>3. SumFunctionOnSet(parts, Sources) = total * SumFunctionOnSet(base, Sources)
      BY <1>1, <2>2, <2>5, <3>1, SumOfMultiples
    <3>4. \A k \in Sources : whole[k] = parts[k] + rest[k]
      BY <2>5
    <3> HIDE DEF whole, parts
    <3>5. SumFunctionOnSet(whole, Sources) =
            SumFunctionOnSet(parts, Sources) + SumFunctionOnSet(rest, Sources)
      BY <1>1, <2>5, <3>1, <3>4, SumOfSums
    <3> QED
      BY <1>1, <2>6, <3>2, <3>3, <3>5 DEF total
  <2>8. /\ SumFunctionOnSet(rest, Sources) \in Nat
        /\ SumFunctionOnSet(rest, Sources) <= total * Len(Floors)
    <3> DEFINE ones == [k \in Sources |-> IF k \in Sources THEN 1 ELSE 0]
               most == [k \in Sources |-> total]
    <3>1. ones \in [Sources -> Nat] /\ most \in [Sources -> Nat]
      BY <2>2
    <3>2. SumFunctionOnSet(ones, Sources) = Len(Floors)
      <4>1. Sources \in SUBSET Sources /\ \A k \in Sources : ones[k] = IF k \in Sources THEN 1 ELSE 0
        OBVIOUS
      <4> HIDE DEF ones, most
      <4>2. SumFunctionOnSet(ones, Sources) = Cardinality(Sources)
        BY <1>1, <3>1, <4>1, SumCounts
      <4> QED
        BY <4>2, SourcesNumbered
    <3>3. \A k \in Sources : most[k] = total * ones[k]
      BY <2>2
    <3>4. \A k \in Sources : rest[k] <= most[k]
      BY <2>5
    <3> HIDE DEF ones, most
    <3>5. SumFunctionOnSet(most, Sources) = total * SumFunctionOnSet(ones, Sources)
      BY <1>1, <2>2, <3>1, <3>3, SumOfMultiples
    <3>6. SumFunctionOnSet(rest, Sources) <= SumFunctionOnSet(most, Sources)
      BY <1>1, <2>5, <3>1, <3>4, SumBelow
    <3> QED
      BY <1>1, <2>5, <3>2, <3>5, <3>6, SumMore
  <2>9. left \in 0 .. Len(Floors)
    <3>1. \A a, b, c, n, r \in Nat :
            a # 0 /\ a * b + r = c * a /\ r <= a * n => c - b \in 0 .. n
      OBVIOUS
    <3> QED
      BY <2>2, <2>6, <2>7, <2>8, <3>1, SourcesNumbered
  <2>10. Cardinality({k \in Sources : Cardinality(ahead(k)) < left}) = left
    BY <2>5, <2>9, RankedApart
  <2>11. more \in [Sources -> Nat]
    OBVIOUS
  <2>12. SumFunctionOnSet(more, Sources) = left
    <3> DEFINE T == {k \in Sources : Cardinality(ahead(k)) < left}
    <3>1. T \in SUBSET Sources /\ \A k \in Sources : more[k] = IF k \in T THEN 1 ELSE 0
      OBVIOUS
    <3> HIDE DEF more, T, left
    <3>2. SumFunctionOnSet(more, Sources) = Cardinality(T)
      BY <1>1, <2>11, <3>1, SumCounts
    <3> QED
      BY <2>10, <3>2 DEF T
  <2> HIDE DEF more
  <2>13. S \in [Sources -> Nat] /\ \A k \in Sources : S[k] = base[k] + more[k]
    BY <2>1, <2>5, <2>11
  <2>14. SumFunctionOnSet(S, Sources) =
           SumFunctionOnSet(base, Sources) + SumFunctionOnSet(more, Sources)
    BY <1>1, <2>5, <2>11, <2>13, SumOfSums
  <2>15. SumFunction(S) = SumFunctionOnSet(S, Sources)
    BY <2>13 DEF SumFunction
  <2> QED
    BY <2>6, <2>12, <2>13, <2>14, <2>15
<1> HIDE DEF S
<1> QED
  BY <1>2, <1>3, <1>4 DEF S

\* What is left goes to the first that want more until it is used up.
LEMMA TakenInOrder ==
  ASSUME NEW wants \in [Sources -> Nat], NEW capacity \in Nat,
         NEW taken \in [Sources -> Nat],
         \A k \in Sources :
           taken[k] = Lesser(wants[k], Beyond(capacity, SumFunctionOnSet(wants, 1 .. k - 1)))
  PROVE  SumFunctionOnSet(taken, Sources) = Lesser(capacity, SumFunctionOnSet(wants, Sources))
<1> DEFINE W(T) == SumFunctionOnSet(wants, T)
           X(T) == SumFunctionOnSet(taken, T)
           N == Len(Floors)
           E == {n \in Nat : n <= N => X(1 .. n) = Lesser(capacity, W(1 .. n))}
<1>0. IsFiniteSet(Sources)
  BY SourcesNumbered
<1>1. N \in Nat /\ Sources = 1 .. N
  BY SourcesNumbered
<1>2. ASSUME NEW T \in SUBSET Sources
      PROVE  /\ W({}) = 0 /\ X({}) = 0 /\ W(T) \in Nat /\ X(T) \in Nat
             /\ \A x \in Sources \ T : /\ W(T \cup {x}) = wants[x] + W(T)
                                      /\ X(T \cup {x}) = taken[x] + X(T)
  <2>1. /\ W({}) = 0 /\ W(T) \in Nat
        /\ \A x \in Sources \ T : W(T \cup {x}) = wants[x] + W(T)
    BY <1>0, SumMore
  <2>2. /\ X({}) = 0 /\ X(T) \in Nat
        /\ \A x \in Sources \ T : X(T \cup {x}) = taken[x] + X(T)
    BY <1>0, SumMore
  <2> HIDE DEF W, X
  <2> QED
    BY <2>1, <2>2
<1>3. \A k \in Sources : taken[k] = Lesser(wants[k], Beyond(capacity, W(1 .. k - 1)))
  OBVIOUS
<1> HIDE DEF W, X, N
<1>4. 0 \in E
  <2>1. 1 .. 0 = {} /\ {} \in SUBSET Sources
    OBVIOUS
  <2> QED
    BY <1>2, <2>1 DEF Lesser
<1>5. ASSUME NEW n \in Nat, n \in E PROVE n + 1 \in E
  <2> SUFFICES ASSUME n + 1 <= N PROVE X(1 .. n + 1) = Lesser(capacity, W(1 .. n + 1))
    OBVIOUS
  <2>1. /\ 1 .. n \in SUBSET Sources /\ n + 1 \in Sources \ (1 .. n)
        /\ 1 .. n + 1 = (1 .. n) \cup {n + 1} /\ (n + 1) - 1 = n /\ n <= N
    <3>1. 1 .. n + 1 = (1 .. n) \cup {n + 1}
      OBVIOUS
    <3>2. n + 1 \in Nat /\ n <= N /\ (n + 1) - 1 = n /\ n + 1 \in 1 .. N /\ n + 1 \notin 1 .. n
      BY <1>1
    <3>3. 1 .. n \subseteq 1 .. N
      BY <1>1, <3>2
    <3> QED
      BY <1>1, <3>1, <3>2, <3>3
  <2>2. /\ W(1 .. n + 1) = wants[n + 1] + W(1 .. n) /\ W(1 .. n) \in Nat
        /\ X(1 .. n + 1) = taken[n + 1] + X(1 .. n) /\ X(1 .. n) \in Nat
    BY <1>2, <2>1
  <2>3. X(1 .. n) = Lesser(capacity, W(1 .. n))
    BY <1>5, <2>1
  <2>4. taken[n + 1] = Lesser(wants[n + 1], Beyond(capacity, W(1 .. n)))
    BY <1>3, <2>1
  <2>5. wants[n + 1] \in Nat
    BY <2>1
  <2> QED
    BY <2>2, <2>3, <2>4, <2>5 DEF Lesser, Beyond
<1>6. N \in E
  <2> HIDE DEF E
  <2> QED
    BY <1>1, <1>4, <1>5, Numbering
<1> QED
  BY <1>1, <1>6 DEF W, X, N

\* "Integer shares conserve every available character."
LEMMA AllocationFits ==
  ASSUME NEW f \in [Sources -> Nat], NEW room \in Nat,
         SumFunction(MinimumOf(f)) <= room
  PROVE  LET floor == [k \in Sources |-> MinimumOf(f)[k] + Targets(f)[k]]
             shares == Allocated(f, room)
         IN /\ shares \in [Sources -> Nat]
            /\ SumFunction(shares) = Lesser(room, SumFunction(f))
            /\ \A k \in Sources : MinimumOf(f)[k] <= shares[k] /\ shares[k] <= f[k]
            /\ SumFunction(floor) <= room => \A k \in Sources : shares[k] >= floor[k]
<1> DEFINE minimum == MinimumOf(f)
           targets == Targets(f)
           remaining == room - SumFunction(minimum)
           scaled == Scaled(targets, remaining)
           given == [k \in Sources |-> Lesser(minimum[k] + scaled[k], f[k])]
           wants == [k \in Sources |-> f[k] - given[k]]
           capacity == room - SumFunction(given)
           taken == [k \in Sources |->
                       Lesser(wants[k], Beyond(capacity, SumFunctionOnSet(wants, 1 .. k - 1)))]
           floor == [k \in Sources |-> minimum[k] + targets[k]]
           shares == Allocated(f, room)
<1>1. IsFiniteSet(Sources) /\ \A g \in [Sources -> Nat] :
        SumFunction(g) = SumFunctionOnSet(g, Sources) /\ SumFunction(g) \in Nat
  BY SourcesNumbered, SumMore DEF SumFunction
<1>2. /\ minimum \in [Sources -> Nat] /\ targets \in [Sources -> Nat]
      /\ \A k \in Sources : minimum[k] <= f[k] /\ minimum[k] + targets[k] <= f[k]
  BY MinimaFit
<1>3. shares = [k \in Sources |-> given[k] + taken[k]]
  BY DEF Allocated
<1>4. floor \in [Sources -> Nat]
  BY <1>2
<1> HIDE DEF minimum, targets, shares
<1>5. remaining \in Nat /\ SumFunction(minimum) \in Nat
  BY <1>1, <1>2 DEF minimum
<1>6. /\ scaled \in [Sources -> Nat] /\ SumFunction(scaled) <= remaining
      /\ SumFunction(targets) <= remaining => scaled = targets
  BY <1>2, <1>5, ScaledFit
<1> HIDE DEF scaled
<1>7. /\ given \in [Sources -> Nat]
      /\ \A k \in Sources : /\ minimum[k] <= given[k] /\ given[k] <= f[k]
                            /\ given[k] <= minimum[k] + scaled[k]
  BY <1>2, <1>6 DEF Lesser
<1>8. SumFunction(given) <= room /\ capacity \in Nat
  <2> DEFINE both == [k \in Sources |-> minimum[k] + scaled[k]]
  <2>1. both \in [Sources -> Nat] /\ \A k \in Sources : both[k] = minimum[k] + scaled[k]
    BY <1>2, <1>6
  <2>2. \A k \in Sources : given[k] <= both[k]
    BY <1>7
  <2> HIDE DEF both, given
  <2>3. SumFunctionOnSet(given, Sources) <= SumFunctionOnSet(both, Sources)
    BY <1>1, <1>7, <2>1, <2>2, SumBelow
  <2>4. SumFunctionOnSet(both, Sources) =
          SumFunctionOnSet(minimum, Sources) + SumFunctionOnSet(scaled, Sources)
    BY <1>1, <1>2, <1>6, <2>1, SumOfSums
  <2> QED
    BY <1>1, <1>2, <1>5, <1>6, <1>7, <2>3, <2>4
<1> HIDE DEF given
<1>9. wants \in [Sources -> Nat] /\ \A k \in Sources : f[k] = given[k] + wants[k]
  BY <1>7
<1> HIDE DEF wants, capacity
<1>10. /\ taken \in [Sources -> Nat]
       /\ \A k \in Sources : taken[k] <= wants[k]
  <2>1. ASSUME NEW k \in Sources PROVE SumFunctionOnSet(wants, 1 .. k - 1) \in Nat
    <3>1. 1 .. k - 1 \in SUBSET Sources
      BY SourcesNumbered
    <3> QED
      BY <1>1, <1>9, <3>1, SumMore
  <2> QED
    BY <1>8, <1>9, <2>1 DEF Lesser, Beyond
<1>11. SumFunctionOnSet(taken, Sources) = Lesser(capacity, SumFunctionOnSet(wants, Sources))
  BY <1>8, <1>9, <1>10, TakenInOrder
<1> HIDE DEF taken
<1>12. /\ shares \in [Sources -> Nat]
       /\ \A k \in Sources : shares[k] = given[k] + taken[k]
  BY <1>3, <1>7, <1>10
<1>13. SumFunction(shares) = Lesser(room, SumFunction(f))
  <2>1. SumFunctionOnSet(shares, Sources) =
          SumFunctionOnSet(given, Sources) + SumFunctionOnSet(taken, Sources)
    BY <1>1, <1>7, <1>10, <1>12, SumOfSums
  <2>2. SumFunctionOnSet(f, Sources) =
          SumFunctionOnSet(given, Sources) + SumFunctionOnSet(wants, Sources)
    BY <1>1, <1>7, <1>9, SumOfSums
  <2>3. /\ SumFunctionOnSet(given, Sources) \in Nat /\ SumFunctionOnSet(wants, Sources) \in Nat
        /\ capacity = room - SumFunctionOnSet(given, Sources)
        /\ SumFunction(shares) = SumFunctionOnSet(shares, Sources)
        /\ SumFunction(f) = SumFunctionOnSet(f, Sources)
    BY <1>1, <1>7, <1>9, <1>12 DEF capacity
  <2> QED
    BY <1>11, <2>1, <2>2, <2>3 DEF Lesser
<1>14. \A k \in Sources : minimum[k] <= shares[k] /\ shares[k] <= f[k]
  BY <1>2, <1>7, <1>9, <1>10, <1>12
<1>15. ASSUME SumFunction(floor) <= room, NEW k \in Sources PROVE shares[k] >= floor[k]
  <2>1. floor[k] = minimum[k] + targets[k] /\ \A j \in Sources : floor[j] = minimum[j] + targets[j]
    OBVIOUS
  <2> HIDE DEF floor
  <2>2. SumFunctionOnSet(floor, Sources) =
          SumFunctionOnSet(minimum, Sources) + SumFunctionOnSet(targets, Sources)
    BY <1>1, <1>2, <1>4, <2>1, SumOfSums
  <2>3. SumFunction(targets) <= remaining
    BY <1>1, <1>2, <1>4, <1>5, <1>15, <2>2
  <2>4. given[k] = minimum[k] + targets[k]
    BY <1>2, <1>6, <2>3 DEF given, Lesser
  <2> QED
    BY <1>2, <1>7, <1>10, <1>12, <2>1, <2>4
<1> QED
  BY <1>12, <1>13, <1>14, <1>15 DEF minimum, targets, shares, floor

\* The sources that have been rendered, and what all of them may take.
Done == {k \in Sources : rendering.pass = "second" \/ k < rendering.source}
Took == [k \in Sources |-> IF k \in Done THEN final[k] ELSE share[k]]

\* A source that has been rendered once keeps what it has taken of its share, and
\* all of itself if that is enough.
RenderedOnce ==
  \A k \in Sources :
    (IF rendering.pass = "second" THEN k >= rendering.source ELSE k < rendering.source) =>
    /\ final[k] = fragment[k] /\ fragment[k] <= share[k]
    /\ share[k] >= full[k] => fragment[k] = full[k]

PrimeInv ==
  /\ PrimeTypeOK
  /\ rendering.pass = "none" => fragment = AllZero /\ final = AllZero /\ pool = 0
  /\ rendering.pass # "none" => SharesConserve /\ FragmentsFit /\ RenderedOnce

\* What the types come to.
LEMMA PrimeFacts ==
  ASSUME PrimeTypeOK
  PROVE  /\ IsFiniteSet(Sources) /\ Len(Floors) \in Nat /\ Sources = 1 .. Len(Floors)
         /\ full \in [Sources -> Nat] /\ available \in Nat /\ pool \in Nat
         /\ share \in [Sources -> Nat] /\ fragment \in [Sources -> Nat]
         /\ final \in [Sources -> Nat]
         /\ rendering.source \in Nat /\ Took \in [Sources -> Nat]
         /\ SumFunction(Took) = SumFunctionOnSet(Took, Sources)
         /\ MinimumOf(full) \in [Sources -> Nat]
<1>1. /\ IsFiniteSet(Sources) /\ Len(Floors) \in Nat /\ Sources = 1 .. Len(Floors)
      /\ Demands \subseteq Nat /\ Budgets \subseteq Nat
  BY SourcesNumbered, PrimeTyped
<1>2. /\ full \in [Sources -> Nat] /\ available \in Nat /\ pool \in Nat
      /\ share \in [Sources -> Nat] /\ fragment \in [Sources -> Nat]
      /\ final \in [Sources -> Nat] /\ rendering.source \in Nat
  <2>1. /\ full \in [Sources -> Demands \cup {0}] /\ Demands \cup {0} \subseteq Nat
        /\ available \in Budgets /\ pool \in Nat
        /\ share \in [Sources -> Nat] /\ fragment \in [Sources -> Nat]
        /\ final \in [Sources -> Nat] /\ rendering.source \in 1 .. Len(Floors) + 1
    BY <1>1 DEF PrimeTypeOK
  <2>2. full \in [Sources -> Nat]
    BY <2>1
  <2> QED
    BY <1>1, <2>1, <2>2
<1>3. Took \in [Sources -> Nat]
  BY <1>2 DEF Took
<1>4. SumFunction(Took) = SumFunctionOnSet(Took, Sources)
  BY <1>3 DEF SumFunction
<1> QED
  BY <1>1, <1>2, <1>3, <1>4, MinimaFit

\* The initial state.
LEMMA PrimeInitInv == PrimeInit => PrimeInv
<1> SUFFICES ASSUME PrimeInit PROVE PrimeInv
  OBVIOUS
<1>1. available \in Budgets
  BY PrimeTyped DEF PrimeInit
<1>2. AllZero \in [Sources -> Nat] /\ AllZero \in [Sources -> Demands \cup {0}]
  BY DEF AllZero
<1>3. 1 \in 1 .. Len(Floors) + 1
  BY SourcesNumbered
<1> QED
  BY <1>1, <1>2, <1>3 DEF PrimeInit, PrimeInv, PrimeTypeOK

\* An answer is divided.
LEMMA AllocateInv ==
  ASSUME PrimeInv, NEW f \in [Sources -> Demands], NEW room \in Budgets, Allocate(f, room)
  PROVE  PrimeInv'
<1> DEFINE shares == Allocated(f, room)
           floor == [k \in Sources |-> MinimumOf(f)[k] + Targets(f)[k]]
<1>1. /\ rendering.pass = "none" /\ SumFunction(MinimumOf(f)) <= room
      /\ full' = f /\ available' = room /\ share' = shares
      /\ rendering' = [pass |-> "first", source |-> 1]
      /\ fragment' = AllZero /\ final' = AllZero /\ pool' = 0
  BY DEF Allocate, PrimeInv
<1>2. f \in [Sources -> Nat] /\ room \in Nat /\ f \in [Sources -> Demands \cup {0}]
  BY PrimeTyped
<1>3. /\ shares \in [Sources -> Nat]
      /\ SumFunction(shares) = Lesser(room, SumFunction(f))
      /\ \A k \in Sources : MinimumOf(f)[k] <= shares[k] /\ shares[k] <= f[k]
      /\ SumFunction(floor) <= room => \A k \in Sources : shares[k] >= floor[k]
  BY <1>1, <1>2, AllocationFits
<1>4. MinimumOf(f) \in [Sources -> Nat] /\ AllZero \in [Sources -> Nat]
  BY <1>2, MinimaFit DEF AllZero
<1> HIDE DEF shares
<1>5. PrimeTypeOK'
  <2>1. 1 \in 1 .. Len(Floors) + 1
    BY SourcesNumbered
  <2> QED
    BY <1>1, <1>2, <1>3, <1>4, <2>1 DEF PrimeTypeOK
<1>6. SharesConserve'
  <2>1. \A k \in Sources : shares[k] \in MinimumOf(f)[k] .. f[k]
    BY <1>2, <1>3, <1>4
  <2> QED
    BY <1>1, <1>3, <2>1 DEF SharesConserve
<1>7. \A k \in Sources : ~(k < 1)
  BY SourcesNumbered
<1>8. Took' = shares /\ Done' = {}
  BY <1>1, <1>3, <1>7 DEF Took, Done
<1>9. SumFunction(shares) \in Nat
  BY <1>3, SourcesNumbered, SumMore DEF SumFunction
<1>10. FragmentsFit'
  BY <1>1, <1>8, <1>9 DEF FragmentsFit, Took, Done
<1>11. RenderedOnce'
  BY <1>1, <1>7 DEF RenderedOnce
<1> QED
  BY <1>1, <1>5, <1>6, <1>10, <1>11 DEF PrimeInv

\* What a pass over the sources turns to.
LEMMA Turns ==
  ASSUME PrimeInv, NEW pass \in {"first", "second"}, Turn(pass)
  PROVE  /\ rendering.source \in Sources /\ rendering.pass = pass
         /\ rendering' \in [pass : {"none", "first", "second"}, source : 1 .. Len(Floors) + 1]
         /\ rendering'.pass # "none" /\ Done' = Done \cup {rendering.source}
         /\ \A k \in Sources :
              (IF rendering'.pass = "second" THEN k >= rendering'.source
                                             ELSE k < rendering'.source)
              => \/ IF pass = "second" THEN k >= rendering.source ELSE k < rendering.source
                 \/ pass = "first" /\ k = rendering.source
         /\ pass = "second" => rendering'.pass = "second" /\ rendering'.source > rendering.source
         /\ rendering.source \in Done <=> pass = "second"
<1>1. /\ Len(Floors) \in Nat /\ Sources = 1 .. Len(Floors)
      /\ rendering \in [pass : {"none", "first", "second"}, source : 1 .. Len(Floors) + 1]
      /\ rendering.pass = pass /\ rendering.source \in Sources
  BY PrimeFacts DEF PrimeInv, PrimeTypeOK, Turn
<1>2. CASE pass = "first" /\ rendering.source = Len(Floors)
  <2>1. rendering' = [pass |-> "second", source |-> 1]
    BY <1>2 DEF Turn
  <2> QED
    BY <1>1, <1>2, <2>1 DEF Done
<1>3. CASE ~(pass = "first" /\ rendering.source = Len(Floors))
  <2>1. rendering' = [rendering EXCEPT !.source = @ + 1]
    BY <1>3 DEF Turn
  <2>2. rendering'.pass = pass /\ rendering'.source = rendering.source + 1
    BY <1>1, <2>1
  <2>3. rendering.source + 1 \in 1 .. Len(Floors) + 1
    BY <1>1
  <2> QED
    BY <1>1, <1>3, <2>1, <2>2, <2>3 DEF Done
<1> QED
  BY <1>2, <1>3

\* Every source in its turn leaves the rest of its share.
LEMMA RenderFirstInv ==
  ASSUME PrimeInv, RenderFirst
  PROVE  PrimeInv'
<1> DEFINE k == rendering.source
<1>1. /\ Turn("first") /\ rendering.pass = "first" /\ k \in Sources
      /\ UNCHANGED <<full, available, share>>
      /\ SharesConserve /\ FragmentsFit /\ RenderedOnce /\ PrimeTypeOK
  BY DEF RenderFirst, Turn, PrimeInv
<1>2. PICK length \in Renders(k, share[k]) :
        /\ fragment' = [fragment EXCEPT ![k] = length]
        /\ final' = [final EXCEPT ![k] = length]
        /\ pool' = pool + share[k] - length
  BY DEF RenderFirst, Baseline
<1>3. /\ IsFiniteSet(Sources) /\ full \in [Sources -> Nat] /\ pool \in Nat
      /\ share \in [Sources -> Nat] /\ fragment \in [Sources -> Nat]
      /\ final \in [Sources -> Nat] /\ Took \in [Sources -> Nat]
      /\ SumFunction(Took) = SumFunctionOnSet(Took, Sources)
      /\ MinimumOf(full) \in [Sources -> Nat]
  BY <1>1, PrimeFacts
<1>4. \A j \in Sources : MinimumOf(full)[j] <= share[j] /\ share[j] <= full[j]
  BY <1>1, <1>3 DEF SharesConserve
<1>5. /\ length \in Nat /\ MinimumOf(full)[k] <= length /\ length <= share[k]
      /\ share[k] >= full[k] => length = full[k]
  BY <1>1, <1>2, <1>3, <1>4, MinimaFit DEF Renders
<1>6. /\ rendering' \in [pass : {"none", "first", "second"}, source : 1 .. Len(Floors) + 1]
      /\ rendering'.pass # "none" /\ Done' = Done \cup {k} /\ k \notin Done
      /\ \A j \in Sources :
           (IF rendering'.pass = "second" THEN j >= rendering'.source ELSE j < rendering'.source)
           => j < k \/ j = k
  BY <1>1, Turns
<1>7. /\ fragment' \in [Sources -> Nat] /\ final' \in [Sources -> Nat]
      /\ fragment'[k] = length /\ final'[k] = length
      /\ \A j \in Sources \ {k} : fragment'[j] = fragment[j] /\ final'[j] = final[j]
      /\ pool' \in Nat
  BY <1>1, <1>2, <1>3, <1>5
<1>8. PrimeTypeOK'
  BY <1>1, <1>3, <1>6, <1>7 DEF PrimeTypeOK
<1>9. SharesConserve'
  BY <1>1 DEF SharesConserve
<1>10. FragmentsFit'
  <2>1. /\ Took' \in [Sources -> Nat] /\ Took'[k] = length /\ Took[k] = share[k]
        /\ \A j \in Sources \ {k} : Took[j] = Took'[j]
    BY <1>1, <1>3, <1>6, <1>7 DEF Took
  <2>2. SumFunctionOnSet(Took', Sources) + Took[k] = SumFunctionOnSet(Took, Sources) + Took'[k]
    BY <1>1, <1>3, <2>1, SumChanged
  <2>3. /\ SumFunction(Took') = SumFunctionOnSet(Took', Sources)
        /\ SumFunctionOnSet(Took', Sources) \in Nat /\ SumFunctionOnSet(Took, Sources) \in Nat
    BY <1>3, <2>1, SumMore DEF SumFunction
  <2>4. SumFunction(Took) + pool = SumFunction(share)
    BY <1>1 DEF FragmentsFit, Took, Done
  <2>5. SumFunction(Took') + pool' = SumFunction(share)
    BY <1>1, <1>2, <1>3, <1>5, <2>1, <2>2, <2>3, <2>4
  <2>6. SumFunction(Took)' + pool' = SumFunction(share)'
    BY <1>1, <2>5
  <2>7. ASSUME NEW j \in Done'
        PROVE  /\ fragment'[j] \in MinimumOf(full)[j] .. final'[j]
               /\ final'[j] <= full[j]
               /\ final'[j] # fragment'[j] => final'[j] > share[j]
    <3>1. CASE j = k
      BY <1>1, <1>3, <1>4, <1>5, <1>7, <3>1
    <3>2. CASE j # k
      <4>1. j \in Done /\ j \in Sources
        BY <1>6, <2>7, <3>2 DEF Done
      <4> QED
        BY <1>1, <1>7, <3>2, <4>1 DEF FragmentsFit, Done
    <3> QED
      BY <3>1, <3>2
  <2> QED
    BY <1>1, <2>6, <2>7 DEF FragmentsFit, Took, Done
<1>11. RenderedOnce'
  BY <1>1, <1>5, <1>6, <1>7 DEF RenderedOnce
<1> QED
  BY <1>6, <1>8, <1>9, <1>10, <1>11 DEF PrimeInv

\* What a shortened source is granted, it or another has left.
LEMMA RenderAgainInv ==
  ASSUME PrimeInv, RenderAgain
  PROVE  PrimeInv'
<1> DEFINE k == rendering.source
           offered == final[k] + Grant(k)
<1>1. /\ Turn("second") /\ rendering.pass = "second" /\ k \in Sources
      /\ UNCHANGED <<full, available, share>> /\ Grant(k) > 0
      /\ SharesConserve /\ FragmentsFit /\ RenderedOnce /\ PrimeTypeOK
  BY DEF RenderAgain, Turn, PrimeInv
<1>2. PICK length \in Renders(k, offered) :
        /\ fragment' = [fragment EXCEPT ![k] = length]
        /\ final' = [final EXCEPT ![k] = offered]
        /\ pool' = pool - Grant(k)
  BY DEF RenderAgain
<1>3. /\ IsFiniteSet(Sources) /\ full \in [Sources -> Nat] /\ pool \in Nat
      /\ share \in [Sources -> Nat] /\ fragment \in [Sources -> Nat]
      /\ final \in [Sources -> Nat] /\ Took \in [Sources -> Nat]
      /\ SumFunction(Took) = SumFunctionOnSet(Took, Sources)
      /\ MinimumOf(full) \in [Sources -> Nat]
  BY <1>1, PrimeFacts
<1>4. /\ final[k] = fragment[k] /\ fragment[k] <= share[k]
      /\ MinimumOf(full)[k] <= fragment[k] /\ final[k] <= full[k] /\ k \in Done
  <2>1. k >= k /\ k \in Done
    BY <1>1, SourcesNumbered DEF Done
  <2>2. final[k] = fragment[k] /\ fragment[k] <= share[k]
    BY <1>1, <2>1 DEF RenderedOnce
  <2>3. fragment[k] \in MinimumOf(full)[k] .. final[k] /\ final[k] <= full[k]
    BY <1>1, <2>1 DEF FragmentsFit, Done
  <2> QED
    BY <1>1, <1>3, <2>1, <2>2, <2>3
<1>5. /\ Grant(k) \in Nat /\ Grant(k) <= pool
      /\ offered \in Nat /\ offered <= full[k] /\ final[k] <= offered
      /\ offered = full[k] \/ offered > share[k]
  <2>1. fragment[k] \in Nat /\ share[k] \in Nat /\ full[k] \in Nat /\ pool \in Nat
    BY <1>1, <1>3
  <2>2. /\ Grant(k) = Lesser(pool, full[k] - fragment[k])
        /\ fragment[k] # full[k] /\ ~(pool <= share[k] - fragment[k])
    BY <1>1 DEF Grant
  <2>3. CASE pool < full[k] - fragment[k]
    BY <1>4, <2>1, <2>2, <2>3 DEF Lesser
  <2>4. CASE ~(pool < full[k] - fragment[k])
    BY <1>4, <2>1, <2>2, <2>4 DEF Lesser
  <2> QED
    BY <2>3, <2>4
<1>6. /\ length \in Nat /\ MinimumOf(full)[k] <= length /\ length <= offered
      /\ offered = full[k] => length = offered
  BY <1>1, <1>2, <1>3, <1>4, <1>5 DEF Renders
<1> HIDE DEF offered
<1>7. /\ rendering' \in [pass : {"none", "first", "second"}, source : 1 .. Len(Floors) + 1]
      /\ rendering'.pass = "second" /\ Done' = Done
      /\ rendering'.source > k
  BY <1>1, <1>4, Turns
<1>8. /\ fragment' \in [Sources -> Nat] /\ final' \in [Sources -> Nat]
      /\ fragment'[k] = length /\ final'[k] = offered
      /\ \A j \in Sources \ {k} : fragment'[j] = fragment[j] /\ final'[j] = final[j]
      /\ pool' \in Nat
  BY <1>1, <1>2, <1>3, <1>5, <1>6
<1>9. PrimeTypeOK'
  BY <1>1, <1>3, <1>7, <1>8 DEF PrimeTypeOK
<1>10. SharesConserve'
  BY <1>1 DEF SharesConserve
<1>11. FragmentsFit'
  <2>1. /\ Took' \in [Sources -> Nat] /\ Took'[k] = offered /\ Took[k] = final[k]
        /\ \A j \in Sources \ {k} : Took[j] = Took'[j]
    BY <1>1, <1>3, <1>4, <1>7, <1>8 DEF Took
  <2>2. SumFunctionOnSet(Took', Sources) + Took[k] = SumFunctionOnSet(Took, Sources) + Took'[k]
    BY <1>1, <1>3, <2>1, SumChanged
  <2>3. /\ SumFunction(Took') = SumFunctionOnSet(Took', Sources)
        /\ SumFunctionOnSet(Took', Sources) \in Nat /\ SumFunctionOnSet(Took, Sources) \in Nat
    BY <1>3, <2>1, SumMore DEF SumFunction
  <2>4. SumFunction(Took) + pool = SumFunction(share)
    BY <1>1 DEF FragmentsFit, Took, Done
  <2>5. SumFunction(Took') + pool' = SumFunction(share)
    BY <1>1, <1>2, <1>3, <1>5, <2>1, <2>2, <2>3, <2>4 DEF offered
  <2>6. SumFunction(Took)' + pool' = SumFunction(share)'
    BY <1>1, <2>5
  <2>7. ASSUME NEW j \in Done'
        PROVE  /\ fragment'[j] \in MinimumOf(full)[j] .. final'[j]
               /\ final'[j] <= full[j]
               /\ final'[j] # fragment'[j] => final'[j] > share[j]
    <3>1. CASE j = k
      BY <1>1, <1>3, <1>5, <1>6, <1>8, <3>1
    <3>2. CASE j # k
      <4>1. j \in Done /\ j \in Sources
        BY <1>7, <2>7, <3>2 DEF Done
      <4> QED
        BY <1>1, <1>8, <3>2, <4>1 DEF FragmentsFit, Done
    <3> QED
      BY <3>1, <3>2
  <2> QED
    BY <1>1, <2>6, <2>7 DEF FragmentsFit, Took, Done
<1>12. RenderedOnce'
  <2>1. ASSUME NEW j \in Sources, j >= rendering'.source
        PROVE  j # k /\ j >= k
    <3>1. Sources = 1 .. Len(Floors) /\ Len(Floors) \in Nat
      BY SourcesNumbered
    <3> QED
      BY <1>1, <1>7, <2>1, <3>1
  <2> QED
    BY <1>1, <1>7, <1>8, <2>1 DEF RenderedOnce
<1> QED
  BY <1>7, <1>9, <1>10, <1>11, <1>12 DEF PrimeInv

\* A source is passed over.
LEMMA PassEndsInv ==
  ASSUME PrimeInv, Pass
  PROVE  PrimeInv'
<1>1. /\ Turn("second") /\ rendering.pass = "second"
      /\ UNCHANGED <<full, available, share, fragment, final, pool>>
      /\ SharesConserve /\ FragmentsFit /\ RenderedOnce /\ PrimeTypeOK
  BY DEF Pass, Turn, PrimeInv
<1>2. /\ rendering' \in [pass : {"none", "first", "second"}, source : 1 .. Len(Floors) + 1]
      /\ rendering'.pass = "second" /\ Done' = Done
      /\ \A k \in Sources : k >= rendering'.source => k >= rendering.source
  BY <1>1, Turns
<1>3. PrimeTypeOK' /\ SharesConserve'
  BY <1>1, <1>2 DEF PrimeTypeOK, SharesConserve
<1>4. Took' = Took
  BY <1>1, <1>2 DEF Took
<1>5. FragmentsFit'
  BY <1>1, <1>2, <1>4 DEF FragmentsFit, Took, Done
<1>6. RenderedOnce'
  BY <1>1, <1>2 DEF RenderedOnce
<1> QED
  BY <1>2, <1>3, <1>5, <1>6 DEF PrimeInv

\* The inductive invariant of the division of an answer.
THEOREM PrimeInvariant == PrimeSpec => []PrimeInv
<1>1. PrimeInit => PrimeInv
  BY PrimeInitInv
<1>2. PrimeInv /\ [PrimeNext]_primeVars => PrimeInv'
  <2> SUFFICES ASSUME PrimeInv, [PrimeNext]_primeVars PROVE PrimeInv'
    OBVIOUS
  <2>1. CASE \E f \in [Sources -> Demands], room \in Budgets : Allocate(f, room)
    BY <2>1, AllocateInv
  <2>2. CASE RenderFirst
    BY <2>2, RenderFirstInv
  <2>3. CASE RenderAgain
    BY <2>3, RenderAgainInv
  <2>4. CASE Pass
    BY <2>4, PassEndsInv
  <2>5. CASE UNCHANGED primeVars
    BY <2>5 DEF primeVars, PrimeInv, PrimeTypeOK, SharesConserve, FragmentsFit, RenderedOnce,
                MinimumOf, Targets
  <2> QED
    BY <2>1, <2>2, <2>3, <2>4, <2>5 DEF PrimeNext
<1> QED
  BY <1>1, <1>2, PTL DEF PrimeSpec

(* The lengths of the sources, their shares and what is left keep their types, *)
(* for any sources, floors and demands (prime-budget.ts).                      *)
THEOREM PrimeTypes == PrimeSpec => []PrimeTypeOK
<1>1. PrimeInv => PrimeTypeOK
  BY DEF PrimeInv
<1> QED
  BY <1>1, PrimeInvariant, PTL

(* The characters of an answer are shared out to the last one and never       *)
(* exceeded, for any sources, floors, demands and lengths they render at       *)
(* (allocatePrimeBudget, renderPrimeAllocation).                               *)
THEOREM AnswersFit == PrimeSpec => []PrimeFits
<1>1. PrimeInv => PrimeFits
  BY DEF PrimeInv, PrimeFits
<1> QED
  BY <1>1, PrimeInvariant, PTL

----------------------------------------------------------------------------
\* ReadPages: the parts of a text.

\* Numbers have one digit to ten, and longer ones no fewer than shorter.
LEMMA DigitsCount ==
  /\ \A n \in Nat : Digits(n) \in 1 .. 10
  /\ \A m, n \in Nat : m <= n => Digits(m) <= Digits(n)
<1> DEFINE Below(n) == {k \in 1 .. 9 : Powers[k] <= n}
<1>1. IsFiniteSet(1 .. 9) /\ Cardinality(1 .. 9) = 9
  BY Counted
<1>2. ASSUME NEW n \in Nat
      PROVE  IsFiniteSet(Below(n)) /\ Cardinality(Below(n)) \in Nat /\ Cardinality(Below(n)) <= 9
  <2>1. Below(n) \in SUBSET (1 .. 9)
    OBVIOUS
  <2> HIDE DEF Below
  <2> QED
    BY <1>1, <2>1, FS_Subset, FS_CardinalityType
<1>3. ASSUME NEW m \in Nat, NEW n \in Nat, m <= n
      PROVE  Cardinality(Below(m)) <= Cardinality(Below(n))
  <2>1. ASSUME NEW k \in 1 .. 9 PROVE Powers[k] \in Nat
    BY SMT DEF Powers
  <2>2. Below(m) \in SUBSET Below(n)
    BY <1>3, <2>1
  <2> HIDE DEF Below
  <2> QED
    BY <1>2, <2>2, FS_Subset
<1>4. \A n : Digits(n) = 1 + Cardinality(Below(n))
  BY DEF Digits
<1> HIDE DEF Below
<1>5. ASSUME NEW n \in Nat PROVE Digits(n) \in 1 .. 10
  <2> DEFINE c == Cardinality(Below(n))
  <2>1. c \in Nat /\ c <= 9
    BY <1>2
  <2>2. Digits(n) = 1 + c
    BY <1>4
  <2> HIDE DEF c
  <2> QED
    BY <2>1, <2>2
<1>6. ASSUME NEW m \in Nat, NEW n \in Nat, m <= n PROVE Digits(m) <= Digits(n)
  <2>1. Cardinality(Below(m)) \in Nat /\ Cardinality(Below(n)) \in Nat
    BY <1>2
  <2> QED
    BY <1>3, <1>4, <1>6, <2>1
<1> QED
  BY <1>5, <1>6

\* There is room on a page however many parts there are, and less if there are more.
LEMMA RoomIsLeft ==
  ASSUME NEW h \in Nat
  PROVE  /\ Prefix(h) \in Nat
         /\ \A t \in Nat : /\ Room(h, t) \in Nat \ {0}
                           /\ Room(h, t) = 5421 - Prefix(h) - (62 + 3 * Digits(t))
         /\ \A t, u \in Nat : t <= u => Room(h, u) <= Room(h, t)
         /\ \A t, u \in Nat : Digits(t) = Digits(u) => Room(h, u) = Room(h, t)
<1>1. PageBudget = 5488 /\ PageBudget \div 4 = 1372 /\ Frame = 67
  BY DEF PageBudget, ReadCharBudget, NudgeReserve, Frame
<1>2. Prefix(h) \in Nat /\ Prefix(h) <= 1000
  BY <1>1 DEF Prefix, Least
<1>3. \A t \in Nat : Room(h, t) = 5488 - Prefix(h) - 67 - (62 + 3 * Digits(t))
  BY <1>1 DEF Room
<1> QED
  BY <1>2, <1>3, DigitsCount

\* The number of parts is the one number that is just enough.
LEMMA PartsEnough ==
  ASSUME NEW n \in Nat, NEW size \in Nat \ {0}
  PROVE  /\ Parts(n, size) \in Nat \ {0} /\ n <= Parts(n, size) * size
         /\ n = 0 => Parts(n, size) = 1
         /\ n # 0 => (Parts(n, size) - 1) * size < n
<1>1. CASE n = 0
  BY <1>1 DEF Parts
<1>2. CASE n # 0
  <2> DEFINE a == n + size - 1
             q == a \div size
             r == a % size
  <2>1. a \in Nat
    BY <1>2
  <2>2. q \in Nat /\ r \in Nat /\ r < size /\ size * q + r = a
    BY <2>1, Divided
  <2>3. Parts(n, size) = q
    BY <1>2 DEF Parts
  <2> HIDE DEF q, r
  <2>4. size * q + r = n + size - 1 /\ n > 0
    BY <1>2, <2>2
  <2>5. q # 0
    BY <2>2, <2>4
  <2>6. q * size = size * q /\ (q - 1) * size = size * q - size
    BY <2>2
  <2>7. size * q \in Nat
    BY <2>2
  <2> QED
    BY <1>2, <2>2, <2>3, <2>4, <2>5, <2>6, <2>7
<1> QED
  BY <1>1, <1>2

\* Less room makes no fewer parts.
LEMMA PartsGrow ==
  ASSUME NEW n \in Nat, NEW s \in Nat \ {0}, NEW t \in Nat \ {0}, s <= t
  PROVE  Parts(n, t) <= Parts(n, s)
<1>1. /\ Parts(n, s) \in Nat \ {0} /\ Parts(n, t) \in Nat \ {0}
      /\ n <= Parts(n, s) * s
      /\ n = 0 => Parts(n, s) = 1 /\ Parts(n, t) = 1
      /\ n # 0 => (Parts(n, t) - 1) * t < n
  BY PartsEnough
<1>2. ASSUME n # 0, Parts(n, s) < Parts(n, t) PROVE FALSE
  <2> DEFINE p == Parts(n, s)
             q == Parts(n, t) - 1
  <2>1. p \in Nat /\ q \in Nat /\ p <= q /\ n <= p * s /\ q * t < n
    BY <1>1, <1>2
  <2> HIDE DEF p, q
  <2>2. p * s <= q * s /\ q * s <= q * t /\ p * s \in Nat /\ q * s \in Nat /\ q * t \in Nat
    BY <2>1
  <2> QED
    BY <2>1, <2>2
<1> QED
  BY <1>1, <1>2

\* The tries: there is such a function, tries up to any number at a time.
LEMMA TriesAre ==
  ASSUME NEW h, NEW n
  PROVE  Tries(h, n) = [try \in 0 .. 32 |->
                       IF try = 0 THEN 1 ELSE Parts(n, Room(h, Tries(h, n)[try - 1]))]
<1> DEFINE Good(m, g) == g = [try \in 0 .. m |-> IF try = 0 THEN 1 ELSE Parts(n, Room(h, g[try - 1]))]
           E == {m \in Nat : \E g : Good(m, g)}
<1>1. 0 \in E
  <2>1. 0 .. 0 = {0}
    OBVIOUS
  <2>2. Good(0, [try \in {0} |-> 1])
    BY <2>1
  <2> QED
    BY <2>2
<1>2. ASSUME NEW m \in Nat, m \in E PROVE m + 1 \in E
  <2>1. PICK g : Good(m, g)
    BY <1>2
  <2> DEFINE k == [try \in 0 .. m + 1 |-> IF try = 0 THEN 1 ELSE Parts(n, Room(h, g[try - 1]))]
  <2>2. ASSUME NEW try \in 0 .. m PROVE try \in 0 .. m + 1 /\ k[try] = g[try]
    <3>1. g[try] = IF try = 0 THEN 1 ELSE Parts(n, Room(h, g[try - 1]))
      BY <2>1
    <3> QED
      BY <3>1
  <2>3. ASSUME NEW try \in 0 .. m + 1
        PROVE  k[try] = IF try = 0 THEN 1 ELSE Parts(n, Room(h, k[try - 1]))
    <3>1. try # 0 => try - 1 \in 0 .. m
      OBVIOUS
    <3> QED
      BY <2>2, <3>1
  <2>4. k = [try \in 0 .. m + 1 |-> k[try]]
    OBVIOUS
  <2> HIDE DEF k
  <2>5. Good(m + 1, k)
    BY <2>3, <2>4
  <2> QED
    BY <2>5
<1>3. 32 \in E
  <2> HIDE DEF E
  <2> QED
    BY <1>1, <1>2, Numbering
<1>4. PICK g : Good(32, g)
  BY <1>3
<1> QED
  BY <1>4 DEF Tries

\* The tries grow until one is confirmed, and each that is not has more digits than
\* the last: one is confirmed.
LEMMA TotalConfirms ==
  ASSUME NEW h \in Nat, NEW n \in Nat
  PROVE  Total(h, n) \in Nat \ {0} /\ Parts(n, Room(h, Total(h, n))) = Total(h, n)
<1> DEFINE T == Tries(h, n)
           F == {i \in Nat : i <= 31 => Digits(T[i]) >= i + 1 \/ T[i + 1] = T[i]}
<1>0. /\ \A m \in Nat : Room(h, m) \in Nat \ {0}
      /\ \A m, k \in Nat : m <= k => Room(h, k) <= Room(h, m)
      /\ \A m, k \in Nat : Digits(m) = Digits(k) => Room(h, k) = Room(h, m)
  BY RoomIsLeft
<1>1. T[0] = 1 /\ \A i \in 0 .. 31 : T[i + 1] = Parts(n, Room(h, T[i]))
  <2>1. ASSUME NEW i \in 0 .. 31 PROVE T[i + 1] = Parts(n, Room(h, T[i]))
    <3>1. i + 1 \in 0 .. 32 /\ i + 1 # 0 /\ (i + 1) - 1 = i
      OBVIOUS
    <3> QED
      BY <3>1, TriesAre
  <2>2. T[0] = 1
    BY TriesAre
  <2> QED
    BY <2>1, <2>2
<1> HIDE DEF T
<1>2. ASSUME NEW i \in 0 .. 31, T[i] \in Nat
      PROVE  T[i + 1] \in Nat \ {0}
  <2>1. T[i + 1] = Parts(n, Room(h, T[i]))
    BY <1>1
  <2>2. Room(h, T[i]) \in Nat \ {0}
    BY <1>0, <1>2
  <2> QED
    BY <2>1, <2>2, PartsEnough
<1>3. ASSUME NEW i \in 0 .. 30, T[i] \in Nat, T[i + 1] \in Nat, T[i] <= T[i + 1]
      PROVE  T[i + 1] <= T[i + 2]
  <2>1. T[i + 1] = Parts(n, Room(h, T[i])) /\ T[i + 2] = Parts(n, Room(h, T[i + 1]))
    <3>1. i \in 0 .. 31 /\ i + 1 \in 0 .. 31 /\ (i + 1) + 1 = i + 2
      OBVIOUS
    <3> QED
      BY <1>1, <3>1
  <2>2. /\ Room(h, T[i]) \in Nat \ {0} /\ Room(h, T[i + 1]) \in Nat \ {0}
        /\ Room(h, T[i + 1]) <= Room(h, T[i])
    BY <1>0, <1>3
  <2> QED
    BY <2>1, <2>2, PartsGrow
<1> DEFINE G == {i \in Nat : i <= 31 => T[i] \in Nat /\ T[i + 1] \in Nat \ {0} /\ T[i] <= T[i + 1]}
<1>4. Nat \subseteq G
  <2>1. 0 \in G
    <3>1. T[0 + 1] \in Nat \ {0}
      BY <1>1, <1>2
    <3> QED
      BY <1>1, <3>1
  <2>2. ASSUME NEW i \in Nat, i \in G PROVE i + 1 \in G
    <3> SUFFICES ASSUME i + 1 <= 31
                 PROVE  /\ T[i + 1] \in Nat /\ T[(i + 1) + 1] \in Nat \ {0}
                        /\ T[i + 1] <= T[(i + 1) + 1]
      OBVIOUS
    <3>1. i \in 0 .. 30 /\ i + 1 \in 0 .. 31 /\ (i + 1) + 1 = i + 2
      OBVIOUS
    <3>2. T[i] \in Nat /\ T[i + 1] \in Nat \ {0} /\ T[i] <= T[i + 1]
      BY <2>2, <3>1
    <3> QED
      BY <1>2, <1>3, <3>1, <3>2
  <2> HIDE DEF G
  <2> QED
    BY <2>1, <2>2, Numbering
<1>5. Nat \subseteq F
  <2>1. 0 \in F
    BY <1>1, DigitsCount
  <2>2. ASSUME NEW i \in Nat, i \in F PROVE i + 1 \in F
    <3> SUFFICES ASSUME i + 1 <= 31
                 PROVE  Digits(T[i + 1]) >= (i + 1) + 1 \/ T[(i + 1) + 1] = T[i + 1]
      OBVIOUS
    <3>1. /\ i \in 0 .. 31 /\ i + 1 \in 0 .. 31
          /\ T[i + 1] = Parts(n, Room(h, T[i])) /\ T[(i + 1) + 1] = Parts(n, Room(h, T[i + 1]))
      BY <1>1
    <3>2. T[i] \in Nat /\ T[i + 1] \in Nat /\ T[i] <= T[i + 1]
      BY <1>4, <3>1
    <3>3. /\ Digits(T[i]) \in Nat /\ Digits(T[i + 1]) \in Nat
          /\ Digits(T[i]) <= Digits(T[i + 1])
      BY <3>2, DigitsCount
    <3>4. CASE T[i + 1] = T[i]
      BY <3>1, <3>4
    <3>5. CASE Digits(T[i]) = Digits(T[i + 1])
      BY <3>1, <3>2, <3>5, <1>0
    <3>6. CASE T[i + 1] # T[i] /\ Digits(T[i]) # Digits(T[i + 1])
      BY <2>2, <3>1, <3>3, <3>6
    <3> QED
      BY <3>4, <3>5, <3>6
  <2> HIDE DEF F
  <2> QED
    BY <2>1, <2>2, Numbering
<1>6. T[31] \in Nat /\ T[32] \in Nat \ {0}
  <2>1. 31 \in G
    BY <1>4
  <2> QED
    BY <2>1
<1>7. T[32] = T[31]
  <2>1. 31 \in F
    BY <1>5
  <2>2. Digits(T[31]) <= 10 /\ Digits(T[31]) \in Nat
    BY <1>6, DigitsCount
  <2> QED
    BY <2>1, <2>2
<1>8. Total(h, n) = T[32]
  BY <1>7 DEF Total, T
<1>9. T[32] = Parts(n, Room(h, T[31]))
  BY <1>1
<1> QED
  BY <1>6, <1>7, <1>8, <1>9

\* The stretch of the w-th of p parts of r characters: just enough parts for n of them.
LEMMA StretchOf ==
  ASSUME NEW n \in Nat, NEW p \in Nat \ {0}, NEW r \in Nat \ {0}, NEW w \in Nat \ {0}, w <= p
  PROVE  Parts(n, r) = p =>
         /\ (w - 1) * r \in Nat /\ (w - 1) * r <= n
         /\ (w - 1) * r + r \in Nat
         /\ Least((w - 1) * r + r, n) = (IF w < p THEN w * r ELSE n)
<1> DEFINE from == (w - 1) * r
           to == Least(from + r, n)
<1>1. /\ n <= Parts(n, r) * r
      /\ n = 0 => Parts(n, r) = 1
      /\ n # 0 => (Parts(n, r) - 1) * r < n
  BY PartsEnough
<1> SUFFICES ASSUME Parts(n, r) = p
             PROVE  /\ from \in Nat /\ from <= n /\ from + r \in Nat
                    /\ to = (IF w < p THEN w * r ELSE n)
  OBVIOUS
<1>2. n <= p * r /\ (n = 0 => p = 1) /\ (n # 0 => (p - 1) * r < n)
  BY <1>1
<1>3. /\ from \in Nat /\ from + r = w * r /\ w * r \in Nat
      /\ from <= (p - 1) * r
      /\ w < p => w * r <= (p - 1) * r
      /\ (p - 1) * r \in Nat /\ (p - 1) * r + r = p * r
  <2> DEFINE q == p - 1
             v == w - 1
  <2>1. q \in Nat /\ v \in Nat /\ v <= q /\ w = v + 1 /\ p = q + 1
    OBVIOUS
  <2>2. w < p => w <= q
    OBVIOUS
  <2> HIDE DEF q, v
  <2>3. v * r \in Nat /\ q * r \in Nat /\ v * r <= q * r
    BY <2>1
  <2>4. (v + 1) * r = v * r + r /\ (q + 1) * r = q * r + r
    BY <2>1
  <2>5. w <= q => w * r <= q * r
    BY <2>1
  <2>6. from = v * r
    BY DEF v
  <2>7. p - 1 = q
    BY DEF q
  <2> QED
    BY <2>1, <2>2, <2>3, <2>4, <2>5, <2>6, <2>7
<1> HIDE DEF from
<1>4. from <= n /\ (w < p => w * r <= n) /\ (w = p => n <= w * r)
  <2>1. n = 0 => from <= 0 /\ w = p
    BY <1>2, <1>3
  <2> QED
    BY <1>2, <1>3, <2>1
<1>5. to = (IF w < p THEN w * r ELSE n)
  BY <1>3, <1>4 DEF Least
<1> HIDE DEF to
<1>6. from \in Nat /\ from <= n /\ from + r \in Nat
  BY <1>3, <1>4
<1> QED
  BY <1>5, <1>6

\* A page with no more text than there is room for is not too long.
LEMMA TextFits ==
  ASSUME NEW h \in Nat, NEW p \in Nat \ {0}, NEW w \in Nat \ {0}, w <= p, NEW chars \in Nat
  PROVE  /\ PageText(h, w, p, chars) \in Nat
         /\ chars <= Room(h, p) => PageText(h, w, p, chars) <= PageBudget
<1>1. w + 1 \in Nat /\ (w < p => w + 1 <= p)
  OBVIOUS
<1>2. /\ Digits(w) \in Nat /\ Digits(p) \in Nat /\ Digits(w + 1) \in Nat
      /\ Digits(w) <= Digits(p)
      /\ w < p => Digits(w + 1) <= Digits(p)
  BY <1>1, DigitsCount
<1>3. Pointer(w, p) \in Nat /\ Pointer(w, p) <= 62 + 3 * Digits(p)
  BY <1>2 DEF Pointer
<1>4. PageBudget = 5488 /\ Frame = 67
  BY DEF PageBudget, ReadCharBudget, NudgeReserve, Frame
<1>5. Prefix(h) \in Nat
  BY RoomIsLeft
<1> QED
  BY <1>2, <1>3, <1>4, <1>5 DEF PageText, Room

\* A nudge below a page that is not too long fits the limit of an answer.
LEMMA NudgeFits ==
  ASSUME NEW text \in Nat, text <= PageBudget, NEW nudge \in Nat
  PROVE  Delivered(text, nudge) <= ReadCharBudget
BY DEF Delivered, Least, PageBudget, ReadCharBudget, NudgeReserve

----------------------------------------------------------------------------
\* What the i-th page of the text shows.
PageAt(i) ==
  [from |-> (i - 1) * Room(header, Total(header, body)),
   to |-> IF i < Total(header, body) THEN i * Room(header, Total(header, body)) ELSE body,
   nudged |-> TRUE]

\* A reader whose header never moved has the pages up to the one it wants.
ReadSoFar ==
  /\ readingAt # "failed"
  /\ readingAt = "reading" => wanted \in {1} \cup 1 .. Total(header, body) /\ Len(got) = wanted - 1
  /\ readingAt = "done" => Len(got) = Total(header, body)
  /\ \A i \in 1 .. Len(got) : got[i] = PageAt(i)

PagesInv ==
  /\ PagesTypeOK
  /\ readingAt = "idle" => got = <<>>
  /\ readingAt = "reading" => wanted # 0
  /\ moves = 0 => ReadSoFar

\* The constants and the types as numbers.
LEMMA PagesFacts ==
  ASSUME PagesInv
  PROVE  /\ body \in Nat /\ header \in Nat /\ wanted \in Nat
         /\ Total(header, body) \in Nat \ {0} /\ Room(header, Total(header, body)) \in Nat \ {0}
<1>1. body \in Nat /\ header \in Nat /\ wanted \in Nat
  BY PageLengths DEF PagesInv, PagesTypeOK
<1>2. Total(header, body) \in Nat \ {0}
  BY <1>1, TotalConfirms
<1>3. Room(header, Total(header, body)) \in Nat \ {0}
  BY <1>1, <1>2, RoomIsLeft
<1> QED
  BY <1>1, <1>2, <1>3

\* Nothing is read at first.
LEMMA PagesInitInv == PagesInit => PagesInv
<1> SUFFICES ASSUME PagesInit PROVE PagesInv
  OBVIOUS
<1>1. PagesTypeOK
  <2>1. got \in Seq([from : Nat, to : Nat, nudged : BOOLEAN])
    BY DEF PagesInit
  <2>2. 0 \in 0 .. MaxMoves /\ moves = 0
    BY PageLengths DEF PagesInit
  <2>3. body \in Bodies /\ header \in Headers
    BY PageLengths DEF PagesInit
  <2>4. wanted \in Nat /\ readingAt = "idle"
    BY DEF PagesInit
  <2> QED
    BY <2>1, <2>2, <2>3, <2>4 DEF PagesTypeOK
<1>2. got = <<>> /\ readingAt = "idle" /\ Len(got) = 0
  BY DEF PagesInit
<1> QED
  BY <1>1, <1>2 DEF PagesInv, ReadSoFar

\* A reading starts at its first page.
LEMMA OpenReviewInv ==
  ASSUME PagesInv, NEW n \in Bodies, NEW h \in Headers, OpenReview(n, h)
  PROVE  PagesInv'
<1>1. /\ body' = n /\ header' = h /\ wanted' = 1 /\ moves' = moves
      /\ got' = <<>> /\ got = <<>> /\ readingAt' = "reading"
  BY DEF OpenReview, PagesInv
<1>2. PagesTypeOK'
  BY <1>1 DEF PagesInv, PagesTypeOK
<1>3. Len(got') = 0
  BY <1>1
<1> QED
  BY <1>1, <1>2, <1>3 DEF PagesInv, ReadSoFar

\* A page is the stretch that follows, or the reader's header has moved.
LEMMA FetchPageInv ==
  ASSUME PagesInv, NEW nudge \in Nudges, FetchPage(nudge)
  PROVE  PagesInv'
<1> DEFINE total == Total(header, body)
           from == (wanted - 1) * Room(header, total)
           to == Least(from + Room(header, total), body)
           text == PageText(header, wanted, total, to - from)
<1>1. /\ readingAt = "reading" /\ wanted # 0
      /\ body' = body /\ header' = header /\ moves' = moves
      /\ IF total = 0 \/ wanted > total \/ text > PageBudget
         THEN readingAt' = "failed" /\ UNCHANGED <<wanted, got>>
         ELSE /\ got' = Append(got, [from |-> from, to |-> to,
                                     nudged |-> Delivered(text, nudge) <= ReadCharBudget])
              /\ wanted' = (IF wanted < total THEN wanted + 1 ELSE 0)
              /\ readingAt' = (IF wanted < total THEN "reading" ELSE "done")
  BY DEF FetchPage, PagesInv
<1>2. body \in Nat /\ header \in Nat /\ wanted \in Nat /\ total \in Nat \ {0}
  BY PagesFacts
<1>3. Total(header, body)' = total /\ Room(header, Total(header, body))' = Room(header, total)
  BY <1>1 
<1>4. CASE wanted > total
  <2>1. moves # 0
    BY <1>1, <1>2, <1>4 DEF PagesInv, ReadSoFar
  <2> QED
    BY <1>1, <1>4, <2>1 DEF PagesInv, PagesTypeOK
<1>5. CASE wanted <= total
  <2> DEFINE room == Room(header, total)
  <2>1. room \in Nat \ {0} /\ wanted \in Nat \ {0} /\ Parts(body, room) = total
    BY <1>1, <1>2, PagesFacts, TotalConfirms
  <2>2. /\ from \in Nat /\ to \in Nat /\ text \in Nat /\ text <= PageBudget
        /\ to = (IF wanted < total THEN wanted * room ELSE body)
    <3>1. /\ (wanted - 1) * room \in Nat /\ (wanted - 1) * room <= body
          /\ (wanted - 1) * room + room \in Nat
          /\ Least((wanted - 1) * room + room, body)
               = (IF wanted < total THEN wanted * room ELSE body)
      <4> HIDE DEF room, total
      <4> QED
        BY <1>2, <1>5, <2>1, StretchOf
    <3>2. from = (wanted - 1) * room /\ to = Least(from + room, body)
      OBVIOUS
    <3>3. text = PageText(header, wanted, total, to - from)
      OBVIOUS
    <3>4. \A chars \in Nat : /\ PageText(header, wanted, total, chars) \in Nat
                             /\ chars <= room => PageText(header, wanted, total, chars) <= PageBudget
      <4> HIDE DEF total
      <4> QED
        BY <1>2, <1>5, <2>1, TextFits
    <3> HIDE DEF room, total, from, to, text
    <3>5. /\ from \in Nat /\ from <= body /\ from + room \in Nat
          /\ to = (IF wanted < total THEN wanted * room ELSE body)
      BY <3>1, <3>2
    <3>6. to \in Nat /\ to - from \in Nat /\ to - from <= room
      BY <1>2, <2>1, <3>2, <3>5 DEF Least
    <3> QED
      BY <3>3, <3>4, <3>5, <3>6
  <2>3. Delivered(text, nudge) <= ReadCharBudget
    BY <2>2, NudgeFits, PageLengths
  <2> DEFINE page == [from |-> from, to |-> to, nudged |-> TRUE]
  <2> HIDE DEF from, to, text, total
  <2>4. PageBudget = 5488
    BY DEF PageBudget, ReadCharBudget, NudgeReserve
  <2>5. /\ got' = Append(got, page)
        /\ wanted' = (IF wanted < total THEN wanted + 1 ELSE 0)
        /\ readingAt' = (IF wanted < total THEN "reading" ELSE "done")
    <3>1. ~(total = 0 \/ wanted > total \/ text > PageBudget)
      BY <1>2, <1>5, <2>2, <2>4
    <3>2. (Delivered(text, nudge) <= ReadCharBudget) = TRUE
      BY <2>3
    <3> QED
      BY <1>1, <3>1, <3>2 DEF page
  <2>6. page \in [from : Nat, to : Nat, nudged : BOOLEAN]
    BY <2>2
  <2>7. got \in Seq([from : Nat, to : Nat, nudged : BOOLEAN])
    BY DEF PagesInv, PagesTypeOK
  <2> HIDE DEF page
  <2>8. /\ got' \in Seq([from : Nat, to : Nat, nudged : BOOLEAN])
        /\ Len(got) \in Nat /\ Len(got') = Len(got) + 1
        /\ \A i \in 1 .. Len(got) : got'[i] = got[i]
        /\ got'[Len(got) + 1] = page
    BY <2>5, <2>6, <2>7
  <2>9. PagesTypeOK'
    BY <1>1, <1>2, <2>5, <2>8 DEF PagesInv, PagesTypeOK
  <2>10. readingAt' # "idle" /\ (readingAt' = "reading" => wanted' # 0)
    BY <1>2, <2>5
  <2>11. ASSUME moves' = 0 PROVE ReadSoFar'
    <3>1. /\ Len(got) = wanted - 1 /\ Len(got') = wanted
          /\ \A i \in 1 .. Len(got) : got[i] = PageAt(i)
      BY <1>1, <1>2, <2>8, <2>11 DEF PagesInv, ReadSoFar
    <3>2. \A i : PageAt(i)' = PageAt(i)
      BY <1>1, <1>3 DEF PageAt, total
    <3>3. page = PageAt(wanted)
      BY <2>2 DEF page, PageAt, room, from, total
    <3>4. ASSUME NEW i \in 1 .. Len(got') PROVE got'[i] = PageAt(i)'
      <4>1. CASE i \in 1 .. Len(got)
        BY <2>8, <3>1, <3>2, <4>1
      <4>2. CASE i = Len(got) + 1
        BY <1>2, <2>8, <3>1, <3>2, <3>3, <4>2
      <4> QED
        BY <2>8, <4>1, <4>2
    <3>5. readingAt' = "reading" => wanted' \in 1 .. Total(header, body)' /\ Len(got') = wanted' - 1
      BY <1>2, <1>3, <2>5, <3>1
    <3>6. readingAt' = "done" => Len(got') = Total(header, body)'
      BY <1>2, <1>3, <1>5, <2>5, <3>1
    <3>7. readingAt' # "failed"
      BY <2>5
    <3> QED
      BY <3>4, <3>5, <3>6, <3>7 DEF ReadSoFar
  <2> QED
    BY <2>9, <2>10, <2>11 DEF PagesInv
<1> QED
  BY <1>2, <1>4, <1>5

\* Once the header has moved nothing more is said of the pages.
LEMMA HeaderMovesInv ==
  ASSUME PagesInv, NEW h \in Headers, HeaderMoves(h)
  PROVE  PagesInv'
<1>1. /\ header' = h /\ moves' = moves + 1 /\ moves < MaxMoves
      /\ UNCHANGED <<body, wanted, got, readingAt>>
  BY DEF HeaderMoves
<1>2. moves \in Nat /\ moves' \in 0 .. MaxMoves /\ moves' # 0
  BY <1>1, PageLengths DEF PagesInv, PagesTypeOK
<1> QED
  BY <1>1, <1>2 DEF PagesInv, PagesTypeOK

\* The invariant of the reader.
LEMMA PagesInvariant == PagesSpec => []PagesInv
<1>1. ASSUME PagesInv, [PagesNext]_pageVars PROVE PagesInv'
  <2>1. ASSUME NEW n \in Bodies, NEW h \in Headers, OpenReview(n, h) PROVE PagesInv'
    BY <1>1, <2>1, OpenReviewInv
  <2>2. ASSUME NEW nudge \in Nudges, FetchPage(nudge) PROVE PagesInv'
    BY <1>1, <2>2, FetchPageInv
  <2>3. ASSUME NEW h \in Headers, HeaderMoves(h) PROVE PagesInv'
    BY <1>1, <2>3, HeaderMovesInv
  <2>4. CASE UNCHANGED pageVars
    <3>1. /\ body' = body /\ header' = header /\ moves' = moves
          /\ wanted' = wanted /\ got' = got /\ readingAt' = readingAt
      BY <2>4 DEF pageVars
    <3>2. Total(header, body)' = Total(header, body) /\ \A i : PageAt(i)' = PageAt(i)
      BY <3>1 DEF PageAt
    <3> QED
      BY <1>1, <3>1, <3>2 DEF PagesInv, PagesTypeOK, ReadSoFar
  <2> QED
    BY <1>1, <2>1, <2>2, <2>3, <2>4 DEF PagesNext
<1> QED
  BY <1>1, PagesInitInv, PTL DEF PagesSpec

(* A reader of a long text has its variables of their types, whatever the     *)
(* lengths are.                                                                *)
THEOREM PagesTypes == PagesSpec => []PagesTypeOK
<1>1. PagesInv => PagesTypeOK
  BY DEF PagesInv
<1> QED
  BY <1>1, PagesInvariant, PTL

(* However long a text is: while the header of its pages keeps its length,    *)
(* every page and the nudge below it are delivered, and the pages together     *)
(* are the text (budgetPage, finalizeToolResult).                               *)
THEOREM PagesAreWhole == PagesSpec => []PagesReconstruct
<1>1. ASSUME PagesInv PROVE PagesReconstruct
  <2> SUFFICES ASSUME moves = 0
               PROVE  /\ readingAt # "failed"
                      /\ \A i \in DOMAIN got : got[i].nudged
                      /\ readingAt = "done" => Whole
    BY DEF PagesReconstruct
  <2>1. /\ ReadSoFar
        /\ got \in Seq([from : Nat, to : Nat, nudged : BOOLEAN])
    BY <1>1 DEF PagesInv, PagesTypeOK
  <2>2. DOMAIN got = 1 .. Len(got) /\ Len(got) \in Nat
    BY <2>1
  <2>3. \A i \in 1 .. Len(got) :
          /\ got[i].from = (i - 1) * Room(header, Total(header, body))
          /\ got[i].to = (IF i < Total(header, body) THEN i * Room(header, Total(header, body)) ELSE body)
          /\ got[i].nudged
    <3>1. ASSUME NEW i \in 1 .. Len(got) PROVE got[i] = PageAt(i)
      BY <2>1 DEF ReadSoFar
    <3>2. ASSUME NEW i
          PROVE  /\ PageAt(i).from = (i - 1) * Room(header, Total(header, body))
                 /\ PageAt(i).to = (IF i < Total(header, body)
                                    THEN i * Room(header, Total(header, body)) ELSE body)
                 /\ PageAt(i).nudged
      BY DEF PageAt
    <3> QED
      BY <3>1, <3>2
  <2> DEFINE t == Total(header, body)
             r == Room(header, t)
  <2>4. t \in Nat \ {0} /\ r \in Nat \ {0}
    BY <1>1, PagesFacts
  <2>5. ASSUME readingAt = "done" PROVE Whole
    <3>1. Len(got) = t
      BY <2>1, <2>5 DEF ReadSoFar
    <3> HIDE DEF t, r
    <3>2. \A i \in 1 .. t : /\ got[i].from = (i - 1) * r
                            /\ got[i].to = (IF i < t THEN i * r ELSE body)
      BY <2>3, <3>1 DEF t, r
    <3>3. got[1].from = 0
      <4>1. 1 \in 1 .. t /\ 1 - 1 = 0 /\ 0 * r = 0
        BY <2>4
      <4> QED
        BY <3>2, <4>1
    <3>4. ASSUME NEW i \in 1 .. Len(got) - 1 PROVE got[i + 1].from = got[i].to
      <4>1. i \in 1 .. t /\ i + 1 \in 1 .. t /\ i < t /\ (i + 1) - 1 = i
        BY <2>4, <3>1
      <4> QED
        BY <3>2, <4>1
    <3>5. got[Len(got)].to = body
      <4>1. t \in 1 .. t /\ ~(t < t)
        BY <2>4
      <4> QED
        BY <3>1, <3>2, <4>1
    <3> QED
      BY <3>3, <3>4, <3>5 DEF Whole
  <2> QED
    BY <2>1, <2>2, <2>3, <2>5 DEF ReadSoFar
<1> QED
  BY <1>1, PagesInvariant, PTL
-----------------------------------------------------------------------------
(***************************************************************************)
(* A step of the host is a step of one component, which leaves the variables  *)
(* of each other as they are.                                                 *)
(***************************************************************************)
LEMMA HostSteps ==
  ASSUME [Next]_<<graphVars, semanticVars, dashVars, primeVars, pageVars>>
  PROVE  /\ [GraphNext]_graphVars /\ [SemanticNext]_semanticVars
         /\ [DashNext]_dashVars /\ [PrimeNext]_primeVars /\ [PagesNext]_pageVars
<1>1. CASE UNCHANGED <<graphVars, semanticVars, dashVars, primeVars, pageVars>>
  BY <1>1
<1>2. CASE Next
  BY <1>2 DEF Next
<1>3. QED
  BY <1>1, <1>2

(***************************************************************************)
(* A behaviour of the host is a behaviour of each of its components (the       *)
(* specification the run checks, MCHost): what is proved of the watcher, the    *)
(* index, the dashboard, the budget and the pages holds of it.                 *)
(***************************************************************************)
THEOREM HostRunsItsComponents ==
  Spec => GraphSpec /\ SemanticSpec /\ DashSpec /\ PrimeSpec /\ PagesSpec
<1>1. Init => GraphInit /\ SemanticInit /\ DashInit /\ PrimeInit /\ PagesInit
  BY DEF Init
<1>2. [Next]_<<graphVars, semanticVars, dashVars, primeVars, pageVars>> =>
        /\ [GraphNext]_graphVars /\ [SemanticNext]_semanticVars
        /\ [DashNext]_dashVars /\ [PrimeNext]_primeVars /\ [PagesNext]_pageVars
  BY HostSteps
<1>3. QED
  BY <1>1, <1>2, PTL DEF Spec, GraphSpec, SemanticSpec, DashSpec, PrimeSpec, PagesSpec

(***************************************************************************)
(* All that goes on on one host keeps its tables, locks and counters of their   *)
(* types (the tables of the graph and of its semantic index, the state file and *)
(* lock of the dashboard, the budgets and the pages).                          *)
(***************************************************************************)
THEOREM HostTypes == Spec => []HostTypeOK
<1>1. GraphTypeOK /\ SemanticTypeOK /\ DashTypeOK /\ PrimeTypeOK /\ PagesTypeOK => HostTypeOK
  BY DEF HostTypeOK
<1>2. QED
  BY <1>1, HostRunsItsComponents, GraphTypes, SemanticTypes, DashTypes, PrimeTypes,
     PagesTypes, PTL
=============================================================================
