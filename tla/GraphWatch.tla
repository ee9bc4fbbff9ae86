----------------------------- MODULE GraphWatch -----------------------------
(***************************************************************************)
(* The graph of the sources kept up to date: the watcher                      *)
(* (src/src/graph/watch.ts, watch-changes.ts, watch-scheduler.ts) turns hints *)
(* of the file system into updates, and updates and builds                    *)
(* (update.ts, build.ts) write under the writer's lease (writer.ts).          *)
(*                                                                          *)
(* The sources, and what the graph has of them, are versions.  A time of the  *)
(* scheduler is what is left of it, or its age, in ticks.  A hint is about a  *)
(* source or noise (logs, excluded files).  A build stands for whatever other *)
(* process writes the graph, and makes one where there is none.  The versions *)
(* are of the sources that an update looks after, which are all but Kotlin's  *)
(* and Swift's: those only a build reads.                                     *)
(***************************************************************************)
EXTENDS Naturals

CONSTANTS
  Debounce,    \* ticks
  Interval,    \* ticks
  MaxChanges,  \* bounds the versions of the sources
  MaxBuilds,   \* bounds the builds
  MaxFaults    \* bounds the failures

ASSUME GraphBounds == {Debounce, Interval, MaxChanges, MaxBuilds, MaxFaults} \subseteq Nat

VARIABLES
  disk,    \* version of the sources
  owed,    \* a change the watcher has not been told of
  built,   \* the graph has nodes
  index,   \* version the graph is of
  lease,   \* who holds the writer's advisory lock
  watch,   \* the watcher
  build,   \* the other writer
  builds,  \* builds so far
  faults   \* failures so far

graphVars == <<disk, owed, built, index, lease, watch, build, builds, faults>>

Off == Debounce + 1   \* checkDue = Infinity

NotWatching == [at |-> "off", pending |-> FALSE, hints |-> "none", batch |-> "none",
                had |-> FALSE, needs |-> FALSE, startup |-> FALSE, checkDue |-> Off,
                hint |-> Debounce, observed |-> Debounce, qualified |-> Debounce,
                nextStart |-> 0, retryAt |-> 0, census |-> 0, seen |-> 0, session |-> FALSE]
NotBuilding == [at |-> "off", seen |-> 0, session |-> FALSE]

GraphTypeOK ==
  /\ disk \in 0 .. MaxChanges
  /\ built \in BOOLEAN /\ index \in 0 .. disk
  /\ lease \in {"free", "watch", "build"}
  /\ watch.at \in {"off", "idle", "check", "acquire", "scan", "write"}
  /\ watch.hints \in {"none", "noise", "source"}
  /\ watch.hints # "none" => watch.pending \/ watch.needs
  /\ watch.checkDue \in 0 .. Off /\ watch.hint \in 0 .. Debounce
  /\ watch.nextStart \in 0 .. Interval /\ watch.retryAt \in 0 .. Interval
  /\ build.at \in {"off", "scan", "write"}
  /\ builds \in 0 .. MaxBuilds /\ faults \in 0 .. MaxFaults

GraphInit ==
  /\ disk = 0 /\ owed = FALSE
  /\ built \in BOOLEAN /\ index = 0
  /\ lease = "free"
  /\ watch = NotWatching
  /\ build = NotBuilding
  /\ builds = 0 /\ faults = 0

----------------------------------------------------------------------------
Watching == watch.at # "off"
Released(who) == IF lease = who THEN "free" ELSE lease

\* A source changes.
Change ==
  /\ disk < MaxChanges
  /\ disk' = disk + 1
  /\ owed' = Watching
  /\ UNCHANGED <<built, index, lease, watch, build, builds, faults>>

\* Wrong on purpose: the scheduler is not told.
HintedUnarmed(kind) ==
  [watch EXCEPT !.hints = IF kind = "noise" /\ @ # "none" THEN @ ELSE kind]

\* WatchChanges.source or .git has taken the hint; notify of the scheduler.
Hinted(kind) ==
  [watch EXCEPT !.pending = TRUE, !.hint = 0,
                !.checkDue = IF watch.pending THEN @ ELSE Debounce,
                !.hints = IF kind = "noise" /\ @ # "none" THEN @ ELSE kind]

Hint ==
  /\ Watching /\ owed
  /\ watch' = Hinted("source")
  /\ owed' = FALSE
  /\ UNCHANGED <<disk, built, index, lease, build, builds, faults>>

Noise ==
  /\ Watching
  /\ watch' = Hinted("noise")
  /\ UNCHANGED <<disk, owed, built, index, lease, build, builds, faults>>

Less(n) == IF n > 0 THEN n - 1 ELSE 0
Older(n) == IF n < Debounce THEN n + 1 ELSE n

Tick ==
  /\ Watching
  /\ watch' = [watch EXCEPT !.checkDue = IF @ = Off THEN @ ELSE Less(@),
                            !.nextStart = Less(@), !.retryAt = Less(@),
                            !.hint = Older(@), !.observed = Older(@), !.qualified = Older(@)]
  /\ watch' # watch
  /\ UNCHANGED <<disk, owed, built, index, lease, build, builds, faults>>

\* startGraphWatch: the census is primed, every subscription installed.
StartWatch ==
  /\ watch.at = "off"
  /\ watch' = [NotWatching EXCEPT !.at = "idle", !.startup = TRUE, !.needs = TRUE,
                                  !.census = disk]
  /\ owed' = FALSE
  /\ UNCHANGED <<disk, built, index, lease, build, builds, faults>>

\* A stop of the watcher, or the death of its process.
StopWatch ==
  /\ Watching
  /\ watch' = NotWatching
  /\ owed' = FALSE
  /\ lease' = Released("watch")
  /\ UNCHANGED <<disk, built, index, build, builds, faults>>

\* updateDue has come, if a change was qualified so long ago.
UpdateDue(qualified) ==
  /\ watch.nextStart = 0
  /\ watch.retryAt = 0
  /\ watch.startup \/ qualified = Debounce

\* arm: the timer fires and a pass begins.  The hints taken are those of the census.
BeginPass ==
  /\ watch.at = "idle"
  /\ watch.retryAt = 0
  /\ \/ watch.pending /\ watch.checkDue = 0
     \/ watch.needs /\ UpdateDue(watch.qualified)
  /\ watch' = [watch EXCEPT !.at = "check", !.had = watch.pending, !.observed = watch.hint,
                            !.pending = FALSE, !.checkDue = Off,
                            !.batch = watch.hints, !.hints = "none"]
  /\ UNCHANGED <<disk, owed, built, index, lease, build, builds, faults>>

Fault == faults < MaxFaults /\ faults' = faults + 1

\* Wrong on purpose: the mark is the one that was there before.
PassFailedUnmarked(w) == [w EXCEPT !.at = "idle", !.batch = "none", !.retryAt = Interval]

\* The catch of a pass.
PassFailed(w) ==
  [w EXCEPT !.at = "idle", !.batch = "none", !.needs = TRUE, !.retryAt = Interval]

\* The census cannot be read: its hints are put back.
CensusFails ==
  /\ watch.at = "check"
  /\ Fault
  /\ watch' = PassFailed([watch EXCEPT !.hints = IF watch.batch = "none" THEN @ ELSE "source"])
  /\ UNCHANGED <<disk, owed, built, index, lease, build, builds>>

\* Age of the last hint that was found to be about a change.
Qualified(changed) ==
  IF changed /\ watch.had /\ watch.observed < watch.qualified
  THEN watch.observed ELSE watch.qualified

\* The census shows a source that was hinted at, or a different set of files; an
\* update starts if one is wanted and due.
CensusReads ==
  /\ watch.at = "check"
  /\ \E changed \in BOOLEAN :
       /\ watch.batch = "source" => changed
       /\ changed => watch.batch = "source" \/ disk # watch.census
       /\ LET q == Qualified(changed)
              wanted == watch.needs \/ changed
              starts == wanted /\ UpdateDue(q)
          IN watch' = [watch EXCEPT !.at = IF starts THEN "acquire" ELSE "idle",
                                    !.needs = wanted /\ ~starts,
                                    !.startup = @ /\ ~starts,
                                    !.nextStart = IF starts THEN Interval ELSE @,
                                    !.qualified = q, !.batch = "none", !.census = disk]
  /\ UNCHANGED <<disk, owed, built, index, lease, build, builds, faults>>

----------------------------------------------------------------------------
\* withGraphWriter: pg_try_advisory_lock.
Acquire ==
  /\ watch.at = "acquire"
  /\ lease = "free"
  /\ lease' = "watch"
  /\ watch' = [watch EXCEPT !.at = "scan", !.session = TRUE]
  /\ UNCHANGED <<disk, owed, built, index, build, builds, faults>>

\* runGraphUpdate finds "No graph yet", which is no error.
NoGraph ==
  /\ watch.at = "scan" /\ watch.session
  /\ ~built
  /\ lease' = Released("watch")
  /\ watch' = [watch EXCEPT !.at = "idle", !.session = FALSE]
  /\ UNCHANGED <<disk, owed, built, index, build, builds, faults>>

\* ... or reads the sources.
Scan ==
  /\ watch.at = "scan"
  /\ built
  /\ watch' = [watch EXCEPT !.at = "write", !.seen = disk]
  /\ UNCHANGED <<disk, owed, built, index, lease, build, builds, faults>>

\* Wrong on purpose: the writes go through another connection.
MayWriteUnfenced(session) == TRUE

\* Every write goes through the session that holds the lease.
MayWrite(session) == session

WriteIndex ==
  /\ watch.at = "write"
  /\ MayWrite(watch.session)
  /\ index' = watch.seen
  /\ lease' = Released("watch")
  /\ watch' = [watch EXCEPT !.at = "idle", !.session = FALSE]
  /\ UNCHANGED <<disk, owed, built, build, builds, faults>>

\* Busy, or an error of the scan or the database.
UpdateFails ==
  /\ \/ watch.at = "acquire" /\ lease # "free" /\ UNCHANGED faults
     \/ watch.at \in {"acquire", "scan", "write"} /\ Fault
  /\ watch' = PassFailed([watch EXCEPT !.session = FALSE])
  /\ lease' = Released("watch")
  /\ UNCHANGED <<disk, owed, built, index, build, builds>>

\* The server drops the session of a writer and with it the lease; the process
\* exits when it hears of it (StopWatch, or StopBuild).
LoseSession ==
  /\ Fault
  /\ \/ watch.session /\ watch' = [watch EXCEPT !.session = FALSE] /\ lease' = Released("watch")
                      /\ UNCHANGED build
     \/ build.session /\ build' = [build EXCEPT !.session = FALSE] /\ lease' = Released("build")
                      /\ UNCHANGED watch
  /\ UNCHANGED <<disk, owed, built, index, builds>>

StartBuild ==
  /\ build.at = "off"
  /\ builds < MaxBuilds
  /\ lease = "free"
  /\ lease' = "build"
  /\ builds' = builds + 1
  /\ build' = [NotBuilding EXCEPT !.at = "scan", !.session = TRUE]
  /\ UNCHANGED <<disk, owed, built, index, watch, faults>>

ScanBuild ==
  /\ build.at = "scan"
  /\ build' = [build EXCEPT !.at = "write", !.seen = disk]
  /\ UNCHANGED <<disk, owed, built, index, lease, watch, builds, faults>>

WriteBuild ==
  /\ build.at = "write"
  /\ MayWrite(build.session)
  /\ built' = TRUE /\ index' = build.seen
  /\ lease' = Released("build")
  /\ build' = NotBuilding
  /\ UNCHANGED <<disk, owed, watch, builds, faults>>

\* A failure or the death of the process.
StopBuild ==
  /\ build.at # "off"
  /\ build' = NotBuilding
  /\ lease' = Released("build")
  /\ UNCHANGED <<disk, owed, built, index, watch, builds, faults>>

WatchNext ==
  \/ Change \/ Hint \/ Noise \/ Tick \/ StartWatch \/ StopWatch
  \/ BeginPass \/ CensusFails \/ CensusReads
  \/ Acquire \/ NoGraph \/ Scan \/ WriteIndex \/ UpdateFails

GraphNext ==
  \/ WatchNext
  \/ LoseSession \/ StartBuild \/ ScanBuild \/ WriteBuild \/ StopBuild

\* Timers run, callbacks come, what has begun goes on; a writer that has lost its
\* session exits.
GraphFairness ==
  /\ WF_graphVars(Tick)
  /\ WF_graphVars(Hint)
  /\ WF_graphVars(BeginPass)
  /\ WF_graphVars(CensusReads)
  /\ WF_graphVars(Acquire \/ UpdateFails)
  /\ WF_graphVars(NoGraph \/ Scan \/ WriteIndex)
  /\ WF_graphVars(watch.at \in {"scan", "write"} /\ ~watch.session /\ StopWatch)
  /\ WF_graphVars(ScanBuild \/ WriteBuild \/ StopBuild)

GraphSpec == GraphInit /\ [][GraphNext]_graphVars /\ GraphFairness

----------------------------------------------------------------------------
(* As long as the watcher runs, the graph is brought up to what the sources   *)
(* are, whatever hints, failures, other writers and unrelated noise come in   *)
(* between, once the sources rest (a change sooner than the debounce after the *)
(* one before puts the update off).  The watcher takes for done an update that *)
(* has found no graph, or changes of Kotlin and Swift alone: without a graph, *)
(* and for those, nothing is promised until a build (the marks and deadlines  *)
(* of createWatchScheduler, the batches of WatchChanges, runGraphUpdate).     *)
EventuallyIndexed == []<>(index = disk \/ ~Watching \/ ~built)

(* The graph never goes back to an older scan of the sources, also when a     *)
(* writer that has lost its lease runs on (the one session of                 *)
(* withGraphWriter).                                                          *)
IndexNeverGoesBack == [][index' >= index]_graphVars
=============================================================================
