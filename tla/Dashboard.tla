----------------------------- MODULE Dashboard -----------------------------
(***************************************************************************)
(* The managed dashboard server (src/src/scripts/dashboard.ts): the commands      *)
(* start, run, status and stop, entered at any time and killed at any time,   *)
(* agree on one server through a state file, every access to which is under   *)
(* the state lock (src/src/platform/locks.ts, which the death of its holder   *)
(* releases).                                                                 *)
(*                                                                          *)
(* Launches are numbered; a launch has a starter (unless it is a run in the   *)
(* foreground), a runner and a server, and process identities are never       *)
(* confused (birth and launch ids).  What happens under one lock and writes   *)
(* the file once is one action.  A stopper is any process that reserves a     *)
(* stop: the stop command, a start that finds the server unhealthy or late,   *)
(* or the runner.                                                             *)
(***************************************************************************)
EXTENDS Naturals

CONSTANTS
  Stoppers,    \* processes that may stop the server
  MaxLaunches  \* bounds the launches

ASSUME MaxLaunchesTyped == MaxLaunches \in Nat
ASSUME StoppersNamed == "nobody" \notin Stoppers

VARIABLES
  state,     \* the state file
  launches,  \* launches so far
  starter,   \* of a launch: dashboardStart
  runner,    \* of a launch: dashboardRun
  server,    \* of a launch
  stopper    \* a stop under way, or a dead process

dashVars == <<state, launches, starter, runner, server, stopper>>

Launches == 1 .. MaxLaunches

Nobody == "nobody"
NoState == [phase |-> "none", launch |-> 0, known |-> FALSE, owner |-> Nobody]
Phase(p, i) == [NoState EXCEPT !.phase = p, !.launch = i]

DashTypeOK ==
  /\ state.phase \in {"none", "reserved", "launching", "running", "stopping"}
  /\ state.launch \in 0 .. launches
  /\ state.owner \in Stoppers \cup {Nobody}
  /\ launches \in 0 .. MaxLaunches
  /\ starter \in [Launches -> {"none", "spawning", "waiting", "gone"}]
  /\ runner \in [Launches -> {"none", "queued", "prepare", "spawned", "publish",
                              "published", "supervise", "recover", "gone"}]
  /\ server \in [Launches -> {"none", "alive", "exited", "killed"}]
  /\ stopper \in [Stoppers -> {"idle", "deliver", "finish", "stuck", "dead"}]

DashInit ==
  /\ state = NoState
  /\ launches = 0
  /\ starter = [i \in Launches |-> "none"]
  /\ runner = [i \in Launches |-> "none"]
  /\ server = [i \in Launches |-> "none"]
  /\ stopper = [k \in Stoppers |-> "idle"]

----------------------------------------------------------------------------
\* Only a runner that prepares keeps the lock over several steps.
LockFree ==
  \A i \in Launches : runner[i] \notin {"prepare", "spawned", "publish", "published"}

Alive(i) == server[i] = "alive"
RunnerDead(i) == runner[i] \in {"none", "gone"}
StarterDead(i) == starter[i] \in {"none", "gone"}

\* launchingCanBeCleared: a server that is not on record may be alive.
LaunchingClearable == RunnerDead(state.launch) /\ state.known /\ ~Alive(state.launch)

\* What a command may clear before it goes on.  A reservation expires with its
\* starter, or with time.
Clearable ==
  \/ state.phase = "reserved"
  \/ state.phase = "launching" /\ LaunchingClearable
  \/ state.phase \in {"running", "stopping"} /\ ~Alive(state.launch)

\* dashboardStatus and dashboardStop, when they find nothing to stop.
ClearState ==
  /\ LockFree
  /\ Clearable
  /\ state' = NoState
  /\ UNCHANGED <<launches, starter, runner, server, stopper>>

\* dashboardStart: a reservation, or one that replaces what is cleared.
Reserve ==
  /\ LockFree
  /\ launches < MaxLaunches
  /\ state.phase = "none" \/ Clearable
  /\ launches' = launches + 1
  /\ state' = Phase("reserved", launches')
  /\ starter' = [starter EXCEPT ![launches'] = "spawning"]
  /\ UNCHANGED <<runner, server, stopper>>

SpawnRunner(i) ==
  /\ starter[i] = "spawning"
  /\ starter' = [starter EXCEPT ![i] = "waiting"]
  /\ runner' = [runner EXCEPT ![i] = "queued"]
  /\ UNCHANGED <<state, launches, server, stopper>>

\* The runner could not be spawned, or has not come up in time: the starter takes
\* back its own reservation.
CancelReservation(i) ==
  /\ starter[i] \in {"spawning", "waiting"}
  /\ LockFree
  /\ state' = IF state.phase = "reserved" /\ state.launch = i THEN NoState ELSE state
  /\ starter' = [starter EXCEPT ![i] = "gone"]
  /\ UNCHANGED <<launches, runner, server, stopper>>

\* The starter has seen its server, or is killed.
StarterEnds(i) ==
  /\ starter[i] \in {"spawning", "waiting"}
  /\ starter' = [starter EXCEPT ![i] = "gone"]
  /\ UNCHANGED <<state, launches, runner, server, stopper>>

----------------------------------------------------------------------------
\* dashboardRun of a launch id: its reservation must still be there.
Prepare(i) ==
  /\ runner[i] = "queued"
  /\ LockFree
  /\ state.phase = "reserved" /\ state.launch = i
  /\ ~StarterDead(i)
  /\ state' = Phase("launching", i)
  /\ runner' = [runner EXCEPT ![i] = "prepare"]
  /\ UNCHANGED <<launches, starter, server, stopper>>

\* "no reservation for launch", which removes one that has expired, whose ever it
\* is, and leaves any other, even its own when the build or the runner is not right.
RefuseLaunch(i) ==
  /\ runner[i] = "queued"
  /\ LockFree
  /\ \/ state.phase = "reserved" /\ state' = NoState
     \/ ~(state.phase = "reserved" /\ StarterDead(state.launch)) /\ UNCHANGED state
  /\ runner' = [runner EXCEPT ![i] = "gone"]
  /\ UNCHANGED <<launches, starter, server, stopper>>

\* dashboardRun in the foreground.
RunForeground ==
  /\ LockFree
  /\ launches < MaxLaunches
  /\ state.phase = "none" \/ Clearable
  /\ launches' = launches + 1
  /\ state' = Phase("launching", launches')
  /\ runner' = [runner EXCEPT ![launches'] = "prepare"]
  /\ UNCHANGED <<starter, server, stopper>>

SpawnServer(i) ==
  /\ runner[i] = "prepare"
  /\ server' = [server EXCEPT ![i] = "alive"]
  /\ runner' = [runner EXCEPT ![i] = "spawned"]
  /\ UNCHANGED <<state, launches, starter, stopper>>

\* cleanUnspawnedStateLocked.
SpawnFails(i) ==
  /\ runner[i] = "prepare"
  /\ state' = NoState
  /\ runner' = [runner EXCEPT ![i] = "gone"]
  /\ UNCHANGED <<launches, starter, server, stopper>>

\* The server's pid, then, once its identity is proved, the running state.
PublishPid(i) ==
  /\ runner[i] = "spawned"
  /\ state' = [state EXCEPT !.known = TRUE]
  /\ runner' = [runner EXCEPT ![i] = "publish"]
  /\ UNCHANGED <<launches, starter, server, stopper>>

\* Wrong on purpose: the runner supervises a server that it has not published.
PublishNothing(i) ==
  /\ runner[i] = "publish"
  /\ Alive(i)
  /\ runner' = [runner EXCEPT ![i] = "published"]
  /\ UNCHANGED <<state, launches, starter, server, stopper>>

PublishRunning(i) ==
  /\ runner[i] = "publish"
  /\ Alive(i)
  /\ state' = Phase("running", i)
  /\ runner' = [runner EXCEPT ![i] = "published"]
  /\ UNCHANGED <<launches, starter, server, stopper>>

\* The lock is released.
Supervise(i) ==
  /\ runner[i] = "published"
  /\ runner' = [runner EXCEPT ![i] = "supervise"]
  /\ UNCHANGED <<state, launches, starter, server, stopper>>

\* Something fails in between, the release at last; the lock is gone.
PublishFails(i) ==
  /\ runner[i] \in {"spawned", "publish", "published"}
  /\ runner' = [runner EXCEPT ![i] = "recover"]
  /\ UNCHANGED <<state, launches, starter, server, stopper>>

OwnLaunch(i) == state.phase \in {"launching", "running"} /\ state.launch = i

\* stopSpawnedAfterFailure, if recoveryOwnsChild proves the child's identity.
RecoverSignal(i) ==
  /\ runner[i] = "recover"
  /\ LockFree /\ OwnLaunch(i) /\ Alive(i)
  /\ server' = [server EXCEPT ![i] = "killed"]
  /\ UNCHANGED <<state, launches, starter, runner, stopper>>

\* cleanSpawnedState, after the child has gone.
RecoverClean(i) ==
  /\ runner[i] = "recover"
  /\ LockFree /\ ~Alive(i)
  /\ state' = IF OwnLaunch(i) THEN NoState ELSE state
  /\ runner' = [runner EXCEPT ![i] = "gone"]
  /\ UNCHANGED <<launches, starter, server, stopper>>

\* The running state of the launch, left by a server that was not signalled.
RemoveOwn(i) == state.phase = "running" /\ state.launch = i /\ server[i] = "exited"

\* The child has gone and the runner ends.
RunnerEnds(i) ==
  /\ runner[i] = "supervise"
  /\ LockFree /\ ~Alive(i)
  /\ state' = IF RemoveOwn(i) THEN NoState ELSE state
  /\ runner' = [runner EXCEPT ![i] = "gone"]
  /\ UNCHANGED <<launches, starter, server, stopper>>

\* The runner is killed, with the lock or without; the server lives on.
RunnerDies(i) ==
  /\ runner[i] \notin {"none", "gone"}
  /\ runner' = [runner EXCEPT ![i] = "gone"]
  /\ UNCHANGED <<state, launches, starter, server, stopper>>

\* The server ends by itself or is killed from outside.
ServerEnds(i) ==
  /\ Alive(i)
  /\ \E how \in {"exited", "killed"} : server' = [server EXCEPT ![i] = how]
  /\ UNCHANGED <<state, launches, starter, runner, stopper>>

----------------------------------------------------------------------------
\* reserveStop: a running server, or a stop whose owner is dead; the identity of the
\* server is proved.
ReserveStop(k) ==
  /\ stopper[k] = "idle"
  /\ LockFree
  /\ \/ state.phase = "running"
     \/ state.phase = "stopping" /\ stopper[state.owner] = "dead"
  /\ Alive(state.launch)
  /\ state' = [Phase("stopping", state.launch) EXCEPT !.owner = k]
  /\ stopper' = [stopper EXCEPT ![k] = "deliver"]
  /\ UNCHANGED <<launches, starter, runner, server>>

OwnStop(k) == state.phase = "stopping" /\ state.owner = k

\* The signals, each authorised under the lock; the server may survive them, or
\* the stopper may not get the lock.
DeliverSignal(k) ==
  /\ stopper[k] = "deliver"
  /\ \/ /\ LockFree /\ OwnStop(k)
        /\ Alive(state.launch)
        /\ server' = [server EXCEPT ![state.launch] = "killed"]
     \/ UNCHANGED server
  /\ stopper' = [stopper EXCEPT ![k] = "finish"]
  /\ UNCHANGED <<state, launches, starter, runner>>

\* Wrong on purpose: the stop is over whether the server is or not.
AfterStopGone == NoState

\* The state after a stop: nothing, or running again.
AfterStop == IF Alive(state.launch) THEN Phase("running", state.launch) ELSE NoState

\* The end of executeStop.
FinishStop(k) ==
  /\ stopper[k] = "finish"
  /\ LockFree
  /\ state' = IF OwnStop(k) THEN AfterStop ELSE state
  /\ stopper' = [stopper EXCEPT ![k] = "idle"]
  /\ UNCHANGED <<launches, starter, runner, server>>

\* executeStop does not get the lock in time and throws, in a process that goes on:
\* nobody takes the stop over while it lives.
StopperGivesUp(k) ==
  /\ stopper[k] = "finish"
  /\ stopper' = [stopper EXCEPT ![k] = "stuck"]
  /\ UNCHANGED <<state, launches, starter, runner, server>>

\* A stopper is killed, or its process ends.
StopperDies(k) ==
  /\ stopper[k] # "dead"
  /\ stopper' = [stopper EXCEPT ![k] = "dead"]
  /\ UNCHANGED <<state, launches, starter, runner, server>>

DashNext ==
  \/ ClearState \/ Reserve \/ RunForeground
  \/ \E i \in Launches :
       \/ SpawnRunner(i) \/ CancelReservation(i) \/ StarterEnds(i)
       \/ Prepare(i) \/ RefuseLaunch(i)
       \/ SpawnServer(i) \/ SpawnFails(i) \/ PublishPid(i) \/ PublishRunning(i)
       \/ Supervise(i) \/ PublishFails(i) \/ RecoverSignal(i) \/ RecoverClean(i)
       \/ RunnerEnds(i) \/ RunnerDies(i) \/ ServerEnds(i)
  \/ \E k \in Stoppers :
       \/ ReserveStop(k) \/ DeliverSignal(k) \/ FinishStop(k)
       \/ StopperGivesUp(k) \/ StopperDies(k)

\* A process that has begun goes on unless it is killed.
DashFairness ==
  /\ \A i \in Launches :
       /\ WF_dashVars(SpawnRunner(i) \/ CancelReservation(i))
       /\ WF_dashVars(Prepare(i) \/ RefuseLaunch(i))
       /\ WF_dashVars(SpawnServer(i) \/ SpawnFails(i))
       /\ WF_dashVars(PublishPid(i) \/ PublishRunning(i) \/ Supervise(i) \/ PublishFails(i))
       /\ WF_dashVars(RecoverClean(i))
       /\ WF_dashVars(RunnerEnds(i))
  /\ \A k \in Stoppers : WF_dashVars(DeliverSignal(k) \/ FinishStop(k))

DashSpec == DashInit /\ [][DashNext]_dashVars /\ DashFairness

----------------------------------------------------------------------------
(* Every server that is alive is the one of the state file, wherever a        *)
(* command, a runner or a stopper was killed and whatever was entered         *)
(* meanwhile; so there is one server at most, and no command starts another    *)
(* beside it.  While it is launching its runner is still to publish or to stop *)
(* it, unless that was killed: then start and stop only refuse ("incomplete    *)
(* launch; ownership cannot be proved") until the server ends by itself, and    *)
(* for good when its pid was not on record yet (launchingCanBeCleared,         *)
(* executeStop, recoveryOwnsChild).                                            *)
EveryServerIsOnRecord ==
  \A i \in Launches :
    Alive(i) =>
      /\ state.launch = i
      /\ \/ state.phase \in {"running", "stopping"}
         \/ /\ state.phase = "launching"
            /\ runner[i] \in {"spawned", "publish", "recover", "gone"}

(* A launch or a stop does not last: it ends with a server that runs, or with *)
(* none, unless a process was killed in the midst of it, the stopper did not   *)
(* get the lock for its last look, or a child that its runner could not stop   *)
(* lives on.                                                                   *)
PhasesEnd ==
  /\ \A i \in Launches :
       (state.phase \in {"reserved", "launching"} /\ state.launch = i)
         ~> \/ state.launch # i
            \/ state.phase \in {"running", "stopping"}
            \/ StarterDead(i) /\ RunnerDead(i)
            \/ runner[i] = "recover" /\ Alive(i)
  /\ \A k \in Stoppers : OwnStop(k) ~> (~OwnStop(k) \/ stopper[k] \in {"stuck", "dead"})
=============================================================================
