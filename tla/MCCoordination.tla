--------------------------- MODULE MCCoordination ---------------------------
(***************************************************************************)
(* The components agents and operators coordinate through, and the capture of *)
(* their sessions, for TLC.  They share no state, so the specification is     *)
(* their sum: a behaviour is one of one component, the others staying in      *)
(* their initial states.                                                      *)
(***************************************************************************)
EXTENDS Board, Plans, Ideas, OperatorTasks, Shares, Capture, TLC

MCBoardProcOf == [c \in BoardCalls |-> IF c = "c1" THEN "p" ELSE "q"]
MCColumns == <<"building", "idea", "planned">>
Symmetry == Permutations(Reviewers) \cup Permutations(Bodies) \cup Permutations(Sweeps)
MCParked == <<3>>

MCLines == {[stamp |-> "late", turn |-> "plain"], [stamp |-> "none", turn |-> "compaction"]}

\* NothingSkipped promises nothing of what follows an overlap; and no more than
\* two ingests are under way, waiting ones included.
TwoIngests ==
  "overlap" \notin mishaps /\ Cardinality({ i \in Ingests : ingest[i].at # "idle" }) <= 2

Init == BoardInit /\ PlansInit /\ IdeasInit /\ TasksInit /\ SharesInit /\ CaptureInit

Next ==
  \/ /\ PlansInit /\ IdeasInit /\ TasksInit /\ SharesInit /\ CaptureInit
     /\ BoardNext
     /\ UNCHANGED <<planVars, ideaVars, taskVars, shareVars, captureVars>>
  \/ /\ BoardInit /\ IdeasInit /\ TasksInit /\ SharesInit /\ CaptureInit
     /\ PlansNext
     /\ UNCHANGED <<boardVars, ideaVars, taskVars, shareVars, captureVars>>
  \/ /\ BoardInit /\ PlansInit /\ TasksInit /\ SharesInit /\ CaptureInit
     /\ IdeasNext
     /\ UNCHANGED <<boardVars, planVars, taskVars, shareVars, captureVars>>
  \/ /\ BoardInit /\ PlansInit /\ IdeasInit /\ SharesInit /\ CaptureInit
     /\ TasksNext
     /\ UNCHANGED <<boardVars, planVars, ideaVars, shareVars, captureVars>>
  \/ /\ BoardInit /\ PlansInit /\ IdeasInit /\ TasksInit /\ CaptureInit
     /\ SharesNext
     /\ UNCHANGED <<boardVars, planVars, ideaVars, taskVars, captureVars>>
  \/ /\ BoardInit /\ PlansInit /\ IdeasInit /\ TasksInit /\ SharesInit
     /\ CaptureNext
     /\ UNCHANGED <<boardVars, planVars, ideaVars, taskVars, shareVars>>

Spec == Init /\ [][Next]_<<boardVars, planVars, ideaVars, taskVars, shareVars, captureVars>>

(* The states of every component have their types. *)
CoordinationTypeOK ==
  BoardTypeOK /\ PlansTypeOK /\ IdeasTypeOK /\ TasksTypeOK /\ SharesTypeOK
  /\ CaptureTypeOK

(* Writers of the roadmap board, and grants and revocations of shares, take   *)
(* their locks in orders that keep them from waiting in a circle.             *)
NoCircle == NoCircleOfWrites /\ NoCircleOfShares
=============================================================================
