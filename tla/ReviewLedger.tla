---------------------------- MODULE ReviewLedger ----------------------------
(***************************************************************************)
(* What reviewers, operators and executors may rely on while a plan is       *)
(* reviewed (src/src/plans.ts): passes are numbered 1, 2, .. in the order    *)
(* they are recorded, only the newest verdict is ever announced, and         *)
(* execution starts only from an approved plan whose newest pass approves    *)
(* the registered text.                                                      *)
(***************************************************************************)
EXTENDS Naturals

CONSTANTS
  Phases,   \* plan statuses
  Texts     \* versions of the plan file

VARIABLES
  recorded,    \* passes
  newest,      \* the last of them: its number, its verdict, the text it is about
  announced,   \* the pass the plan's board thread has been told of last
  phase,       \* the plan's status
  text         \* the registered version of the plan file

ledgerVars == <<recorded, newest, announced, phase, text>>

LedgerInit ==
  /\ recorded = 0
  /\ newest.num = 0
  /\ announced = 0
  /\ phase = "draft"
  /\ text \in Texts

\* A review: the registered text follows the file it was posted against.
Record(ok, pin) ==
  /\ recorded' = recorded + 1
  /\ newest' = [num |-> recorded', ok |-> ok, pin |-> pin]
  /\ text' \in Texts
  /\ UNCHANGED <<announced, phase>>

Announce ==
  /\ announced' = recorded
  /\ UNCHANGED <<recorded, newest, phase, text>>

Start ==
  /\ phase = "approved"
  /\ recorded > 0
  /\ newest.ok
  /\ newest.pin = text
  /\ phase' = "executing"
  /\ UNCHANGED <<recorded, newest, announced, text>>

\* A registration: any status but the start of execution, any text.
Steer ==
  /\ phase' \in {phase} \cup (Phases \ {"executing"})
  /\ text' \in Texts
  /\ UNCHANGED <<recorded, newest, announced>>

LedgerNext ==
  \/ \E ok \in BOOLEAN, pin \in Texts : Record(ok, pin)
  \/ Announce \/ Start \/ Steer

LedgerSpec == LedgerInit /\ [][LedgerNext]_ledgerVars
=============================================================================
