---------------------------- MODULE PlansProofs ----------------------------
(***************************************************************************)
(* Proofs about Plans for any reviewers, runs, statuses and bounds.          *)
(*                                                                          *)
(* Two arguments meet.  Numbers: a number read from a snapshot is at most one *)
(* ahead of the passes, the unique index lets one transaction at a time on to  *)
(* its COMMIT, and that one has the next number (Numbers).  Locks: one note    *)
(* transaction at a time has the plan row and none does while a pass is about  *)
(* to commit; a run's also keeps the evidence tables (Locks).  So what a note  *)
(* transaction has checked is still so when it commits (Decided), and every    *)
(* step is one of ReviewLedger or none.                                        *)
(***************************************************************************)
EXTENDS Plans, FiniteSetTheorems, TLAPS

ReviewType ==
  [at : {"idle", "number", "insert", "commit", "notify", "failed"},
   num : 0 .. MaxPasses, saw : BOOLEAN, tries : 0 .. 2, base : Nat]

Acts == {"none", "verdict", "retract", "flip", "suggest-executing", "suggest-executed"}

NoteType ==
  [at : {"idle", "lock", "decide", "commit"}, act : Acts,
   seen : SUBSET NoteBodies(1 .. MaxPasses)]

PlanTables ==
  /\ review \in [Reviewers -> ReviewType]
  /\ note \in [Posters -> NoteType]

\* Numbers of passes.
Numbers ==
  /\ newest.num = passes
  /\ \A r \in Reviewers :
       /\ review[r].at = "number" => review[r].tries = 1 /\ passes >= review[r].base + 1
       /\ review[r].at \in {"insert", "commit"} => review[r].tries \in {0, 1}
       /\ review[r].at = "insert" => review[r].num \in review[r].base + review[r].tries + 1 .. passes + 1
       /\ review[r].at = "commit" => review[r].num = passes + 1
       /\ review[r].at = "notify" => review[r].num \in 1 .. passes
       /\ review[r].at = "failed" => passes >= review[r].base + 2
  /\ \A q, r \in Reviewers : review[q].at = "commit" /\ review[r].at = "commit" => q = r

\* Who has the plan row and the tables.
Locks ==
  /\ \A m, n \in Posters : HasRow(m) /\ HasRow(n) => m = n
  /\ \A n \in Posters, r \in Reviewers : ~(HasRow(n) /\ HasKeyShare(r))
  /\ \A l \in Runs, r \in Reviewers : ~(HasRow(l) /\ WritesReviews(r))

\* What a note transaction has found is so until it ends.
Decided ==
  /\ \A r \in Reviewers :
       /\ note[r].at # "lock"
       /\ HasRow(r) => review[r].at = "notify" /\ note[r].act = "verdict"
       /\ note[r].at = "commit" => review[r].num = passes
  /\ \A l \in Runs :
       /\ note[l].at # "idle" => note[l].act \notin {"none", "verdict"}
       /\ note[l].at = "commit" =>
            /\ note[l].act \in Actions
            /\ note[l].act = "flip" => passes > 0 /\ newest.ok /\ newest.pin = sha
  /\ \A n \in Posters : note[n].at = "commit" => note[n].seen = thread

OneNote == \A x, y \in thread : x = y

PlansInv == PlansTypeOK /\ PlanTables /\ Numbers /\ Locks /\ Decided /\ OneNote

----------------------------------------------------------------------------
\* More passes can be announced the more there are.
LEMMA BodiesGrow ==
  ASSUME NEW i \in Nat, NEW j \in Nat, i <= j
  PROVE  NoteBodies(1 .. i) \subseteq NoteBodies(1 .. j)
<1>1. 1 .. i \subseteq 1 .. j
  OBVIOUS
<1> QED
  BY <1>1 DEF NoteBodies

\* Numbers and locks in force, in a form the action lemmas can use.
LEMMA PlanFacts ==
  ASSUME PlansInv
  PROVE  /\ file \in Nat /\ sha \in Nat /\ sha <= file /\ file <= MaxEdits
         /\ passes \in Nat /\ passes <= MaxPasses /\ MaxPasses \in Nat /\ MaxEdits \in Nat
         /\ announced \in Nat /\ announced <= passes
         /\ newest.num = passes /\ newest.pin \in 0 .. file
         /\ \A r \in Reviewers : r \in Posters /\ r \notin Runs
         /\ \A l \in Runs : l \in Posters /\ l \notin Reviewers
BY PlanBounds, RunsApart DEF PlansInv, PlansTypeOK, Numbers, Posters, Versions

\* The invariant at the start.
LEMMA PlansInitInv == PlansInit => PlansInv
<1> SUFFICES ASSUME PlansInit PROVE PlansInv
  OBVIOUS
<1>1. PlansTypeOK
  BY PlanBounds, StatusesTyped
     DEF PlansInit, PlansTypeOK, NoPass, NoReview, NoNote, Versions, Posters
<1>2. PlanTables
  BY PlanBounds DEF PlansInit, PlanTables, ReviewType, NoteType, Acts, NoReview, NoNote
<1>3. Numbers /\ Locks /\ Decided /\ OneNote
  BY RunsApart DEF PlansInit, Numbers, Locks, Decided, OneNote, HasRow, HasKeyShare, WritesReviews,
         NoPass, NoReview, NoNote, Posters
<1> QED
  BY <1>1, <1>2, <1>3 DEF PlansInv

----------------------------------------------------------------------------
\* A step of one review, of which no other transaction takes notice.
LEMMA ReviewMoves ==
  ASSUME PlansInv, NEW r \in Reviewers, NEW R \in ReviewType,
         review' = [review EXCEPT ![r] = R],
         UNCHANGED <<file, sha, status, rows, findings, commit, board, note>>,
         review[r].at # "notify",
         R.at = "number" => R.tries = 1 /\ passes >= R.base + 1,
         R.at \in {"insert", "commit"} => R.tries \in {0, 1},
         R.at = "insert" => R.num \in R.base + R.tries + 1 .. passes + 1,
         R.at = "commit" => /\ R.num = passes + 1 /\ RowFree
                            /\ \A q \in Reviewers \ {r} : review[q].at # "commit",
         R.at = "notify" => R.num \in 1 .. passes,
         R.at = "failed" => passes >= R.base + 2,
         R.at \in {"insert", "commit"} => TablesFree,
         R.base <= passes
  PROVE  PlansInv'
<1>1. \A q \in Reviewers : review'[q] = IF q = r THEN R ELSE review[q]
  BY DEF PlansInv, PlanTables
<1>2. PlansTypeOK'
  BY <1>1, PlanFacts DEF PlansInv, PlansTypeOK, rows, board, ReviewType
<1>3. PlanTables'
  BY DEF PlansInv, PlanTables
<1>4. Numbers'
  BY <1>1 DEF PlansInv, Numbers, rows
<1>5. Locks'
  BY <1>1 DEF PlansInv, Locks, HasRow, HasKeyShare, WritesReviews, RowFree, TablesFree
<1>6. Decided'
  BY <1>1, PlanFacts DEF PlansInv, Decided, Actions, HasRow, rows, board
<1>7. OneNote'
  BY DEF PlansInv, OneNote, board
<1> QED
  BY <1>2, <1>3, <1>4, <1>5, <1>6, <1>7 DEF PlansInv

\* One field of a review at a time.
LEMMA ReviewUpdates ==
  ASSUME NEW R \in ReviewType
  PROVE  /\ \A a \in {"insert", "number", "commit", "failed", "notify"} : [R EXCEPT !.at = a] \in ReviewType
         /\ \A t \in 0 .. 2 : [R EXCEPT !.tries = t] \in ReviewType
         /\ \A b \in Nat : [R EXCEPT !.base = b] \in ReviewType
         /\ \A i \in 0 .. MaxPasses : [R EXCEPT !.num = i] \in ReviewType
<1>1. ASSUME NEW a \in {"insert", "number", "commit", "failed", "notify"}
      PROVE  [R EXCEPT !.at = a] \in ReviewType
  BY DEF ReviewType
<1>2. ASSUME NEW t \in 0 .. 2
      PROVE  [R EXCEPT !.tries = t] \in ReviewType
  BY DEF ReviewType
<1>3. ASSUME NEW b \in Nat
      PROVE  [R EXCEPT !.base = b] \in ReviewType
  BY DEF ReviewType
<1>4. ASSUME NEW i \in 0 .. MaxPasses
      PROVE  [R EXCEPT !.num = i] \in ReviewType
  BY DEF ReviewType
<1> QED
  BY <1>1, <1>2, <1>3, <1>4

\* The number of an attempt and what else it reads.
LEMMA NumberedFields ==
  ASSUME NEW r \in Reviewers, review[r] \in ReviewType, passes \in Nat, passes < MaxPasses,
         MaxPasses \in Nat
  PROVE  /\ Numbered(r) \in ReviewType
         /\ Numbered(r).at = "insert"
         /\ Numbered(r).num = passes + 1
         /\ Numbered(r).tries = review[r].tries
         /\ Numbered(r).base = review[r].base
<1> DEFINE saw == commit # "none"
<1>1. saw \in BOOLEAN
  OBVIOUS
<1> HIDE DEF saw
<1>2. Numbered(r) = [review[r] EXCEPT !.at = "insert", !.num = passes + 1, !.saw = saw]
  BY DEF Numbered, saw
<1>3. passes + 1 \in 0 .. MaxPasses
  OBVIOUS
<1>4. Numbered(r) = [at |-> "insert", num |-> passes + 1, saw |-> saw,
                     tries |-> review[r].tries, base |-> review[r].base]
  BY <1>2 DEF ReviewType
<1> QED
  BY <1>1, <1>3, <1>4 DEF ReviewType

\* A review begins.
LEMMA BeginReviewInv ==
  ASSUME PlansInv, NEW r \in Reviewers, BeginReview(r)
  PROVE  PlansInv'
<1> DEFINE R == [Numbered(r) EXCEPT !.tries = 0, !.base = passes]
<1>1. review[r] \in ReviewType
  BY DEF PlansInv, PlanTables
<1>2. /\ R \in ReviewType
      /\ R.at = "insert" /\ R.num = passes + 1 /\ R.tries = 0 /\ R.base = passes
  <2>1. /\ Numbered(r) \in ReviewType
        /\ Numbered(r).at = "insert" /\ Numbered(r).num = passes + 1
    BY <1>1, PlanFacts, NumberedFields DEF BeginReview
  <2>2. [Numbered(r) EXCEPT !.tries = 0] \in ReviewType
    <3>1. 0 \in 0 .. 2
      OBVIOUS
    <3> HIDE DEF R
    <3> QED
      BY <2>1, <3>1, ReviewUpdates
  <2>3. R = [[Numbered(r) EXCEPT !.tries = 0] EXCEPT !.base = passes]
    OBVIOUS
  <2>4. R \in ReviewType
    BY <2>2, <2>3, PlanFacts, ReviewUpdates
  <2> QED
    BY <2>1, <2>4 DEF ReviewType
<1> HIDE DEF R
<1>3. review' = [review EXCEPT ![r] = R]
  BY DEF BeginReview, R
<1>4. R.num \in R.base + R.tries + 1 .. passes + 1 /\ R.base <= passes
  BY <1>2, PlanFacts
<1> QED
  BY <1>2, <1>3, <1>4, ReviewMoves DEF BeginReview

\* A review takes the next number once more.
LEMMA NumberAgainInv ==
  ASSUME PlansInv, NEW r \in Reviewers, NumberAgain(r)
  PROVE  PlansInv'
<1> DEFINE R == Numbered(r)
<1>1. /\ review[r] \in ReviewType
      /\ review[r].tries = 1 /\ passes >= review[r].base + 1
  BY DEF PlansInv, PlanTables, Numbers, NumberAgain
<1>2. /\ R \in ReviewType
      /\ R.at = "insert" /\ R.num = passes + 1 /\ R.tries = 1 /\ R.base = review[r].base
  BY <1>1, PlanFacts, NumberedFields DEF NumberAgain
<1> HIDE DEF R
<1>3. review' = [review EXCEPT ![r] = R]
  BY DEF NumberAgain, R
<1>4. R.num \in R.base + R.tries + 1 .. passes + 1 /\ R.base <= passes
  BY <1>1, <1>2, PlanFacts DEF ReviewType
<1> QED
  BY <1>2, <1>3, <1>4, ReviewMoves DEF NumberAgain

\* The unique index lets one pass of a number in.
LEMMA InsertPassInv ==
  ASSUME PlansInv, NEW r \in Reviewers, InsertPass(r)
  PROVE  PlansInv'
<1> DEFINE R == [review[r] EXCEPT !.at = "commit"]
<1>1. /\ review[r] \in ReviewType
      /\ review[r].num \in review[r].base + review[r].tries + 1 .. passes + 1
      /\ review[r].tries \in {0, 1}
      /\ review[r].base <= passes
  BY DEF PlansInv, PlansTypeOK, PlanTables, Numbers, InsertPass
<1>2. /\ R \in ReviewType
      /\ R.at = "commit" /\ R.num = review[r].num /\ R.tries = review[r].tries
      /\ R.base = review[r].base
  BY <1>1 DEF ReviewType
<1> HIDE DEF R
<1>3. review' = [review EXCEPT ![r] = R]
  BY DEF InsertPass, R
<1>4. R.num = passes + 1
  BY <1>1, <1>2, PlanFacts DEF InsertPass, Taken, ReviewType
<1>5. \A q \in Reviewers \ {r} : review[q].at # "commit"
  BY <1>2, <1>4 DEF InsertPass, PlansInv, Numbers
<1>6. RowFree /\ TablesFree
  BY PlanFacts DEF InsertPass, RowFree, TablesFree
<1> QED
  BY <1>1, <1>2, <1>3, <1>4, <1>5, <1>6, ReviewMoves DEF InsertPass

\* A number that is taken by a pass committed since it was read.
LEMMA CollideInv ==
  ASSUME PlansInv, NEW r \in Reviewers, Collide(r)
  PROVE  PlansInv'
<1> DEFINE at == IF review[r].tries = 0 THEN "number" ELSE "failed"
           R == [review[r] EXCEPT !.tries = @ + 1, !.at = at]
<1>1. /\ review[r] \in ReviewType
      /\ review[r].num \in review[r].base + review[r].tries + 1 .. passes + 1
      /\ review[r].tries \in {0, 1}
      /\ review[r].num <= passes
      /\ review[r].base <= passes
  BY DEF PlansInv, PlansTypeOK, PlanTables, Numbers, Collide, Taken
<1>2. /\ R \in ReviewType
      /\ R.at = at /\ at \in {"number", "failed"}
      /\ R.tries = review[r].tries + 1 /\ R.base = review[r].base
  <2>1. at \in {"number", "failed"}
    OBVIOUS
  <2> HIDE DEF at
  <2>2. review[r].tries + 1 \in 0 .. 2
    BY <1>1
  <2>3. [review[r] EXCEPT !.tries = review[r].tries + 1] \in ReviewType
    BY <1>1, <2>2, ReviewUpdates
  <2>4. R = [[review[r] EXCEPT !.tries = review[r].tries + 1] EXCEPT !.at = at]
    OBVIOUS
  <2>5. R \in ReviewType
    BY <2>1, <2>3, <2>4, ReviewUpdates
  <2> QED
    BY <1>1, <2>1, <2>5 DEF ReviewType
<1> HIDE DEF R
<1>3. review' = [review EXCEPT ![r] = R]
  BY DEF Collide, R
<1>4. review[r].base + review[r].tries + 1 <= passes
  BY <1>1, PlanFacts DEF ReviewType
<1>5. R.at = "number" => R.tries = 1 /\ passes >= R.base + 1
  BY <1>1, <1>2, <1>4, PlanFacts DEF ReviewType
<1>6. R.at = "failed" => passes >= R.base + 2
  BY <1>1, <1>2, <1>4, PlanFacts DEF ReviewType
<1> QED
  BY <1>1, <1>2, <1>3, <1>5, <1>6, ReviewMoves DEF Collide

----------------------------------------------------------------------------
\* What operators, the executor and the hook's ingest do to the evidence no run
\* is about to act on.
LEMMA EvidenceMoves ==
  ASSUME PlansInv, UNCHANGED <<rows, board, review, note>>,
         \A l \in Runs : note[l].at = "commit" => UNCHANGED <<sha, status, findings, commit>>,
         PlansTypeOK'
  PROVE  PlansInv'
<1>1. PlanTables' /\ Numbers' /\ Locks' /\ OneNote'
  BY DEF PlansInv, PlanTables, Numbers, Locks, OneNote, rows, board, HasRow, HasKeyShare,
         WritesReviews
<1>2. Decided'
  BY DEF PlansInv, Decided, rows, board, HasRow, Actions
<1> QED
  BY <1>1, <1>2 DEF PlansInv

\* The plan file changes.
LEMMA EditInv ==
  ASSUME PlansInv, Edit
  PROVE  PlansInv'
<1>1. 0 .. file \subseteq 0 .. file' /\ file' \in Versions
  BY PlanFacts DEF Edit, Versions
<1>2. newest' \in [num : 0 .. passes, ok : BOOLEAN, pin : 0 .. file'] /\ sha' \in 0 .. file'
  BY <1>1 DEF Edit, PlansInv, PlansTypeOK, rows
<1>3. PlansTypeOK'
  BY <1>1, <1>2 DEF Edit, PlansInv, PlansTypeOK, rows, board
<1> QED
  BY <1>3, EvidenceMoves DEF Edit

\* A registration resets the status with the hash.
LEMMA RegisterInv ==
  ASSUME PlansInv, Register
  PROVE  PlansInv'
<1>1. PlansTypeOK'
  BY DEF Register, PlansInv, PlansTypeOK, rows, board
<1>2. \A l \in Runs : note[l].at # "commit"
  BY PlanFacts DEF Register, PlanRowFree, RowFree, HasRow
<1> QED
  BY <1>1, <1>2, EvidenceMoves DEF Register

\* Execution starts from an approval.
LEMMA StartExecutionInv ==
  ASSUME PlansInv, StartExecution
  PROVE  PlansInv'
<1>1. PlansTypeOK'
  BY StatusesTyped DEF StartExecution, PlansInv, PlansTypeOK, rows, board
<1>2. \A l \in Runs : note[l].at # "commit"
  BY PlanFacts DEF StartExecution, PlanRowFree, RowFree, HasRow
<1> QED
  BY <1>1, <1>2, EvidenceMoves DEF StartExecution

\* Findings change; commits are indexed and pruned.
LEMMA IngestInv ==
  ASSUME PlansInv, UpdateFinding \/ IndexCommit \/ Prune
  PROVE  PlansInv'
<1>1. PlansTypeOK'
  BY DEF UpdateFinding, IndexCommit, Prune, PlansInv, PlansTypeOK, rows, board
<1>2. \A l \in Runs : note[l].at # "commit"
  BY DEF UpdateFinding, IndexCommit, Prune, TablesFree, HasRow
<1> QED
  BY <1>1, <1>2, EvidenceMoves DEF UpdateFinding, IndexCommit, Prune

----------------------------------------------------------------------------
\* A pass that commits keeps all note transactions off the plan row.
LEMMA CommitPassInv ==
  ASSUME PlansInv, NEW r \in Reviewers, CommitPass(r)
  PROVE  PlansInv'
<1>1. /\ review[r].at = "commit" /\ review[r].num = passes + 1
      /\ review[r].num \in 0 .. MaxPasses
      /\ passes' = passes + 1 /\ passes' <= MaxPasses
      /\ UNCHANGED <<file, status, board, note>>
  BY PlanFacts DEF CommitPass, PlansInv, Numbers, PlanTables, ReviewType
<1>2. \A n \in Posters : ~HasRow(n)
  BY <1>1 DEF PlansInv, Locks, HasKeyShare
<1>3. /\ review'[r].at = "notify" /\ review'[r].num = passes' /\ review'[r].base = 0
      /\ review'[r] \in ReviewType
      /\ \A q \in Reviewers : q # r => review'[q] = review[q]
      /\ review' \in [Reviewers -> ReviewType]
  <2> DEFINE R == [NoReview EXCEPT !.at = "notify", !.num = review[r].num]
  <2>1. NoReview \in ReviewType /\ NoReview.base = 0
    BY PlanFacts DEF NoReview, ReviewType
  <2>2. R \in ReviewType /\ R.at = "notify" /\ R.num = passes' /\ R.base = 0
    <3>1. [NoReview EXCEPT !.at = "notify"] \in ReviewType
      BY <2>1, ReviewUpdates
    <3>2. R = [[NoReview EXCEPT !.at = "notify"] EXCEPT !.num = review[r].num]
      OBVIOUS
    <3>3. R \in ReviewType
      BY <1>1, <3>1, <3>2, ReviewUpdates
    <3> QED
      BY <1>1, <2>1, <3>3 DEF ReviewType
  <2>3. review' = [review EXCEPT ![r] = R]
    BY DEF CommitPass
  <2> HIDE DEF R
  <2> QED
    BY <2>2, <2>3 DEF PlansInv, PlanTables
<1>4. PICK ok \in BOOLEAN, pin \in 0 .. file :
        /\ newest' = [num |-> review[r].num, ok |-> ok, pin |-> pin]
        /\ findings' \in IF ok THEN {findings, "open"} ELSE {"open"}
        /\ commit' = IF ok /\ review[r].saw THEN "spent" ELSE commit
  BY DEF CommitPass
<1>5. NoteBodies(1 .. passes) \subseteq NoteBodies(1 .. passes')
  BY <1>1, PlanFacts, BodiesGrow
<1>6. PlansTypeOK'
  <2>1. /\ file' \in Versions /\ sha' \in 0 .. file' /\ status' \in Statuses
        /\ passes' \in 0 .. MaxPasses
        /\ newest' \in [num : 0 .. passes', ok : BOOLEAN, pin : 0 .. file']
    BY <1>1, <1>4, PlanFacts DEF CommitPass, PlansInv, PlansTypeOK
  <2>2. findings' \in {"none", "open", "closed"} /\ commit' \in {"none", "live", "spent"}
    BY <1>4 DEF PlansInv, PlansTypeOK
  <2>3. /\ thread' \subseteq NoteBodies(1 .. passes')
        /\ announced' \in 0 .. passes'
        /\ \A n \in Posters :
             /\ note'[n].at \in {"idle", "lock", "decide", "commit"}
             /\ note'[n].seen \subseteq NoteBodies(1 .. passes')
             /\ note'[n].act \in {"none", "verdict", "retract", "flip", "suggest-executing",
                                  "suggest-executed"}
    BY <1>1, <1>5, PlanFacts DEF PlansInv, PlansTypeOK, board
  <2>4. ASSUME NEW q \in Reviewers
        PROVE  /\ review'[q].at \in {"idle", "number", "insert", "commit", "notify", "failed"}
               /\ review'[q].tries \in 0 .. 2
               /\ review'[q].base \in 0 .. passes'
    <3>1. review'[q] \in ReviewType
      BY <1>3
    <3>2. review'[q].base <= passes'
      BY <1>1, <1>3, PlanFacts DEF PlansInv, PlansTypeOK
    <3> QED
      BY <1>1, <3>1, <3>2, PlanFacts DEF ReviewType
  <2> QED
    BY <2>1, <2>2, <2>3, <2>4 DEF PlansTypeOK
<1>7. PlanTables'
  BY <1>1, <1>3 DEF PlansInv, PlanTables
<1>8. Numbers'
  <2>1. \A q \in Reviewers : q # r => review[q].at # "commit"
    BY <1>1 DEF PlansInv, Numbers
  <2>2. newest'.num = passes'
    BY <1>1, <1>4
  <2>3. ASSUME NEW q \in Reviewers, q # r
        PROVE  /\ review[q].at = "number" => review[q].tries = 1 /\ passes' >= review[q].base + 1
               /\ review[q].at = "insert" => review[q].num \in review[q].base + review[q].tries + 1 .. passes' + 1
               /\ review[q].at = "notify" => review[q].num \in 1 .. passes'
               /\ review[q].at = "failed" => passes' >= review[q].base + 2
    <3>1. review[q] \in ReviewType
      BY DEF PlansInv, PlanTables
    <3> QED
      BY <1>1, <3>1, PlanFacts DEF PlansInv, Numbers, ReviewType
  <2>4. review'[r].num \in 1 .. passes'
    BY <1>1, <1>3, PlanFacts
  <2> QED
    BY <1>3, <2>1, <2>2, <2>3, <2>4 DEF PlansInv, Numbers
<1>9. Locks'
  BY <1>1, <1>2, PlanFacts DEF Locks, HasRow
<1>10. Decided'
  BY <1>1, <1>2, PlanFacts DEF PlansInv, Decided, HasRow
<1>11. OneNote'
  BY <1>1 DEF PlansInv, OneNote, board
<1> QED
  BY <1>6, <1>7, <1>8, <1>9, <1>10, <1>11 DEF PlansInv

\* A review ends, with a notice to come or without.
LEMMA EndReviewInv ==
  ASSUME PlansInv, NEW r \in Reviewers, EndReview(r)
  PROVE  PlansInv'
<1>1. /\ review' \in [Reviewers -> ReviewType]
      /\ \A q \in Reviewers : review'[q] = IF q = r THEN NoReview ELSE review[q]
      /\ note' \in [Posters -> NoteType]
      /\ \A n \in Posters : note'[n] = IF n = r THEN NoNote ELSE note[n]
  <2>1. NoReview \in ReviewType /\ NoNote \in NoteType
    BY PlanFacts DEF NoReview, NoNote, ReviewType, NoteType, Acts
  <2> QED
    BY <2>1 DEF EndReview, PlansInv, PlanTables
<1>2. UNCHANGED <<file, sha, status, rows, findings, commit, board>>
  BY DEF EndReview
<1>3. PlansTypeOK'
  BY <1>1, <1>2, PlanFacts DEF PlansInv, PlansTypeOK, rows, board, NoReview, NoNote
<1>4. Numbers'
  BY <1>1, <1>2 DEF PlansInv, Numbers, rows, NoReview
<1>5. Locks'
  BY <1>1, PlanFacts DEF PlansInv, Locks, HasRow, HasKeyShare, WritesReviews, NoReview, NoNote
<1>6. Decided'
  BY <1>1, <1>2, PlanFacts DEF PlansInv, Decided, HasRow, Actions, rows, board, NoReview, NoNote
<1> QED
  BY <1>1, <1>2, <1>3, <1>4, <1>5, <1>6 DEF PlansInv, PlanTables, OneNote, board

----------------------------------------------------------------------------
\* A step of one note transaction that commits nothing.
LEMMA NoteMoves ==
  ASSUME PlansInv, NEW n \in Posters, NEW N \in NoteType,
         note' = [note EXCEPT ![n] = N],
         UNCHANGED <<file, sha, status, rows, findings, commit, board, review>>,
         N.seen \subseteq NoteBodies(1 .. passes),
         N.at = "commit" => N.seen = thread,
         N.at \in {"decide", "commit"} =>
           HasRow(n) \/ (PlanRowFree /\ (n \in Runs => \A r \in Reviewers : ~WritesReviews(r))),
         n \in Reviewers =>
           /\ N.at # "lock"
           /\ N.at \in {"decide", "commit"} => review[n].at = "notify" /\ N.act = "verdict"
           /\ N.at = "commit" => review[n].num = passes,
         n \in Runs =>
           /\ N.at # "idle" => N.act \notin {"none", "verdict"}
           /\ N.at = "commit" =>
                /\ N.act \in Actions
                /\ N.act = "flip" => passes > 0 /\ newest.ok /\ newest.pin = sha
  PROVE  PlansInv'
<1>1. \A m \in Posters : note'[m] = IF m = n THEN N ELSE note[m]
  BY DEF PlansInv, PlanTables
<1>2. PlansTypeOK'
  BY <1>1, PlanFacts DEF PlansInv, PlansTypeOK, rows, board, NoteType, Acts
<1>3. PlanTables'
  BY DEF PlansInv, PlanTables
<1>4. Numbers'
  BY DEF PlansInv, Numbers, rows
<1>5. Locks'
  <2>1. HasRow(n)' => \/ HasRow(n)
                      \/ PlanRowFree /\ (n \in Runs => \A r \in Reviewers : ~WritesReviews(r))
    BY <1>1 DEF HasRow
  <2>2. \A m \in Posters : m # n => (HasRow(m)' <=> HasRow(m))
    BY <1>1 DEF HasRow
  <2>3. \A r \in Reviewers : (HasKeyShare(r)' <=> HasKeyShare(r)) /\ (WritesReviews(r)' <=> WritesReviews(r))
    BY DEF HasKeyShare, WritesReviews
  <2> QED
    BY <2>1, <2>2, <2>3, PlanFacts DEF PlansInv, Locks, PlanRowFree, RowFree
<1>6. Decided'
  BY <1>1, PlanFacts DEF PlansInv, Decided, HasRow, Actions, rows, board
<1>7. OneNote'
  BY DEF PlansInv, OneNote, board
<1> QED
  BY <1>2, <1>3, <1>4, <1>5, <1>6, <1>7 DEF PlansInv

\* The hook judges.
LEMMA EvaluateInv ==
  ASSUME PlansInv, NEW l \in Runs, Evaluate(l)
  PROVE  PlansInv'
<1>1. PICK act \in Actions : note' = [note EXCEPT ![l] = [NoNote EXCEPT !.at = "lock", !.act = act]]
  BY DEF Evaluate
<1>2. act \in Acts \ {"none", "verdict"}
  BY DEF Actions, Acts
<1> DEFINE N == [NoNote EXCEPT !.at = "lock", !.act = act]
<1>3. N \in NoteType /\ N.at = "lock" /\ N.act = act /\ N.seen = {}
  BY <1>2, PlanFacts DEF NoNote, NoteType
<1> HIDE DEF N
<1>4. note' = [note EXCEPT ![l] = N] /\ l \in Posters /\ l \notin Reviewers
  BY <1>1, PlanFacts DEF N
<1> QED
  BY <1>2, <1>3, <1>4, NoteMoves DEF Evaluate

\* A notice that is not posted.
LEMMA LeaveInv ==
  ASSUME PlansInv, NEW l \in Runs, Leave(l)
  PROVE  PlansInv'
<1>1. NoNote \in NoteType /\ NoNote.at = "idle" /\ NoNote.seen = {}
  BY DEF NoNote, NoteType, Acts
<1>2. note' = [note EXCEPT ![l] = NoNote] /\ l \in Posters /\ l \notin Reviewers
  BY PlanFacts DEF Leave
<1> QED
  BY <1>1, <1>2, NoteMoves DEF Leave

\* A notice locks the plan and its thread.
LEMMA LockInv ==
  ASSUME PlansInv, NEW n \in Posters, Lock(n)
  PROVE  PlansInv'
<1> DEFINE act == IF n \in Runs THEN note[n].act ELSE "verdict"
           N == [note[n] EXCEPT !.at = "decide", !.act = act]
<1>1. note[n] \in NoteType /\ act \in Acts
  BY DEF PlansInv, PlanTables, NoteType, Acts
<1>2. N \in NoteType /\ N.at = "decide" /\ N.act = act /\ N.seen = note[n].seen
  <2> HIDE DEF act
  <2> QED
    BY <1>1 DEF NoteType
<1> HIDE DEF N
<1>3. note' = [note EXCEPT ![n] = N]
  BY DEF Lock, Locked, N

<1>4. note[n].seen \subseteq NoteBodies(1 .. passes)
  BY DEF PlansInv, PlansTypeOK
<1>5. n \in Reviewers => review[n].at = "notify" /\ N.act = "verdict"
  BY <1>2, PlanFacts DEF Lock, Wants
<1>6. n \in Runs => N.act \notin {"none", "verdict"}
  BY <1>2 DEF Lock, Wants, PlansInv, Decided
<1>7. PlanRowFree /\ (n \in Runs => \A r \in Reviewers : ~WritesReviews(r))
  BY DEF Lock
<1> QED
  BY <1>2, <1>3, <1>4, <1>5, <1>6, <1>7, NoteMoves DEF Lock

\* What is decided under the locks is right until they go.
LEMMA DecideInv ==
  ASSUME PlansInv, NEW n \in Posters, Decide(n)
  PROVE  PlansInv'
<1> DEFINE N == [note[n] EXCEPT !.at = "commit", !.seen = thread]
<1>1. thread \subseteq NoteBodies(1 .. passes) /\ thread \subseteq NoteBodies(1 .. MaxPasses)
  BY PlanFacts, BodiesGrow DEF PlansInv, PlansTypeOK
<1>2. N \in NoteType /\ N.at = "commit" /\ N.act = note[n].act /\ N.seen = thread
  BY <1>1 DEF PlansInv, PlanTables, NoteType
<1> HIDE DEF N
<1>3. note' = [note EXCEPT ![n] = N]
  BY DEF Decide, N
<1>4. HasRow(n)
  BY DEF Decide, HasRow
<1>5. n \in Reviewers =>
        review[n].at = "notify" /\ N.act = "verdict" /\ review[n].num = passes
  BY <1>2, <1>4, PlanFacts DEF Decide, StillRight, PlansInv, Decided
<1>6. n \in Runs =>
        /\ N.act \notin {"none", "verdict"}
        /\ N.act \in Actions
        /\ N.act = "flip" => passes > 0 /\ newest.ok /\ newest.pin = sha
  BY <1>2 DEF Decide, StillRight, ApprovedText, PlansInv, Decided
<1> QED
  BY <1>1, <1>2, <1>3, <1>4, <1>5, <1>6, NoteMoves DEF Decide

----------------------------------------------------------------------------
\* What a note transaction brings with its COMMIT.
LEMMA Delivered ==
  ASSUME PlansInv, NEW n \in Posters, Deliver(n)
  PROVE  /\ thread' \subseteq NoteBodies(1 .. passes)
         /\ OneNote'
         /\ announced' \in {announced, passes}
         /\ status' \in {status, "executing"}
         /\ status' # status => /\ status = "approved" /\ announced' = announced
                                /\ passes > 0 /\ newest.ok /\ newest.pin = sha
         /\ announced' # announced => status' = status
<1> DEFINE act == note[n].act
<1>1. /\ note[n].at = "commit" /\ HasRow(n) /\ note[n].seen = thread
      /\ thread \subseteq NoteBodies(1 .. passes)
      /\ n \in Runs \/ n \in Reviewers
  BY DEF Deliver, HasRow, PlansInv, PlansTypeOK, Decided, Posters
<1>2. CASE act = "verdict"
  <2>1. n \in Reviewers /\ review[n].num = passes /\ review[n].at = "notify"
    BY <1>1, <1>2 DEF PlansInv, Decided
  <2>2. passes \in 1 .. passes
    BY <2>1 DEF PlansInv, Numbers
  <2>3. thread' = {<<"pass", passes>>} /\ announced' = passes /\ status' = status
    BY <1>1, <1>2, <2>1 DEF Deliver, Superseding
  <2>4. <<"pass", passes>> \in NoteBodies(1 .. passes)
    BY <2>2 DEF NoteBodies
  <2> QED
    BY <2>3, <2>4 DEF OneNote
<1>3. CASE act = "retract"
  BY <1>1, <1>3 DEF Deliver, PlansInv, OneNote
<1>4. CASE act \notin {"verdict", "retract"}
  <2>1. n \in Runs /\ act \in Actions \ {"retract"}
    BY <1>1, <1>4 DEF PlansInv, Decided
  <2>2. act \in {"flip", "suggest-executing", "suggest-executed"}
    BY <2>1 DEF Actions
  <2>3. BodyFor(act) \in NoteBodies(1 .. passes)
    <3>1. CASE act = "flip"
      BY <3>1 DEF BodyFor, NoteBodies
    <3>2. CASE act = "suggest-executing"
      BY <3>2 DEF BodyFor, NoteBodies, Prompts
    <3>3. CASE act = "suggest-executed"
      BY <3>3 DEF BodyFor, NoteBodies, Prompts
    <3> QED
      BY <2>2, <3>1, <3>2, <3>3
  <2>4. thread' = {BodyFor(act)} /\ announced' = announced
        /\ status' = IF act = "flip" THEN "executing" ELSE status
    BY <1>1, <1>4 DEF Deliver, Superseding
  <2>5. act = "flip" => /\ status = "approved"
                        /\ passes > 0 /\ newest.ok /\ newest.pin = sha
    BY <1>1, <2>1 DEF PlansInv, Decided, Actions
  <2> QED
    BY <2>3, <2>4, <2>5 DEF OneNote
<1> QED
  BY <1>2, <1>3, <1>4

\* A notice that is delivered takes the place of the one before.
LEMMA DeliverInv ==
  ASSUME PlansInv, NEW n \in Posters, Deliver(n)
  PROVE  PlansInv'
<1>1. /\ note[n].at = "commit" /\ HasRow(n)
      /\ \A m \in Posters : note'[m] = IF m = n THEN NoNote ELSE note[m]
      /\ note' \in [Posters -> NoteType]
      /\ UNCHANGED <<file, sha, passes, newest, findings, commit>>
  <2>1. NoNote \in NoteType
    BY DEF NoNote, NoteType, Acts
  <2> QED
    BY <2>1 DEF Deliver, HasRow, PlansInv, PlanTables, rows
<1>2. /\ review' \in [Reviewers -> ReviewType]
      /\ \A r \in Reviewers : review'[r] = IF r = n THEN NoReview ELSE review[r]
  <2>1. NoReview \in ReviewType
    BY PlanFacts DEF NoReview, ReviewType
  <2> QED
    BY <2>1 DEF Deliver, PlansInv, PlanTables
<1>3. \A m \in Posters : m # n => ~HasRow(m)
  BY <1>1 DEF PlansInv, Locks
<1>4. PlansTypeOK'
  <2>1. announced' \in 0 .. passes /\ status' \in Statuses /\ thread' \subseteq NoteBodies(1 .. passes)
    BY Delivered, PlanFacts, StatusesTyped DEF PlansInv, PlansTypeOK
  <2> QED
    BY <1>1, <1>2, <2>1, PlanFacts DEF PlansInv, PlansTypeOK, NoNote, NoReview
<1>5. Numbers'
  BY <1>1, <1>2 DEF PlansInv, Numbers, NoReview
<1>6. Locks'
  BY <1>1, <1>2, PlanFacts
     DEF PlansInv, Locks, HasRow, HasKeyShare, WritesReviews, NoNote, NoReview
<1>7. Decided'
  <2>1. \A m \in Posters : note'[m].at \notin {"decide", "commit"}
    BY <1>1, <1>3 DEF HasRow, NoNote
  <2> QED
    BY <1>1, <2>1, PlanFacts DEF PlansInv, Decided, HasRow, NoNote
<1>8. OneNote'
  BY Delivered
<1> QED
  BY <1>1, <1>2, <1>4, <1>5, <1>6, <1>7, <1>8 DEF PlansInv, PlanTables

----------------------------------------------------------------------------
\* Numbers, locks and decisions hold in every state.
THEOREM PlansInvariant == PlansSpec => []PlansInv
<1>1. PlansInv /\ [PlansNext]_planVars => PlansInv'
  <2> SUFFICES ASSUME PlansInv, [PlansNext]_planVars
               PROVE  PlansInv'
    OBVIOUS
  <2>1. CASE Edit
    BY <2>1, EditInv
  <2>2. ASSUME NEW r \in Reviewers, BeginReview(r) \/ NumberAgain(r) \/ InsertPass(r) \/ Collide(r)
        PROVE  PlansInv'
    BY <2>2, BeginReviewInv, NumberAgainInv, InsertPassInv, CollideInv
  <2>3. ASSUME NEW r \in Reviewers, CommitPass(r) \/ EndReview(r)
        PROVE  PlansInv'
    BY <2>3, CommitPassInv, EndReviewInv
  <2>4. CASE Register \/ StartExecution
    BY <2>4, RegisterInv, StartExecutionInv
  <2>5. CASE UpdateFinding \/ IndexCommit \/ Prune
    BY <2>5, IngestInv
  <2>6. ASSUME NEW l \in Runs, Evaluate(l) \/ Leave(l)
        PROVE  PlansInv'
    BY <2>6, EvaluateInv, LeaveInv
  <2>7. ASSUME NEW n \in Posters, Lock(n) \/ Decide(n) \/ Deliver(n)
        PROVE  PlansInv'
    BY <2>7, LockInv, DecideInv, DeliverInv
  <2>8. CASE UNCHANGED planVars
    <3>1. PlansTypeOK'
      BY <2>8 DEF planVars, rows, board, PlansInv, PlansTypeOK
    <3> QED
      BY <2>8, <3>1, EvidenceMoves DEF planVars, rows, board
  <2> QED
    BY <2>1, <2>2, <2>3, <2>4, <2>5, <2>6, <2>7, <2>8 DEF PlansNext
<1> QED
  BY <1>1, PlansInitInv, PTL DEF PlansSpec

(* The plan, its reviews and its notes have their types. *)
THEOREM PlansTypes == PlansSpec => []PlansTypeOK
<1>1. PlansInv => PlansTypeOK
  BY DEF PlansInv
<1> QED
  BY <1>1, PlansInvariant, PTL

(* The single retry of reviewPost is refused only when two passes of others    *)
(* were committed during the call, however many reviewers there are.           *)
THEOREM RefusalsHaveTwoCauses == PlansSpec => []RefusedOnlyIfOvertakenTwice
<1>1. PlansInv => RefusedOnlyIfOvertakenTwice
  BY DEF PlansInv, Numbers, RefusedOnlyIfOvertakenTwice
<1> QED
  BY <1>1, PlansInvariant, PTL

(* The thread of a plan never has two open server notes, whoever posts them     *)
(* (postThreadNoteSuperseding).                                              *)
THEOREM ThreadHasOneOpenNote == PlansSpec => []OneOpenNote
<1>1. PlansInv => OneOpenNote
  <2> SUFFICES ASSUME PlansInv PROVE Cardinality(thread) <= 1
    BY DEF OneOpenNote
  <2>1. CASE thread = {}
    BY <2>1, FS_EmptySet
  <2>2. CASE thread # {}
    <3>1. PICK x \in thread : thread = {x}
      BY <2>2 DEF PlansInv, OneNote
    <3> QED
      BY <3>1, FS_Singleton
  <2> QED
    BY <2>1, <2>2
<1> QED
  BY <1>1, PlansInvariant, PTL

(* No review, finding, commit or rewrite of history comes between the check of  *)
(* advancePlanLifecycle behind its locks and its COMMIT.                        *)
THEOREM DecisionsStand == PlansSpec => []DecisionStands
<1>1. PlansInv => DecisionStands
  BY DEF PlansInv, Decided, DecisionStands
<1> QED
  BY <1>1, PlansInvariant, PTL

----------------------------------------------------------------------------
\* A step of Plans is one of ReviewLedger, or none.
LEMMA StepsOfTheLedger ==
  ASSUME PlansInv, [PlansNext]_planVars
  PROVE  [L!LedgerNext]_(L!ledgerVars)
<1>1. CASE UNCHANGED <<passes, newest, announced, status, sha>>
  BY <1>1 DEF L!ledgerVars
<1>2. ASSUME NEW r \in Reviewers, CommitPass(r)
      PROVE  L!LedgerNext
  <2>1. PICK ok \in BOOLEAN, pin \in 0 .. file :
               newest' = [num |-> review[r].num, ok |-> ok, pin |-> pin]
    BY <1>2 DEF CommitPass
  <2>2. 0 .. file \subseteq Versions
    BY PlanFacts DEF Versions
  <2>3. review[r].num = passes + 1 /\ passes' = passes + 1
    BY <1>2 DEF CommitPass, PlansInv, Numbers
  <2>4. L!Record(ok, pin)
    BY <1>2, <2>1, <2>2, <2>3 DEF L!Record, CommitPass, board
  <2> QED
    BY <2>1, <2>2, <2>4 DEF L!LedgerNext
<1>3. CASE Register
  <2>1. 0 .. file \subseteq Versions
    BY PlanFacts DEF Versions
  <2> QED
    BY <1>3, <2>1 DEF Register, rows, board, L!LedgerNext, L!Steer
<1>4. CASE StartExecution
  BY <1>4 DEF StartExecution, ApprovedText, rows, board, L!LedgerNext, L!Start
<1>5. ASSUME NEW n \in Posters, Deliver(n)
      PROVE  [L!LedgerNext]_(L!ledgerVars)
  <2>1. UNCHANGED <<passes, newest, sha>>
    BY <1>5 DEF Deliver, rows
  <2>2. CASE status' # status
    BY <1>5, <2>1, <2>2, Delivered DEF L!LedgerNext, L!Start
  <2>3. CASE status' = status /\ announced' # announced
    BY <1>5, <2>1, <2>3, Delivered DEF L!LedgerNext, L!Announce
  <2>4. CASE status' = status /\ announced' = announced
    BY <2>1, <2>4 DEF L!ledgerVars
  <2> QED
    BY <2>2, <2>3, <2>4
<1>6. ASSUME NEW r \in Reviewers,
             BeginReview(r) \/ NumberAgain(r) \/ InsertPass(r) \/ Collide(r) \/ EndReview(r)
      PROVE  UNCHANGED <<passes, newest, announced, status, sha>>
  BY <1>6 DEF BeginReview, NumberAgain, InsertPass, Collide, EndReview, rows, board
<1>7. ASSUME Edit \/ UpdateFinding \/ IndexCommit \/ Prune
      PROVE  UNCHANGED <<passes, newest, announced, status, sha>>
  BY <1>7 DEF Edit, UpdateFinding, IndexCommit, Prune, rows, board
<1>8. ASSUME NEW n \in Posters, Evaluate(n) \/ Leave(n) \/ Lock(n) \/ Decide(n)
      PROVE  UNCHANGED <<passes, newest, announced, status, sha>>
  BY <1>8 DEF Evaluate, Leave, Lock, Decide, rows, board
<1>9. ASSUME UNCHANGED planVars
      PROVE  UNCHANGED <<passes, newest, announced, status, sha>>
  BY <1>9 DEF planVars, rows, board
<1> QED
  BY <1>1, <1>2, <1>3, <1>4, <1>5, <1>6, <1>7, <1>8, <1>9, PlanFacts DEF PlansNext

(* Reviews, registrations, notices and runs of the hook, interleaved and        *)
(* aborted anywhere, are a behaviour of ReviewLedger: passes are numbered in    *)
(* order, only the newest verdict is announced, execution starts only from an   *)
(* approved plan whose newest pass approves the registered text.                *)
THEOREM PlansImplementLedger == PlansSpec => ImplementsLedger
<1>1. PlansInit => L!LedgerInit
  BY PlanBounds DEF PlansInit, L!LedgerInit, NoPass, Versions
<1>2. PlansInv /\ [PlansNext]_planVars => [L!LedgerNext]_(L!ledgerVars)
  BY StepsOfTheLedger
<1> QED
  BY <1>1, <1>2, PlansInvariant, PTL DEF PlansSpec, ImplementsLedger, L!LedgerSpec
=============================================================================
