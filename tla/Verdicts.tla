------------------------------ MODULE Verdicts ------------------------------
(***************************************************************************)
(* What curation promises (src/src/curation.ts): every write of an agent and   *)
(* every verdict of an operator is one indivisible step, whose condition holds  *)
(* at the moment it takes effect.  Curation shows how row locks achieve this.    *)
(*                                                                              *)
(* A memory is a decision or a lesson.  Agents add memories, cite older ones,     *)
(* relearn lessons and propose retractions; operators answer.  Rows are the       *)
(* proposals and verdicts of curation_candidates, Edges the citations of          *)
(* memory_citations, both numbered in the order of their insertion.               *)
(***************************************************************************)
EXTENDS Naturals

CONSTANTS
  Decisions,
  Lessons,
  Rows,       \* rows of curation_candidates
  Edges,      \* rows of memory_citations
  Threshold,  \* GRADUATION_REINFORCEMENTS
  None        \* null

Memories == Decisions \cup Lessons

VARIABLES
  memory,     \* whether a memory is absent, live or retired
  relearned,  \* relearned_count of a lesson, up to Threshold
  row,        \* what a row of curation_candidates says
  edge        \* what a row of memory_citations says

vars == <<memory, relearned, row, edge>>

NoRow == [target |-> None, basis |-> "none", status |-> "none"]
NoEdge == [citing |-> None, cited |-> None, status |-> "none"]

Bases == {"evidence", "unused", "graduate"}

TypeOK ==
  /\ memory \in [Memories -> {"absent", "live", "retired"}]
  /\ relearned \in [Lessons -> 0 .. Threshold]
  /\ row \in [Rows -> [target : Memories, basis : Bases,
                       status : {"open", "kept", "applied", "dismissed"}] \cup {NoRow}]
  /\ edge \in [Edges -> [citing : Memories, cited : Memories,
                         status : {"recorded", "proposed", "applied", "dismissed"}] \cup {NoEdge}]

Init ==
  /\ memory = [m \in Memories |-> "absent"]
  /\ relearned = [l \in Lessons |-> 0]
  /\ row = [r \in Rows |-> NoRow]
  /\ edge = [e \in Edges |-> NoEdge]

----------------------------------------------------------------------------
Exists(m) == memory[m] # "absent"
Live(m) == memory[m] = "live"

\* Decisions cite decisions and lessons cite lessons.
SameKind(m, n) == m \in Decisions <=> n \in Decisions

NextRow(r) == row[r] = NoRow /\ \A q \in Rows : q < r => row[q] # NoRow
NextEdge(e) == edge[e] = NoEdge /\ \A f \in Edges : f < e => edge[f] # NoEdge

\* A row is added.
Record(m, basis, status) ==
  \E r \in Rows : NextRow(r) /\ row' = [row EXCEPT ![r] = [target |-> m, basis |-> basis, status |-> status]]

OpenRows(m) == {r \in Rows : row[r].target = m /\ row[r].status = "open"}
Rules(l) ==
  {r \in Rows : row[r].target = l /\ row[r].basis = "graduate" /\ row[r].status = "applied"}
Answered(m) ==
  {r \in Rows : row[r].target = m /\ row[r].basis # "graduate" /\ row[r].status = "applied"}
Newest(S) == {r \in S : \A q \in S : q <= r}

\* The rows in S get a status.
Resolved(S, status) ==
  [r \in Rows |-> IF r \in S THEN [row[r] EXCEPT !.status = status] ELSE row[r]]

\* A citation is added, or none.
Cite(m, c) ==
  \/ c = None /\ UNCHANGED edge
  \/ /\ c # None
     /\ \E e \in Edges, status \in {"recorded", "proposed"} :
          /\ NextEdge(e)
          /\ edge' = [edge EXCEPT ![e] = [citing |-> m, cited |-> c, status |-> status]]

----------------------------------------------------------------------------
\* Agents.
Citable(m, c) == c = None \/ (c \in Memories /\ c # m /\ Exists(c) /\ SameKind(m, c))

Add(m, c) ==
  /\ memory[m] = "absent"
  /\ Citable(m, c)
  /\ memory' = [memory EXCEPT ![m] = "live"]
  /\ Cite(m, c)
  /\ UNCHANGED <<relearned, row>>

\* A near-duplicate of a lesson: the lesson is relearned, even if it has been
\* retired in the meantime.
Fold(l, c) ==
  /\ Exists(l)
  /\ Citable(l, c)
  /\ relearned' = [relearned EXCEPT ![l] = IF @ < Threshold THEN @ + 1 ELSE @]
  /\ Cite(l, c)
  /\ UNCHANGED <<memory, row>>

Propose(d) ==
  /\ Exists(d)
  /\ OpenRows(d) = {}
  /\ Record(d, "evidence", "open")
  /\ UNCHANGED <<memory, relearned, edge>>

\* Operators.
Keep(m) ==
  /\ Exists(m)
  /\ \/ OpenRows(m) # {} /\ row' = Resolved(OpenRows(m), "kept")
     \/ \E basis \in {"evidence", "unused"} : Record(m, basis, "kept")
  /\ UNCHANGED <<memory, relearned, edge>>

Retire(m) ==
  /\ Live(m)
  /\ memory' = [memory EXCEPT ![m] = "retired"]
  /\ row' = Resolved(OpenRows(m), "applied")
  /\ UNCHANGED <<relearned, edge>>

\* The undo of Retire, which asks the answered question again.
Unretire(m) ==
  /\ memory[m] = "retired"
  /\ Answered(m) = {} \/ OpenRows(m) = {}
  /\ memory' = [memory EXCEPT ![m] = "live"]
  /\ row' = Resolved(Newest(Answered(m)), "open")
  /\ UNCHANGED <<relearned, edge>>

\* A supersession: the replacement lives and the cited memory retires.
Apply(e) ==
  /\ edge[e].status = "proposed"
  /\ Live(edge[e].citing) /\ Live(edge[e].cited)
  /\ memory' = [memory EXCEPT ![edge[e].cited] = "retired"]
  /\ edge' = [edge EXCEPT ![e].status = "applied"]
  /\ UNCHANGED <<relearned, row>>

Dismiss(e) ==
  /\ edge[e].status = "proposed"
  /\ edge' = [edge EXCEPT ![e].status = "dismissed"]
  /\ UNCHANGED <<memory, relearned, row>>

Promote(l) ==
  /\ Live(l)
  /\ relearned[l] = Threshold
  /\ Rules(l) = {}
  /\ Record(l, "graduate", "applied")
  /\ UNCHANGED <<memory, relearned, edge>>

Reject(l) ==
  /\ Live(l)
  /\ Record(l, "graduate", "dismissed")
  /\ UNCHANGED <<memory, relearned, edge>>

Unpromote(l) ==
  /\ Rules(l) # {}
  /\ row' = Resolved(Newest(Rules(l)), "dismissed")
  /\ UNCHANGED <<memory, relearned, edge>>

\* The triage queue and the command line, which know of no proposals, and the
\* agents' mai_unretract.
Retract(d) ==
  /\ Exists(d)
  /\ memory' = [memory EXCEPT ![d] = "retired"]
  /\ UNCHANGED <<relearned, row, edge>>

Unretract(d) ==
  /\ Exists(d)
  /\ memory' = [memory EXCEPT ![d] = "live"]
  /\ UNCHANGED <<relearned, row, edge>>

Next ==
  \/ \E m \in Memories, c \in Memories \cup {None} : Add(m, c)
  \/ \E l \in Lessons, c \in Lessons \cup {None} : Fold(l, c)
  \/ \E d \in Decisions : Propose(d) \/ Retract(d) \/ Unretract(d)
  \/ \E m \in Memories : Keep(m) \/ Retire(m) \/ Unretire(m)
  \/ \E e \in Edges : Apply(e) \/ Dismiss(e)
  \/ \E l \in Lessons : Promote(l) \/ Reject(l) \/ Unpromote(l)

Spec == Init /\ [][Next]_vars
----------------------------------------------------------------------------
\* A lesson is one rule at most, however often it is promoted and removed.
OneRule == \A l \in Lessons : \A q, r \in Rules(l) : q = r

\* The queue asks one question about a memory at a time.
OneOpenQuestion == \A m \in Memories : \A q, r \in OpenRows(m) : q = r

=============================================================================
