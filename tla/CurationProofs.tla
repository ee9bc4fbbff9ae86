--------------------------- MODULE CurationProofs ---------------------------
(***************************************************************************)
(* Proofs about Curation for any memories, sessions, rows and citations.        *)
(*                                                                              *)
(* 1. The tables alone: a step of Verdicts keeps what the tables must say        *)
(*    (AbstractStep).  A memory that exists never ceases to; that is all a        *)
(*    citation asks.                                                              *)
(* 2. Refinement: given the invariant, every statement of a transaction changes   *)
(*    no table or is one step of Verdicts (StepImplements).  A COMMIT meets the   *)
(*    condition of its verdict because Judging and Applying say that what the     *)
(*    transaction read is still so.                                               *)
(* 3. It is still so because of the locks: whatever another session does leaves   *)
(*    alone what a transaction holds (Undisturbed), and so what it relies on       *)
(*    (StaysSound).                                                               *)
(* 4. A session's own steps lock only what is free and keep its own part of the   *)
(*    invariant (Acts), one lemma per kind of step.                                *)
(* The invariant is the conjunction of these parts; the theorems follow from it.  *)
(*                                                                              *)
(* The last part is about the counters of citations, which a run refutes: they   *)
(* never exceed the citation rows, and they are equal in every behaviour in       *)
(* which no row is written between a recount and its commit (CountsStand).        *)
(***************************************************************************)
EXTENDS Curation, FiniteSetTheorems, TLAPS

(***************************************************************************)
(* The inductive invariant.                                                    *)
(***************************************************************************)

\* What the tables say whatever the transactions do.
RowsSound ==
  /\ \A r \in Rows : row[r].basis = "graduate" => row[r].status # "open"
  /\ \A l \in Lessons : \A q, r \in V!Rules(l) : q = r
  /\ \A m \in Memories : \A q, r \in V!OpenRows(m) : q = r

EdgesSound ==
  \A e \in Edges : edge[e] # V!NoEdge => V!Exists(edge[e].citing) /\ V!Exists(edge[e].cited)

\* A lock has one owner.
Exclusive ==
  \A o, p \in Ops : o # p => /\ Holds(o) \cap Holds(p) = {}
                             /\ HoldsEdge(o) \cap HoldsEdge(p) = {}

\* What a transaction has read of what it locks holds to its end.
Applying(o) ==
  op[o].verb = "apply" =>
    /\ op[o].edge \in Edges
    /\ op[o].pc \in {"edge", "first", "second", "commit"}
    /\ op[o].pc # "edge" => /\ edge[op[o].edge].status = "proposed"
                            /\ edge[op[o].edge].citing = op[o].first
                            /\ edge[op[o].edge].cited = op[o].second
    /\ op[o].pc \in {"second", "commit"} => V!Live(op[o].first)

Judging(o) ==
  /\ op[o].verb \in {"retire", "unretire", "promote", "reject"} =>
       op[o].pc \in {"second", "commit"} /\ op[o].second \in Memories
  /\ op[o].verb \in {"promote", "reject"} => op[o].second \in Lessons
  /\ At(o, "commit") => Meets(o)

\* What a write is about is there, or it is the write's own.
Writing(o) ==
  op[o].verb = "write" =>
    /\ op[o].pc \in {"first", "second", "commit"}
    /\ op[o].second \in Memories
    /\ op[o].pc = "first" => op[o].first # None
    /\ V!Citable(op[o].second, op[o].first)
    /\ memory[op[o].second] = "absent" =>
         \A p \in Ops : p # o => op[p].second # op[o].second
    /\ op[o].second \in Decisions => memory[op[o].second] = "absent"

Filing(o) ==
  /\ At(o, "insert") => op[o].verb \in {"propose", "keep"}
  /\ op[o].verb \in {"propose", "keep"} =>
       At(o, "insert") /\ op[o].second \in Memories /\ V!Exists(op[o].second)
  /\ op[o].verb = "propose" => op[o].second \in Decisions

Recounting(o) ==
  /\ At(o, "decisions") => DOMAIN totals[o] \subseteq Decisions
  /\ op[o].verb # "recount" => DOMAIN totals[o] = {}
  /\ op[o].verb = "recount" <=> op[o].pc \in {"decisions", "lessons"}
  /\ At(o, "idle") \/ op[o].verb = "none" => op[o] = Idle

IInv ==
  /\ TypeOK
  /\ RowsSound
  /\ EdgesSound
  /\ Exclusive
  /\ \A o \in Ops : Applying(o) /\ Judging(o) /\ Writing(o) /\ Filing(o) /\ Recounting(o)

----------------------------------------------------------------------------
\* What a row says, field by field; a row that has not been added says nothing.
LEMMA RowFields ==
  ASSUME V!TypeOK, NEW r \in Rows
  PROVE  /\ row[r].target \in Memories \cup {None}
         /\ row[r].basis \in {"none", "evidence", "unused", "graduate"}
         /\ row[r].status \in {"none", "open", "kept", "applied", "dismissed"}
         /\ row[r].status = "none" <=> row[r] = V!NoRow
         /\ row[r].basis = "none" <=> row[r] = V!NoRow
BY KindsDiffer DEF V!TypeOK, V!NoRow, V!Bases, Memories, V!Memories

\* Resolved changes the status of its rows and nothing else.
LEMMA ResolvedRows ==
  ASSUME V!TypeOK, NEW S \in SUBSET Rows, \A r \in S : row[r] # V!NoRow,
         NEW status \in {"open", "kept", "applied", "dismissed"},
         row' = V!Resolved(S, status)
  PROVE  /\ row' \in [Rows -> [target : Memories, basis : V!Bases,
                               status : {"open", "kept", "applied", "dismissed"}] \cup {V!NoRow}]
         /\ \A r \in Rows : /\ row'[r].target = row[r].target
                            /\ row'[r].basis = row[r].basis
                            /\ row'[r].status = IF r \in S THEN status ELSE row[r].status
<1>1. ASSUME NEW r \in Rows
      PROVE  /\ row'[r] \in [target : Memories, basis : V!Bases,
                             status : {"open", "kept", "applied", "dismissed"}] \cup {V!NoRow}
             /\ row'[r].target = row[r].target
             /\ row'[r].basis = row[r].basis
             /\ row'[r].status = IF r \in S THEN status ELSE row[r].status
  <2>1. CASE r \in S
    <3>1. row[r] \in [target : Memories, basis : V!Bases,
                      status : {"open", "kept", "applied", "dismissed"}]
      BY <2>1 DEF V!TypeOK, V!Memories, Memories
    <3>2. row'[r] = [row[r] EXCEPT !.status = status]
      BY <2>1 DEF V!Resolved
    <3> QED
      BY <2>1, <3>1, <3>2
  <2>2. CASE r \notin S
    BY <2>2 DEF V!Resolved, V!TypeOK, V!Memories, Memories
  <2> QED
    BY <2>1, <2>2
<1>2. row' = [r \in Rows |-> row'[r]]
  BY DEF V!Resolved
<1> QED
  BY <1>1, <1>2

\* Record fills one row that was free and leaves the others alone.
LEMMA RecordedRow ==
  ASSUME V!TypeOK, NEW m \in Memories, NEW basis \in V!Bases,
         NEW status \in {"open", "kept", "applied", "dismissed"},
         V!Record(m, basis, status)
  PROVE  /\ row' \in [Rows -> [target : Memories, basis : V!Bases,
                               status : {"open", "kept", "applied", "dismissed"}] \cup {V!NoRow}]
         /\ \E r \in Rows : /\ row[r] = V!NoRow
                            /\ row'[r] = [target |-> m, basis |-> basis, status |-> status]
                            /\ \A q \in Rows : q # r => row'[q] = row[q]
<1>1. PICK r \in Rows : /\ row[r] = V!NoRow
                        /\ row' = [row EXCEPT ![r] = [target |-> m, basis |-> basis, status |-> status]]
  BY DEF V!Record, V!NextRow
<1>2. row \in [Rows -> [target : Memories, basis : V!Bases,
                        status : {"open", "kept", "applied", "dismissed"}] \cup {V!NoRow}]
  BY DEF V!TypeOK, V!Memories, Memories
<1> QED
  BY <1>1, <1>2

\* Answering rows keeps the rows sound if it makes no rule and opens at most one
\* row, about a memory with no open one.
LEMMA RowsResolved ==
  ASSUME V!TypeOK, RowsSound, NEW S \in SUBSET Rows, \A r \in S : row[r] # V!NoRow,
         NEW status \in {"open", "kept", "applied", "dismissed"},
         row' = V!Resolved(S, status),
         status \in {"open", "applied"} => \A r \in S : row[r].basis # "graduate",
         status = "open" =>
           /\ \A q, r \in S : q = r
           /\ \A r \in S : V!OpenRows(row[r].target) = {}
  PROVE  RowsSound'
<1>1. \A r \in Rows : /\ row'[r].target = row[r].target
                      /\ row'[r].basis = row[r].basis
                      /\ row'[r].status = IF r \in S THEN status ELSE row[r].status
  BY ResolvedRows
<1>2. \A r \in Rows : row'[r].basis = "graduate" => row'[r].status # "open"
  BY <1>1 DEF RowsSound
<1>3. \A l \in Lessons : V!Rules(l)' \subseteq V!Rules(l)
  BY <1>1 DEF V!Rules
<1>4. ASSUME NEW m \in Memories, NEW q \in V!OpenRows(m)', NEW r \in V!OpenRows(m)'
      PROVE  q = r
  <2>1. /\ q \in Rows /\ (q \in V!OpenRows(m) \/ (q \in S /\ status = "open" /\ row[q].target = m))
        /\ r \in Rows /\ (r \in V!OpenRows(m) \/ (r \in S /\ status = "open" /\ row[r].target = m))
    BY <1>1, <1>4 DEF V!OpenRows
  <2> QED
    BY <2>1 DEF RowsSound
<1> QED
  BY <1>2, <1>3, <1>4 DEF RowsSound

\* Adding a row keeps the rows sound if it is not the second open one about its
\* memory, nor the second rule.
LEMMA RowsRecorded ==
  ASSUME V!TypeOK, RowsSound, NEW m \in Memories, NEW basis \in V!Bases,
         NEW status \in {"open", "kept", "applied", "dismissed"},
         V!Record(m, basis, status),
         status = "open" => basis # "graduate" /\ V!OpenRows(m) = {},
         basis = "graduate" /\ status = "applied" => V!Rules(m) = {}
  PROVE  RowsSound'
<1>1. PICK r \in Rows : /\ row[r] = V!NoRow
                        /\ row'[r] = [target |-> m, basis |-> basis, status |-> status]
                        /\ \A q \in Rows : q # r => row'[q] = row[q]
  BY RecordedRow
<1>2. \A q \in Rows : row'[q].basis = "graduate" => row'[q].status # "open"
  BY <1>1 DEF RowsSound
<1>3. ASSUME NEW l \in Lessons, NEW p \in V!Rules(l)', NEW q \in V!Rules(l)'
      PROVE  p = q
  <2>1. /\ p \in Rows /\ (p \in V!Rules(l) \/ (p = r /\ l = m /\ basis = "graduate" /\ status = "applied"))
        /\ q \in Rows /\ (q \in V!Rules(l) \/ (q = r /\ l = m /\ basis = "graduate" /\ status = "applied"))
    BY <1>1, <1>3 DEF V!Rules
  <2> QED
    BY <2>1 DEF RowsSound
<1>4. ASSUME NEW n \in Memories, NEW p \in V!OpenRows(n)', NEW q \in V!OpenRows(n)'
      PROVE  p = q
  <2>1. /\ p \in Rows /\ (p \in V!OpenRows(n) \/ (p = r /\ n = m /\ status = "open"))
        /\ q \in Rows /\ (q \in V!OpenRows(n) \/ (q = r /\ n = m /\ status = "open"))
    BY <1>1, <1>4 DEF V!OpenRows
  <2> QED
    BY <2>1 DEF RowsSound
<1> QED
  BY <1>2, <1>3, <1>4 DEF RowsSound

----------------------------------------------------------------------------
\* The steps of Verdicts preserve what the tables say.
AbsInv == V!TypeOK /\ RowsSound /\ EdgesSound

EdgeType ==
  [citing : Memories, cited : Memories,
   status : {"recorded", "proposed", "applied", "dismissed"}] \cup {V!NoEdge}

MemoryGrows ==
  /\ memory' \in [Memories -> {"absent", "live", "retired"}]
  /\ \A m \in Memories : V!Exists(m) => V!Exists(m)'

\* The types of the tables, one conjunct per table.
LEMMA Types ==
  V!TypeOK <=>
    /\ memory \in [Memories -> {"absent", "live", "retired"}]
    /\ relearned \in [Lessons -> 0 .. Threshold]
    /\ row \in [Rows -> [target : Memories, basis : V!Bases,
                         status : {"open", "kept", "applied", "dismissed"}] \cup {V!NoRow}]
    /\ edge \in [Edges -> EdgeType]
BY DEF V!TypeOK, V!Memories, Memories, EdgeType

\* Retiring or restoring a memory makes none absent.
LEMMA MemorySet ==
  ASSUME V!TypeOK, NEW m \in Memories, NEW status \in {"live", "retired"},
         memory' = [memory EXCEPT ![m] = status]
  PROVE  MemoryGrows
BY Types DEF MemoryGrows, V!Exists

\* Citations stay sound while no memory becomes absent.
LEMMA EdgesKept ==
  ASSUME AbsInv, MemoryGrows, UNCHANGED edge
  PROVE  EdgesSound'
<1>1. ASSUME NEW e \in Edges, edge[e] # V!NoEdge
      PROVE  edge[e].citing \in Memories /\ edge[e].cited \in Memories
  BY <1>1, Types DEF AbsInv, EdgeType
<1> QED
  BY <1>1 DEF AbsInv, EdgesSound, MemoryGrows

\* A citation between two memories that exist keeps the citations sound.
LEMMA EdgesCited ==
  ASSUME AbsInv, MemoryGrows, NEW m \in Memories, NEW c \in Memories \cup {None},
         V!Cite(m, c), V!Exists(m)', c # None => V!Exists(c)
  PROVE  edge' \in [Edges -> EdgeType] /\ EdgesSound'
<1>0. edge \in [Edges -> EdgeType]
  BY Types DEF AbsInv
<1>1. CASE UNCHANGED edge
  BY <1>0, <1>1, EdgesKept
<1>2. CASE c # None /\ \E e \in Edges, status \in {"recorded", "proposed"} :
             edge' = [edge EXCEPT ![e] = [citing |-> m, cited |-> c, status |-> status]]
  <2>1. PICK e \in Edges, status \in {"recorded", "proposed"} :
               edge' = [edge EXCEPT ![e] = [citing |-> m, cited |-> c, status |-> status]]
    BY <1>2
  <2>2. [citing |-> m, cited |-> c, status |-> status] \in EdgeType
    BY <1>2 DEF EdgeType
  <2>3. V!Exists(c)'
    BY <1>2 DEF MemoryGrows
  <2>4. ASSUME NEW f \in Edges, f # e, edge[f] # V!NoEdge
        PROVE  memory'[edge[f].citing] # "absent" /\ memory'[edge[f].cited] # "absent"
    <3>1. edge[f].citing \in Memories /\ edge[f].cited \in Memories
      BY <1>0, <2>4 DEF EdgeType
    <3> QED
      BY <2>4, <3>1 DEF AbsInv, EdgesSound, MemoryGrows, V!Exists
  <2>5. edge'[e] = [citing |-> m, cited |-> c, status |-> status]
    BY <1>0, <2>1
  <2>6. \A f \in Edges : f # e => edge'[f] = edge[f]
    BY <1>0, <2>1
  <2>7. memory'[edge'[e].citing] # "absent" /\ memory'[edge'[e].cited] # "absent"
    BY <2>3, <2>5 DEF V!Exists
  <2> QED
    BY <1>0, <2>1, <2>2, <2>4, <2>5, <2>6, <2>7 DEF EdgesSound, V!Exists, V!NoEdge
<1> QED
  BY <1>1, <1>2 DEF V!Cite

\* So does answering a citation.
LEMMA EdgeResolved ==
  ASSUME AbsInv, MemoryGrows, NEW e \in Edges, edge[e].status = "proposed",
         NEW status \in {"applied", "dismissed"},
         edge' = [edge EXCEPT ![e].status = status]
  PROVE  edge' \in [Edges -> EdgeType] /\ EdgesSound'
<1>1. edge \in [Edges -> EdgeType]
  BY Types DEF AbsInv
<1>2. edge[e] # V!NoEdge
  BY DEF V!NoEdge
<1>3. edge[e] \in [citing : Memories, cited : Memories,
                   status : {"recorded", "proposed", "applied", "dismissed"}]
  BY <1>1, <1>2 DEF EdgeType
<1>4. /\ edge'[e] \in EdgeType
      /\ edge'[e].citing = edge[e].citing
      /\ edge'[e].cited = edge[e].cited
  BY <1>1, <1>3 DEF EdgeType
<1>5. \A f \in Edges : f # e => edge'[f] = edge[f]
  BY <1>1
<1>6. edge' \in [Edges -> EdgeType]
  BY <1>1, <1>4
<1>7. \A f \in Edges : edge[f] # V!NoEdge => edge[f].citing \in Memories /\ edge[f].cited \in Memories
  BY <1>1 DEF EdgeType
<1>8. ASSUME NEW f \in Edges, edge'[f] # V!NoEdge
      PROVE  memory'[edge'[f].citing] # "absent" /\ memory'[edge'[f].cited] # "absent"
  <2>1. edge[f] # V!NoEdge /\ edge'[f].citing = edge[f].citing /\ edge'[f].cited = edge[f].cited
    BY <1>2, <1>4, <1>5, <1>8
  <2> QED
    BY <1>7, <2>1 DEF AbsInv, EdgesSound, MemoryGrows, V!Exists
<1> QED
  BY <1>6, <1>8 DEF EdgesSound, V!Exists

AbsStep == AbsInv' /\ MemoryGrows

\* A step keeps the tables sound if it does so table by table.
LEMMA ByParts ==
  ASSUME AbsInv,
         MemoryGrows,
         relearned' \in [Lessons -> 0 .. Threshold],
         row' \in [Rows -> [target : Memories, basis : V!Bases,
                           status : {"open", "kept", "applied", "dismissed"}] \cup {V!NoRow}],
         RowsSound',
         edge' \in [Edges -> EdgeType],
         EdgesSound'
  PROVE  AbsStep
<1>1. V!TypeOK'
  BY DEF V!TypeOK, MemoryGrows, V!Memories, Memories, EdgeType, V!Bases, V!NoRow, V!NoEdge
<1> QED
  BY <1>1 DEF AbsStep, AbsInv

\* A step that leaves the rows alone keeps them sound.
LEMMA RowsKept ==
  ASSUME AbsInv, UNCHANGED row
  PROVE  /\ RowsSound'
         /\ row' \in [Rows -> [target : Memories, basis : V!Bases,
                               status : {"open", "kept", "applied", "dismissed"}] \cup {V!NoRow}]
<1>1. RowsSound'
  BY DEF AbsInv, RowsSound, V!Rules, V!OpenRows
<1> QED
  BY <1>1, Types DEF AbsInv

\* A step that leaves a table alone keeps its part.
LEMMA Unmoved ==
  ASSUME AbsInv
  PROVE  /\ UNCHANGED memory => MemoryGrows
         /\ UNCHANGED relearned => relearned' \in [Lessons -> 0 .. Threshold]
         /\ UNCHANGED edge => edge' \in [Edges -> EdgeType]
BY Types DEF AbsInv, MemoryGrows, V!Exists

\* Open rows have been added and are no questions of graduation.
LEMMA OpenTargets ==
  ASSUME AbsInv, NEW m \in Memories
  PROVE  /\ V!OpenRows(m) \in SUBSET Rows
         /\ \A r \in V!OpenRows(m) : row[r] # V!NoRow /\ row[r].basis # "graduate"
BY DEF AbsInv, RowsSound, V!OpenRows, V!NoRow

\* Every step of Verdicts keeps the tables typed and sound.
LEMMA AbstractStep ==
  ASSUME AbsInv, V!Next
  PROVE  AbsStep
<1> USE DEF AbsInv
<1>1. ASSUME NEW m \in Memories, NEW c \in Memories \cup {None}, V!Add(m, c)
      PROVE  AbsStep
  <2>1. MemoryGrows /\ V!Exists(m)'
    BY <1>1, MemorySet, Types DEF V!Add, V!Exists
  <2>2. edge' \in [Edges -> EdgeType] /\ EdgesSound'
    <3>1. c # None => V!Exists(c)
      BY <1>1 DEF V!Add, V!Citable
    <3> QED
      BY <1>1, <2>1, <3>1, EdgesCited DEF V!Add
  <2> QED
    BY <1>1, <2>1, <2>2, RowsKept, Unmoved, ByParts DEF V!Add
<1>2. ASSUME NEW l \in Lessons, NEW c \in Lessons \cup {None}, V!Fold(l, c)
      PROVE  AbsStep
  <2>1. MemoryGrows
    BY <1>2, Unmoved DEF V!Fold
  <2>2. relearned' \in [Lessons -> 0 .. Threshold]
    BY <1>2, Types, ThresholdTyped DEF V!Fold
  <2>3. edge' \in [Edges -> EdgeType] /\ EdgesSound'
    <3>1. c # None => V!Exists(c)
      BY <1>2 DEF V!Fold, V!Citable
    <3>2. l \in Memories /\ c \in Memories \cup {None}
      BY DEF Memories
    <3>3. V!Exists(l)'
      BY <1>2, <2>1, <3>2 DEF V!Fold, V!Exists
    <3> QED
      BY <1>2, <2>1, <3>1, <3>2, <3>3, EdgesCited DEF V!Fold
  <2> QED
    BY <1>2, <2>1, <2>2, <2>3, RowsKept, ByParts DEF V!Fold
<1>3. ASSUME NEW d \in Decisions, V!Propose(d)
      PROVE  AbsStep
  <2>1. d \in Memories /\ "evidence" \in V!Bases
    BY DEF Memories, V!Bases
  <2> QED
    BY <1>3, <2>1, RecordedRow, RowsRecorded, EdgesKept, Unmoved, ByParts DEF V!Propose
<1>4. ASSUME NEW d \in Decisions, V!Retract(d) \/ V!Unretract(d)
      PROVE  AbsStep
  <2>1. d \in Memories
    BY DEF Memories
  <2>2. MemoryGrows
    BY <1>4, <2>1, MemorySet DEF V!Retract, V!Unretract
  <2> QED
    BY <1>4, <2>2, RowsKept, EdgesKept, Unmoved, ByParts DEF V!Retract, V!Unretract
<1>5. ASSUME NEW m \in Memories, V!Keep(m)
      PROVE  AbsStep
  <2>1. CASE row' = V!Resolved(V!OpenRows(m), "kept")
    BY <1>5, <2>1, OpenTargets, ResolvedRows, RowsResolved, EdgesKept, Unmoved, ByParts DEF V!Keep
  <2>2. ASSUME NEW basis \in {"evidence", "unused"}, V!Record(m, basis, "kept")
        PROVE  AbsStep
    <3>1. basis \in V!Bases /\ basis # "graduate"
      BY DEF V!Bases
    <3> QED
      BY <1>5, <2>2, <3>1, RecordedRow, RowsRecorded, EdgesKept, Unmoved, ByParts DEF V!Keep
  <2> QED
    BY <1>5, <2>1, <2>2 DEF V!Keep
<1>6. ASSUME NEW m \in Memories, V!Retire(m)
      PROVE  AbsStep
  <2>1. MemoryGrows
    BY <1>6, MemorySet DEF V!Retire
  <2> QED
    BY <1>6, <2>1, OpenTargets, ResolvedRows, RowsResolved, EdgesKept, Unmoved, ByParts DEF V!Retire
<1>7. ASSUME NEW m \in Memories, V!Unretire(m)
      PROVE  AbsStep
  <2> DEFINE S == V!Newest(V!Answered(m))
  <2>1. MemoryGrows
    BY <1>7, MemorySet DEF V!Unretire
  <2>2. /\ S \in SUBSET Rows
        /\ \A r \in S : row[r] # V!NoRow /\ row[r].basis # "graduate" /\ row[r].target = m
        /\ S # {} => V!OpenRows(m) = {}
    BY <1>7 DEF V!Unretire, V!Newest, V!Answered, V!NoRow
  <2>3. \A q, r \in S : q = r
    <3>1. \A q, r \in S : q <= r /\ r <= q /\ q \in Nat /\ r \in Nat
      BY RowsNumbered DEF V!Newest, V!Answered
    <3> QED
      BY <3>1
  <2>4. row' = V!Resolved(S, "open")
    BY <1>7 DEF V!Unretire
  <2> HIDE DEF S
  <2>5. \A r \in S : V!OpenRows(row[r].target) = {}
    BY <2>2
  <2>6. RowsSound'
    BY <2>2, <2>3, <2>4, <2>5, RowsResolved
  <2>7. /\ row' \in [Rows -> [target : Memories, basis : V!Bases,
                               status : {"open", "kept", "applied", "dismissed"}] \cup {V!NoRow}]
    BY <2>2, <2>4, ResolvedRows
  <2> QED
    BY <1>7, <2>1, <2>6, <2>7, EdgesKept, Unmoved, ByParts DEF V!Unretire
<1>8. ASSUME NEW e \in Edges, V!Apply(e)
      PROVE  AbsStep
  <2>1. edge[e].cited \in Memories
    BY <1>8, Types DEF V!Apply, EdgeType, V!NoEdge
  <2>2. MemoryGrows
    BY <1>8, <2>1, MemorySet DEF V!Apply
  <2> QED
    BY <1>8, <2>2, EdgeResolved, RowsKept, Unmoved, ByParts DEF V!Apply
<1>9. ASSUME NEW e \in Edges, V!Dismiss(e)
      PROVE  AbsStep
  BY <1>9, EdgeResolved, RowsKept, Unmoved, ByParts DEF V!Dismiss
<1>10. ASSUME NEW l \in Lessons, V!Promote(l)
       PROVE  AbsStep
  <2>1. l \in Memories /\ "graduate" \in V!Bases
    BY DEF Memories, V!Bases
  <2> QED
    BY <1>10, <2>1, RecordedRow, RowsRecorded, EdgesKept, Unmoved, ByParts DEF V!Promote
<1>11. ASSUME NEW l \in Lessons, V!Reject(l)
       PROVE  AbsStep
  <2>1. l \in Memories /\ "graduate" \in V!Bases
    BY DEF Memories, V!Bases
  <2> QED
    BY <1>11, <2>1, RecordedRow, RowsRecorded, EdgesKept, Unmoved, ByParts DEF V!Reject
<1>12. ASSUME NEW l \in Lessons, V!Unpromote(l)
       PROVE  AbsStep
  <2> DEFINE S == V!Newest(V!Rules(l))
  <2>1. /\ S \in SUBSET Rows
        /\ \A r \in S : row[r] # V!NoRow
    BY DEF V!Newest, V!Rules, V!NoRow
  <2>2. row' = V!Resolved(S, "dismissed")
    BY <1>12 DEF V!Unpromote
  <2> HIDE DEF S
  <2> QED
    BY <1>12, <2>1, <2>2, ResolvedRows, RowsResolved, EdgesKept, Unmoved, ByParts DEF V!Unpromote
<1> QED
  BY <1>1, <1>2, <1>3, <1>4, <1>5, <1>6, <1>7, <1>8, <1>9, <1>10, <1>11, <1>12
  DEF V!Next, V!Memories, Memories

----------------------------------------------------------------------------
\* The beginning of a transaction changes no table.
LEMMA StartsChangeNothing ==
  ASSUME NEW o \in Ops, AgentBegins(o) \/ StartVerdict(o) \/ (\E e \in Edges : StartApply(o, e))
  PROVE  UNCHANGED tables
BY DEF AgentBegins, StartAdd, StartFold, StartPropose, StartVerdict, StartApply

\* Nor does taking a lock, starting a recount or giving up.
LEMMA LocksChangeNothing ==
  ASSUME NEW o \in Ops, Lock(o) \/ Abort(o) \/ StartRecount(o)
  PROVE  UNCHANGED tables
BY DEF Lock, LockEdge, LockFirst, LockSecond, RecountDecisions, Abort, StartRecount

\* A transaction that commits takes one step of Verdicts: what it checked when it took
\* its locks still holds.
LEMMA CommitImplements ==
  ASSUME IInv, NEW o \in Ops, Commit(o)
  PROVE  V!Next \/ UNCHANGED tables
<1> DEFINE m == op[o].second
<1>0. Applying(o) /\ Judging(o) /\ Writing(o) /\ Filing(o) /\ Recounting(o)
  BY DEF IInv
<1>1. CASE Insert(o)
  <2>1. CASE op[o].verb = "propose" /\ V!OpenRows(m) = {} /\ V!Record(m, "evidence", "open")
    <3>1. V!Propose(m) /\ m \in Decisions
      BY <1>0, <1>1, <2>1 DEF Insert, Filing, V!Propose
    <3> QED
      BY <3>1 DEF V!Next
  <2>2. CASE op[o].verb = "keep" /\ \E basis \in {"evidence", "unused"} : V!Record(m, basis, "kept")
    <3>1. V!Keep(m) /\ m \in Memories
      BY <1>0, <1>1, <2>2 DEF Insert, Filing, V!Keep
    <3> QED
      BY <3>1 DEF V!Next, V!Memories, Memories
  <2> QED
    BY <1>1, <2>1, <2>2 DEF Insert, tables
<1>2. CASE CommitWrite(o)
  <2> DEFINE c == op[o].first
  <2>1. op[o].verb = "write" /\ At(o, "commit")
    BY <1>2 DEF CommitWrite, Committing
  <2>2. m \in Memories /\ V!Citable(m, c)
    BY <1>0, <2>1 DEF Writing
  <2>3. c \in Memories \cup {None}
    BY <2>2 DEF V!Citable, V!Memories, Memories
  <2>4. CASE memory[m] = "absent"
    <3>1. V!Add(m, c)
      BY <1>2, <2>2, <2>4 DEF CommitWrite, V!Add, V!Exists
    <3> QED
      BY <2>2, <2>3, <3>1 DEF V!Next, V!Memories, Memories
  <2>5. CASE memory[m] # "absent"
    <3>1. m \in Lessons
      BY <1>0, <2>1, <2>2, <2>5 DEF Writing, Memories
    <3>2. c \in Lessons \cup {None}
      BY <2>2, <2>3, <3>1, KindsDiffer DEF V!Citable, V!SameKind, Memories
    <3>3. V!Fold(m, c)
      BY <1>2, <2>2, <2>5 DEF CommitWrite, V!Fold, V!Exists
    <3> QED
      BY <3>1, <3>2, <3>3 DEF V!Next
  <2> QED
    BY <2>4, <2>5
<1>3. CASE CommitRetire(o)
  <2>1. m \in Memories /\ V!Live(m)
    BY <1>0, <1>3 DEF CommitRetire, Committing, Judging, Meets, At
  <2>2. V!Retire(m)
    BY <1>3, <2>1 DEF CommitRetire, V!Retire
  <2> QED
    BY <2>1, <2>2 DEF V!Next, V!Memories, Memories
<1>4. CASE CommitUnretire(o)
  <2>1. m \in Memories /\ memory[m] = "retired"
    BY <1>0, <1>4 DEF CommitUnretire, Committing, Judging, Meets, At
  <2>2. V!Unretire(m) \/ UNCHANGED tables
    BY <1>4, <2>1 DEF CommitUnretire, V!Unretire, tables
  <2> QED
    BY <2>1, <2>2 DEF V!Next, V!Memories, Memories
<1>5. CASE CommitApply(o)
  <2>1. op[o].verb = "apply" /\ At(o, "commit")
    BY <1>5 DEF CommitApply, Committing
  <2>2. /\ op[o].edge \in Edges
        /\ edge[op[o].edge].status = "proposed"
        /\ edge[op[o].edge].citing = op[o].first
        /\ edge[op[o].edge].cited = op[o].second
        /\ V!Live(op[o].first)
    BY <1>0, <2>1 DEF Applying, At
  <2>3. V!Live(op[o].second)
    BY <1>0, <2>1 DEF Judging, Meets
  <2>4. V!Apply(op[o].edge)
    BY <1>5, <2>2, <2>3 DEF CommitApply, V!Apply
  <2> QED
    BY <2>2, <2>4 DEF V!Next
<1>6. CASE CommitGraduation(o)
  <2>1. At(o, "commit") /\ op[o].verb \in {"promote", "reject"}
    BY <1>6 DEF CommitGraduation, Committing
  <2>2. m \in Lessons /\ Meets(o)
    BY <1>0, <2>1 DEF Judging
  <2>3. V!Promote(m) \/ V!Reject(m)
    BY <1>6, <2>2 DEF CommitGraduation, Committing, Meets, V!Promote, V!Reject
  <2> QED
    BY <2>2, <2>3 DEF V!Next
<1>7. CASE RecountLessons(o)
  BY <1>7 DEF RecountLessons
<1> QED
  BY <1>1, <1>2, <1>3, <1>4, <1>5, <1>6, <1>7 DEF Commit

\* Every step is a step of Verdicts, or changes no table.
LEMMA StepImplements ==
  ASSUME IInv, Next
  PROVE  V!Next \/ UNCHANGED tables
<1>1. ASSUME NEW o \in Operators, NEW m \in Memories, Keep(o, m)
      PROVE  V!Next \/ UNCHANGED tables
  <2>1. V!Keep(m) \/ UNCHANGED tables
    BY <1>1 DEF Keep, V!Keep, tables
  <2> QED
    BY <2>1 DEF V!Next, V!Memories, Memories
<1>2. \A o \in Operators : OperatorBegins(o) => V!Next \/ UNCHANGED tables
  BY <1>1, StartsChangeNothing DEF OperatorBegins, Ops
<1>3. \A e \in Edges : Dismiss(e) => V!Next
  BY DEF Dismiss, V!Next
<1>4. \A l \in Lessons : Unpromote(l) => V!Next
  BY DEF Unpromote, V!Next
<1>5. \A d \in Decisions : Direct(d) => V!Next
  BY DEF Direct, V!Next
<1> QED
  BY <1>2, <1>3, <1>4, <1>5, StartsChangeNothing, LocksChangeNothing, CommitImplements DEF Next, Ops

----------------------------------------------------------------------------
\* What a step of another session leaves to a transaction: the rows it has locked,
\* and the memory it is about to add.
Undisturbed(p) ==
  /\ \A m \in Holds(p) :
       /\ memory'[m] = memory[m]
       /\ m \in Lessons => relearned'[m] = relearned[m] /\ V!Rules(m)' \subseteq V!Rules(m)
  /\ \A e \in HoldsEdge(p) : edge'[e] = edge[e]
  /\ op[p].verb = "write" /\ memory[op[p].second] = "absent" =>
       memory'[op[p].second] = "absent"

\* Answering rows makes no rule of a lesson unless it applies a question of graduation.
LEMMA RulesShrink ==
  ASSUME V!TypeOK, NEW S \in SUBSET Rows, \A r \in S : row[r] # V!NoRow,
         NEW status \in {"open", "kept", "applied", "dismissed"},
         row' = V!Resolved(S, status),
         status = "applied" => \A r \in S : row[r].basis # "graduate",
         NEW l \in Lessons
  PROVE  V!Rules(l)' \subseteq V!Rules(l)
<1>1. \A r \in Rows : /\ row'[r].target = row[r].target
                      /\ row'[r].basis = row[r].basis
                      /\ row'[r].status = IF r \in S THEN status ELSE row[r].status
  BY ResolvedRows
<1> QED
  BY <1>1 DEF V!Rules

\* A new row makes a rule of no lesson but its own.
LEMMA RulesRecorded ==
  ASSUME V!TypeOK, NEW m \in Memories, NEW basis \in V!Bases,
         NEW status \in {"open", "kept", "applied", "dismissed"},
         V!Record(m, basis, status), NEW l \in Lessons,
         basis = "graduate" /\ status = "applied" => l # m
  PROVE  V!Rules(l)' \subseteq V!Rules(l)
<1>1. PICK r \in Rows : /\ row[r] = V!NoRow
                        /\ row'[r] = [target |-> m, basis |-> basis, status |-> status]
                        /\ \A q \in Rows : q # r => row'[q] = row[q]
  BY RecordedRow
<1> QED
  BY <1>1 DEF V!Rules

\* Untouched rows are the same rules.
LEMMA RulesKept ==
  ASSUME UNCHANGED row, NEW l \in Lessons
  PROVE  V!Rules(l)' \subseteq V!Rules(l)
BY DEF V!Rules

\* What one session has locked, or is about to add, no other has.
LEMMA HeldApart ==
  ASSUME IInv, NEW o \in Ops, NEW p \in Ops, o # p
  PROVE  /\ \A m \in Holds(p) : m \in Memories /\ m \notin Holds(o)
         /\ \A e \in HoldsEdge(p) : /\ e \in Edges /\ e \notin HoldsEdge(o)
                                    /\ edge[e].status = "proposed"
         /\ op[p].verb = "write" /\ memory[op[p].second] = "absent" =>
              op[p].second \in Memories /\ op[o].second # op[p].second
<1>1. \A e \in HoldsEdge(p) : e \in Edges /\ edge[e].status = "proposed"
  BY DEF IInv, Applying, HoldsEdge, At
<1>2. \A m \in Holds(p) : m \in Memories /\ m \notin Holds(o)
  BY DEF IInv, Exclusive, Holds
<1>3. \A e \in HoldsEdge(p) : e \notin HoldsEdge(o)
  BY DEF IInv, Exclusive
<1>4. op[p].verb = "write" /\ memory[op[p].second] = "absent" =>
        op[p].second \in Memories /\ op[o].second # op[p].second
  BY DEF IInv, Writing
<1> QED
  BY <1>1, <1>2, <1>3, <1>4

\* A transaction about to commit holds the row it locked last.
LEMMA CommitHolds ==
  ASSUME NEW o \in Ops, At(o, "commit"), op[o].second \in Memories
  PROVE  op[o].second \in Holds(o)
BY DEF Holds

\* A step that changes at most one memory, one lesson's count or one citation, and
\* gives a rule to at most that lesson.
LEMMA LocalStep ==
  ASSUME IInv, NEW p \in Ops, NEW n, NEW f,
         \A m \in Memories : m # n => memory'[m] = memory[m],
         \A l \in Lessons : l # n => relearned'[l] = relearned[l] /\ V!Rules(l)' \subseteq V!Rules(l),
         \A e \in Edges : e # f => edge'[e] = edge[e],
         n \notin Holds(p), f \notin HoldsEdge(p),
         op[p].verb = "write" /\ memory[op[p].second] = "absent" => op[p].second # n
  PROVE  Undisturbed(p)
<1>1. \A m \in Holds(p) : m \in Memories
  BY DEF Holds
<1>2. \A e \in HoldsEdge(p) : e \in Edges
  BY DEF IInv, Applying, HoldsEdge
<1>3. op[p].verb = "write" => op[p].second \in Memories
  BY DEF IInv, Writing
<1> QED
  BY <1>1, <1>2, <1>3 DEF Undisturbed, Memories

\* A COMMIT disturbs no other transaction.
LEMMA CommitUndisturbed ==
  ASSUME IInv, NEW o \in Ops, NEW p \in Ops, o # p, Commit(o)
  PROVE  Undisturbed(p)
<1>0. V!TypeOK /\ RowsSound /\ Applying(o) /\ Judging(o) /\ Writing(o) /\ Filing(o)
  BY DEF IInv, TypeOK
<1> DEFINE Left(n, f) == /\ n \notin Holds(p)
                        /\ f \notin HoldsEdge(p)
                        /\ op[p].verb = "write" /\ memory[op[p].second] = "absent" => op[p].second # n
<1>1. CASE Insert(o)
  <2>1. UNCHANGED <<memory, relearned, edge>>
    BY <1>1 DEF Insert
  <2>2. ASSUME NEW l \in Lessons
        PROVE  V!Rules(l)' \subseteq V!Rules(l)
    <3>1. CASE UNCHANGED row
      BY <3>1, RulesKept
    <3>2. ASSUME NEW basis \in {"evidence", "unused"}, NEW status \in {"open", "kept"},
                 V!Record(op[o].second, basis, status)
          PROVE  V!Rules(l)' \subseteq V!Rules(l)
      <4>1. op[o].second \in Memories /\ basis \in V!Bases
        BY <1>0, <1>1 DEF Insert, Filing, V!Bases
      <4> QED
        BY <1>0, <3>2, <4>1, RulesRecorded
    <3> QED
      BY <1>1, <3>1, <3>2 DEF Insert
  <2> QED
    BY <2>1, <2>2, RulesKept DEF Undisturbed
<1>2. CASE CommitWrite(o)
  <2> DEFINE m == op[o].second
  <2>1. op[o].verb = "write" /\ At(o, "commit") /\ m \in Memories
    BY <1>0, <1>2 DEF CommitWrite, Committing, Writing, At
  <2>2. m \in Holds(o)
    BY <2>1, CommitHolds
  <2>3. \A n \in Memories : n # m => memory'[n] = memory[n]
    BY <1>0, <1>2, Types DEF CommitWrite
  <2>4. \A l \in Lessons : l # m => relearned'[l] = relearned[l]
    BY <1>0, <1>2, Types DEF CommitWrite
  <2>5. \A l \in Lessons : V!Rules(l)' \subseteq V!Rules(l)
    BY <1>2, RulesKept DEF CommitWrite
  <2>6. PICK f : (f \in Edges => edge[f] = V!NoEdge) /\ \A e \in Edges : e # f => edge'[e] = edge[e]
    <3>1. V!Cite(m, op[o].first)
      BY <1>2 DEF CommitWrite
    <3>2. CASE UNCHANGED edge
      <4>1. (CHOOSE f : f \notin Edges) \notin Edges
        BY NoSetContainsEverything
      <4> QED
        BY <3>2, <4>1
    <3>3. CASE ~ UNCHANGED edge
      <4>1. PICK f \in Edges, status \in {"recorded", "proposed"} :
               /\ edge[f] = V!NoEdge
               /\ edge' = [edge EXCEPT ![f] = [citing |-> m, cited |-> op[o].first, status |-> status]]
        BY <3>1, <3>3 DEF V!Cite, V!NextEdge
      <4> QED
        BY <1>0, <4>1, Types
    <3> QED
      BY <3>2, <3>3
  <2>7. f \notin HoldsEdge(p)
    BY <2>6, HeldApart DEF V!NoEdge
  <2>8. m \notin Holds(p)
    BY <2>2, HeldApart
  <2> QED
    BY <2>3, <2>4, <2>5, <2>6, <2>7, <2>8, HeldApart, LocalStep
<1>3. CASE CommitRetire(o)
  <2> DEFINE m == op[o].second
  <2>1. At(o, "commit") /\ m \in Memories
    BY <1>0, <1>3 DEF CommitRetire, Committing, Judging
  <2>2. m \notin Holds(p)
    BY <2>1, CommitHolds, HeldApart
  <2>3. \A n \in Memories : n # m => memory'[n] = memory[n]
    BY <1>0, <1>3, Types DEF CommitRetire
  <2>4. \A l \in Lessons : V!Rules(l)' \subseteq V!Rules(l)
    BY <1>0, <1>3, <2>1, OpenTargets, RulesShrink DEF CommitRetire, IInv, AbsInv
  <2>5. UNCHANGED <<relearned, edge>>
    BY <1>3 DEF CommitRetire
  <2>6. PICK f : f \notin HoldsEdge(p)
    BY NoSetContainsEverything
  <2> QED
    BY <2>2, <2>3, <2>4, <2>5, <2>6, HeldApart, LocalStep
<1>4. CASE CommitUnretire(o)
  <2> DEFINE m == op[o].second
  <2>1. At(o, "commit") /\ m \in Memories
    BY <1>0, <1>4 DEF CommitUnretire, Committing, Judging
  <2>2. m \notin Holds(p)
    BY <2>1, CommitHolds, HeldApart
  <2>3. \A n \in Memories : n # m => memory'[n] = memory[n]
    BY <1>0, <1>4, Types DEF CommitUnretire
  <2>4. ASSUME NEW l \in Lessons
        PROVE  V!Rules(l)' \subseteq V!Rules(l)
    <3>1. CASE UNCHANGED row
      BY <3>1, RulesKept
    <3>2. CASE row' = V!Resolved(V!Newest(V!Answered(m)), "open")
      <4>1. /\ V!Newest(V!Answered(m)) \in SUBSET Rows
            /\ \A r \in V!Newest(V!Answered(m)) : row[r] # V!NoRow
        BY DEF V!Newest, V!Answered, V!NoRow
      <4> QED
        BY <1>0, <3>2, <4>1, RulesShrink
    <3> QED
      BY <1>4, <3>1, <3>2 DEF CommitUnretire
  <2>5. UNCHANGED <<relearned, edge>>
    BY <1>4 DEF CommitUnretire
  <2>6. PICK f : f \notin HoldsEdge(p)
    BY NoSetContainsEverything
  <2> QED
    BY <2>2, <2>3, <2>4, <2>5, <2>6, HeldApart, LocalStep
<1>5. CASE CommitApply(o)
  <2> DEFINE m == op[o].second
             f == op[o].edge
  <2>1. At(o, "commit") /\ op[o].verb = "apply"
    BY <1>5 DEF CommitApply, Committing
  <2>2. f \in Edges /\ edge[f].status = "proposed" /\ edge[f].cited = m
    BY <1>0, <2>1 DEF Applying, At
  <2>3. m \in Memories
    BY <1>0, <2>2, Types DEF EdgeType, V!NoEdge
  <2>4. m \notin Holds(p)
    BY <2>1, <2>3, CommitHolds, HeldApart
  <2>5. f \in HoldsEdge(o)
    BY <2>1 DEF HoldsEdge, At
  <2>6. f \notin HoldsEdge(p)
    BY <2>5, HeldApart
  <2>7. \A n \in Memories : n # m => memory'[n] = memory[n]
    BY <1>0, <1>5, Types DEF CommitApply
  <2>8. \A e \in Edges : e # f => edge'[e] = edge[e]
    BY <1>0, <1>5, Types DEF CommitApply
  <2>9. UNCHANGED <<relearned, row>>
    BY <1>5 DEF CommitApply
  <2> QED
    BY <2>4, <2>6, <2>7, <2>8, <2>9, HeldApart, RulesKept, LocalStep
<1>6. CASE CommitGraduation(o)
  <2> DEFINE m == op[o].second
  <2>1. At(o, "commit") /\ m \in Lessons /\ m \in Memories
    BY <1>0, <1>6 DEF CommitGraduation, Committing, Judging
  <2>2. m \notin Holds(p)
    BY <2>1, CommitHolds, HeldApart
  <2>3. UNCHANGED <<memory, relearned, edge>>
    BY <1>6 DEF CommitGraduation
  <2>4. ASSUME NEW l \in Lessons, l # m
        PROVE  V!Rules(l)' \subseteq V!Rules(l)
    <3>1. PICK status \in {"applied", "dismissed"} : V!Record(m, "graduate", status)
      BY <1>6 DEF CommitGraduation
    <3>2. "graduate" \in V!Bases
      BY DEF V!Bases
    <3> QED
      BY <1>0, <2>1, <2>4, <3>1, <3>2, RulesRecorded
  <2>5. PICK f : f \notin HoldsEdge(p)
    BY NoSetContainsEverything
  <2>6. op[p].verb = "write" /\ memory[op[p].second] = "absent" => op[p].second # m
    BY HeldApart
  <2> QED
    BY <2>2, <2>3, <2>4, <2>5, <2>6, LocalStep
<1>7. CASE RecountLessons(o)
  BY <1>7, RulesKept DEF RecountLessons, tables, Undisturbed
<1> QED
  BY <1>1, <1>2, <1>3, <1>4, <1>5, <1>6, <1>7 DEF Commit

\* A step that changes no table disturbs none.
LEMMA TablesKeptUndisturbed ==
  ASSUME UNCHANGED tables, NEW p \in Ops
  PROVE  Undisturbed(p)
BY RulesKept DEF tables, Undisturbed

\* A statement outside a transaction waits for the rows it changes, so it disturbs none.
LEMMA StatementUndisturbed ==
  ASSUME IInv, NEW p \in Ops,
         \/ \E e \in Edges : Dismiss(e)
         \/ \E l \in Lessons : Unpromote(l)
         \/ \E d \in Decisions : Direct(d)
         \/ \E o \in Ops, m \in Memories : Keep(o, m)
  PROVE  Undisturbed(p)
<1>0. V!TypeOK /\ AbsInv
  BY DEF IInv, TypeOK, AbsInv
<1>1. ASSUME NEW e \in Edges, Dismiss(e)
      PROVE  Undisturbed(p)
  <2>1. UNCHANGED <<memory, relearned, row>> /\ FreeEdge(e)
    BY <1>1 DEF Dismiss, V!Dismiss
  <2>2. \A f \in Edges : f # e => edge'[f] = edge[f]
    BY <1>0, <1>1, Types DEF Dismiss, V!Dismiss
  <2>3. e \notin HoldsEdge(p)
    BY <2>1 DEF FreeEdge
  <2>4. \A f \in HoldsEdge(p) : f \in Edges
    BY DEF IInv, Applying, HoldsEdge
  <2> QED
    BY <2>1, <2>2, <2>3, <2>4, RulesKept DEF Undisturbed
<1>2. ASSUME NEW l \in Lessons, Unpromote(l)
      PROVE  Undisturbed(p)
  <2> DEFINE S == V!Newest(V!Rules(l))
  <2>1. UNCHANGED <<memory, relearned, edge>> /\ row' = V!Resolved(S, "dismissed")
    BY <1>2 DEF Unpromote, V!Unpromote
  <2>2. S \in SUBSET Rows /\ \A r \in S : row[r] # V!NoRow
    BY DEF V!Newest, V!Rules, V!NoRow
  <2> HIDE DEF S
  <2>3. \A k \in Lessons : V!Rules(k)' \subseteq V!Rules(k)
    BY <1>0, <2>1, <2>2, RulesShrink
  <2> QED
    BY <2>1, <2>3 DEF Undisturbed
<1>3. ASSUME NEW d \in Decisions, Direct(d)
      PROVE  Undisturbed(p)
  <2>1. UNCHANGED <<relearned, row, edge>> /\ d \notin Holds(p) /\ V!Exists(d)
    BY <1>3 DEF Direct, V!Retract, V!Unretract, Free
  <2>2. \A n \in Memories : n # d => memory'[n] = memory[n]
    BY <1>0, <1>3, Types DEF Direct, V!Retract, V!Unretract
  <2>3. PICK f : f \notin HoldsEdge(p)
    BY NoSetContainsEverything
  <2>4. memory[op[p].second] = "absent" => op[p].second # d
    BY <2>1 DEF V!Exists
  <2> QED
    BY <2>1, <2>2, <2>3, <2>4, RulesKept, LocalStep
<1>4. ASSUME NEW o \in Ops, NEW m \in Memories, Keep(o, m)
      PROVE  Undisturbed(p)
  <2>1. UNCHANGED <<memory, relearned, edge>>
    BY <1>4 DEF Keep
  <2>2. \A l \in Lessons : V!Rules(l)' \subseteq V!Rules(l)
    BY <1>0, <1>4, OpenTargets, RulesShrink, RulesKept DEF Keep
  <2> QED
    BY <2>1, <2>2 DEF Undisturbed
<1> QED
  BY <1>1, <1>2, <1>3, <1>4

\* What a transaction relies on outlives the steps of others.
LEMMA StaysSound ==
  ASSUME IInv, MemoryGrows, NEW p \in Ops, Undisturbed(p),
         op'[p] = op[p], totals'[p] = totals[p],
         op[p].verb = "write" /\ memory[op[p].second] = "absent" =>
           \A q \in Ops : q # p => op'[q].second # op[p].second
  PROVE  Applying(p)' /\ Judging(p)' /\ Writing(p)' /\ Filing(p)' /\ Recounting(p)'
<1>0. Applying(p) /\ Judging(p) /\ Writing(p) /\ Filing(p) /\ Recounting(p) /\ V!TypeOK
  BY DEF IInv, TypeOK
<1>1. Applying(p)'
  <2>1. ASSUME op[p].verb = "apply", op[p].pc # "edge"
        PROVE  edge'[op[p].edge] = edge[op[p].edge]
    BY <1>0, <2>1 DEF Applying, HoldsEdge, At, Undisturbed
  <2>2. ASSUME op[p].verb = "apply", op[p].pc \in {"second", "commit"}
        PROVE  memory'[op[p].first] = "live"
    <3>1. op[p].first \in Memories
      BY <1>0, <2>2, Types DEF Applying, EdgeType, V!NoEdge
    <3>2. op[p].first \in Holds(p)
      BY <2>2, <3>1 DEF Holds, At
    <3> QED
      BY <1>0, <2>2, <3>2 DEF Applying, Undisturbed, V!Live
  <2> QED
    BY <1>0, <2>1, <2>2 DEF Applying, V!Live
<1>2. Judging(p)'
  <2>1. ASSUME At(p, "commit"), op[p].verb \in {"retire", "unretire", "apply", "promote", "reject"}
        PROVE  Meets(p)'
    <3>1. op[p].second \in Memories
      BY <1>0, <2>1, Types DEF Judging, Applying, At, EdgeType, V!NoEdge
    <3>2. op[p].second \in Holds(p)
      BY <2>1, <3>1, CommitHolds
    <3>3. memory'[op[p].second] = memory[op[p].second]
      BY <3>2 DEF Undisturbed
    <3>4. op[p].verb = "promote" => /\ relearned'[op[p].second] = relearned[op[p].second]
                                   /\ (V!Rules(op[p].second))' = {}
      <4>1. SUFFICES ASSUME op[p].verb = "promote"
                     PROVE  /\ relearned'[op[p].second] = relearned[op[p].second]
                            /\ (V!Rules(op[p].second))' = {}
        OBVIOUS
      <4>2. PICK l \in Lessons : l = op[p].second
        BY <1>0, <4>1 DEF Judging
      <4>3. relearned'[l] = relearned[l] /\ V!Rules(l)' \subseteq V!Rules(l) /\ V!Rules(l) = {}
        BY <1>0, <2>1, <3>2, <4>1, <4>2 DEF Undisturbed, Judging, Meets
      <4>4. V!Rules(l)' = (V!Rules(op[p].second))'
        BY <4>2 DEF V!Rules
      <4> QED
        BY <4>2, <4>3, <4>4
    <3> QED
      BY <1>0, <2>1, <3>3, <3>4 DEF Judging, Meets, V!Live
  <2>2. ASSUME At(p, "commit"), op[p].verb \notin {"retire", "unretire", "apply", "promote", "reject"}
        PROVE  Meets(p)'
    BY <2>2 DEF Meets
  <2> QED
    BY <1>0, <2>1, <2>2 DEF Judging, At
<1>3. Writing(p)'
  <2>1. ASSUME op[p].verb = "write"
        PROVE  /\ op[p].second \in Memories
               /\ op[p].first # None => op[p].first \in Memories /\ memory'[op[p].first] # "absent"
    BY <1>0, <2>1 DEF Writing, V!Citable, V!Exists, V!Memories, Memories, MemoryGrows
  <2>2. ASSUME op[p].verb = "write", memory'[op[p].second] = "absent"
        PROVE  memory[op[p].second] = "absent"
    BY <2>1, <2>2 DEF MemoryGrows, V!Exists
  <2> QED
    BY <1>0, <2>1, <2>2 DEF Writing, V!Citable, V!Exists, V!SameKind, Undisturbed, V!Memories, Memories
<1>4. Filing(p)'
  BY <1>0 DEF Filing, MemoryGrows, V!Exists, At
<1>5. Recounting(p)'
  BY <1>0 DEF Recounting, At
<1> QED
  BY <1>1, <1>2, <1>3, <1>4, <1>5

----------------------------------------------------------------------------
\* What a step of a session does to its own transaction.
OpRec ==
  [verb : {"none", "write", "propose", "keep", "retire", "unretire",
           "apply", "promote", "reject", "recount"},
   pc : {"idle", "insert", "edge", "first", "second", "commit", "decisions", "lessons"},
   first : Memories \cup {None}, second : Memories \cup {None},
   edge : Edges \cup {0}]

Sound(o) == Applying(o) /\ Judging(o) /\ Writing(o) /\ Filing(o) /\ Recounting(o)

\* A step of a session locks only what is free, and takes to nothing another one is
\* about to add.
Acts(o) ==
  /\ op'[o] \in OpRec
  /\ \A p \in Ops : p # o => op'[p] = op[p]
  /\ op' = [p \in Ops |-> op'[p]]
  /\ Sound(o)'
  /\ \A m \in Holds(o)' : m \in Holds(o) \/ Free(m)
  /\ \A e \in HoldsEdge(o)' : e \in HoldsEdge(o) \/ FreeEdge(e)
  /\ \/ op'[o].second \in {op[o].second, None}
     \/ memory[op'[o].second] # "absent"
     \/ \A p \in Ops : op[p].second # op'[o].second

\* What a session is at is a record of its verb, step, rows and citation.
LEMMA OpTypes ==
  ASSUME IInv
  PROVE  op \in [Ops -> OpRec]
BY DEF IInv, TypeOK, OpRec

\* A recount maps the memories it has counted to numbers.
LEMMA TotalsTypes ==
  ASSUME IInv
  PROVE  totals \in [Ops -> UNION {[K -> Nat] : K \in SUBSET Memories}]
<1>1. totals = [o \in Ops |-> totals[o]]
  BY DEF IInv, TypeOK
<1>2. \A o \in Ops : totals[o] \in UNION {[K -> Nat] : K \in SUBSET Memories}
  BY DEF IInv, TypeOK
<1> QED
  BY <1>1, <1>2

\* A session that ends its transaction releases its locks.
LEMMA Ends ==
  ASSUME IInv, NEW o \in Ops, End(o), DOMAIN (totals'[o]) = {}
  PROVE  Acts(o)
<1>1. op'[o] = Idle /\ op' = [p \in Ops |-> op'[p]] /\ \A p \in Ops : p # o => op'[p] = op[p]
  BY OpTypes DEF End
<1>2. Idle \in OpRec
  BY DEF Idle, OpRec
<1>3. Sound(o)'
  BY <1>1 DEF Idle, Sound, Applying, Judging, Writing, Filing, Recounting, At
<1>4. Holds(o)' = {} /\ HoldsEdge(o)' = {}
  BY <1>1 DEF Holds, HoldsEdge, At, Idle
<1> QED
  BY <1>1, <1>2, <1>3, <1>4 DEF Acts, Idle

\* A session that begins one holds nothing yet, and adds no memory another one adds.
LEMMA Starts ==
  ASSUME IInv, NEW o \in Ops, At(o, "idle"), totals'[o] = totals[o],
         NEW r \in OpRec, op' = [op EXCEPT ![o] = r],
         r.pc \in {"insert", "edge", "first", "second"},
         r.verb = "apply" => r.pc = "edge",
         r.pc = "second" => r.first = None,
         r.second = None \/ memory[r.second] # "absent" \/ \A p \in Ops : op[p].second # r.second,
         r.verb \notin {"none", "recount"},
         (Applying(o) /\ Judging(o) /\ Writing(o) /\ Filing(o))'
  PROVE  Acts(o)
<1>1. op'[o] = r /\ op' = [p \in Ops |-> op'[p]] /\ \A p \in Ops : p # o => op'[p] = op[p]
  BY OpTypes
<1>2. op[o] = Idle /\ DOMAIN totals[o] = {}
  BY DEF IInv, Recounting, Idle
<1>3. Recounting(o)'
  BY <1>1, <1>2 DEF Recounting, At
<1>5. Holds(o)' = {} /\ HoldsEdge(o)' = {}
  BY <1>1, KindsDiffer DEF Holds, HoldsEdge, At, Memories
<1> QED
  BY <1>1, <1>3, <1>5 DEF Acts, Sound

\* What Start assigns is well typed.
LEMMA StartTypes ==
  ASSUME NEW verb \in {"write", "propose", "keep", "retire", "unretire", "promote", "reject", "recount"},
         NEW pc \in {"insert", "first", "second", "decisions"},
         NEW first \in Memories \cup {None}, NEW second \in Memories \cup {None}
  PROVE  [verb |-> verb, pc |-> pc, first |-> first, second |-> second, edge |-> 0] \in OpRec
BY DEF OpRec

\* An agent's call begins soundly.
LEMMA AgentActs ==
  ASSUME IInv, MemoryGrows, NEW o \in Ops, AgentBegins(o)
  PROVE  Acts(o)
<1>1. ASSUME NEW m \in Memories, NEW c \in Memories \cup {None}, StartAdd(o, m, c)
      PROVE  Acts(o)
  <2> DEFINE r == [verb |-> "write", pc |-> IF c = None THEN "second" ELSE "first",
                  first |-> c, second |-> m, edge |-> 0]
  <2>1. r \in OpRec
    BY StartTypes
  <2>2. /\ op' = [op EXCEPT ![o] = r] /\ At(o, "idle") /\ totals'[o] = totals[o]
        /\ memory[m] = "absent" /\ \A p \in Ops : op[p].second # m
        /\ V!Citable(m, c) /\ UNCHANGED memory
    BY <1>1 DEF StartAdd, Start, tables
  <2>3. op'[o] = r /\ \A p \in Ops : p # o => op'[p] = op[p]
    BY <2>2, OpTypes
  <2>4. V!Citable(m, c)'
    BY <2>2 DEF V!Citable, V!Exists
  <2>5. (Applying(o) /\ Judging(o) /\ Writing(o) /\ Filing(o))'
    BY <2>2, <2>3, <2>4 DEF Applying, Judging, Writing, Filing, At
  <2> QED
    BY <2>1, <2>2, <2>5, Starts
<1>2. ASSUME NEW l \in Lessons, NEW c \in Lessons \cup {None}, StartFold(o, l, c)
      PROVE  Acts(o)
  <2> DEFINE r == [verb |-> "write", pc |-> IF c = None THEN "second" ELSE "first",
                  first |-> c, second |-> l, edge |-> 0]
  <2>1. r \in OpRec /\ l \in Memories
    BY StartTypes DEF Memories
  <2>2. /\ op' = [op EXCEPT ![o] = r] /\ At(o, "idle") /\ totals'[o] = totals[o]
        /\ memory[l] = "live" /\ V!Citable(l, c) /\ UNCHANGED memory
    BY <1>2 DEF StartFold, Start, tables, V!Live
  <2>3. op'[o] = r /\ \A p \in Ops : p # o => op'[p] = op[p]
    BY <2>2, OpTypes
  <2>4. V!Citable(l, c)'
    BY <2>2 DEF V!Citable, V!Exists
  <2>5. (Applying(o) /\ Judging(o) /\ Writing(o) /\ Filing(o))'
    BY <2>1, <2>2, <2>3, <2>4, KindsDiffer DEF Applying, Judging, Writing, Filing, At
  <2> QED
    BY <2>1, <2>2, <2>5, Starts
<1>3. ASSUME NEW d \in Decisions, StartPropose(o, d)
      PROVE  Acts(o)
  <2> DEFINE r == [verb |-> "propose", pc |-> "insert", first |-> None, second |-> d, edge |-> 0]
  <2>1. r \in OpRec /\ d \in Memories
    BY StartTypes DEF Memories
  <2>2. /\ op' = [op EXCEPT ![o] = r] /\ At(o, "idle") /\ totals'[o] = totals[o]
        /\ memory[d] = "live" /\ UNCHANGED memory
    BY <1>3 DEF StartPropose, Start, tables, V!Live
  <2>3. op'[o] = r
    BY <2>2, OpTypes
  <2>4. (Applying(o) /\ Judging(o) /\ Writing(o) /\ Filing(o))'
    BY <2>1, <2>2, <2>3 DEF Applying, Judging, Writing, Filing, At, V!Exists
  <2> QED
    BY <2>1, <2>2, <2>4, Starts
<1> QED
  BY <1>1, <1>2, <1>3 DEF AgentBegins

\* So does an operator's verdict.
LEMMA OperatorActs ==
  ASSUME IInv, MemoryGrows, NEW o \in Ops, OperatorBegins(o)
  PROVE  Acts(o)
<1>1. ASSUME NEW m \in Memories, Keep(o, m)
      PROVE  Acts(o)
  <2>1. CASE UNCHANGED op
    <3>1. Sound(o)
      BY DEF IInv, Sound
    <3>2. op[o] = Idle /\ UNCHANGED totals
      BY <1>1 DEF Keep, IInv, Recounting
    <3>3. DOMAIN totals[o] = {}
      BY <3>2 DEF IInv, Recounting, Idle
    <3>4. DOMAIN (totals'[o]) = {}
      BY <3>2, <3>3
    <3>5. End(o)
      BY <2>1, <3>2, OpTypes DEF End
    <3> QED
      BY <3>4, <3>5, Ends
  <2>2. CASE Start(o, "keep", "insert", None, m)
    <3> DEFINE r == [verb |-> "keep", pc |-> "insert", first |-> None, second |-> m, edge |-> 0]
    <3>1. r \in OpRec
      BY StartTypes
    <3>2. /\ op' = [op EXCEPT ![o] = r] /\ At(o, "idle") /\ totals'[o] = totals[o]
          /\ memory[m] # "absent" /\ UNCHANGED memory
      BY <1>1, <2>2 DEF Keep, Start, V!Exists
    <3>3. op'[o] = r
      BY <3>2, OpTypes
    <3>4. (Applying(o) /\ Judging(o) /\ Writing(o) /\ Filing(o))'
      BY <3>2, <3>3 DEF Applying, Judging, Writing, Filing, At, V!Exists
    <3> QED
      BY <3>1, <3>2, <3>4, Starts
  <2> QED
    BY <1>1, <2>1, <2>2 DEF Keep
<1>2. CASE StartVerdict(o)
  <2>1. PICK verb \in {"retire", "unretire", "promote", "reject"}, m \in Memories :
          /\ V!Exists(m) /\ Start(o, verb, "second", None, m)
          /\ verb \in {"promote", "reject"} => m \in Lessons
    BY <1>2 DEF StartVerdict, Memories
  <2> DEFINE r == [verb |-> verb, pc |-> "second", first |-> None, second |-> m, edge |-> 0]
  <2>2. r \in OpRec
    BY StartTypes
  <2>3. /\ op' = [op EXCEPT ![o] = r] /\ At(o, "idle") /\ totals'[o] = totals[o]
        /\ memory[m] # "absent" /\ UNCHANGED memory
    BY <1>2, <2>1 DEF StartVerdict, Start, V!Exists, tables
  <2>4. op'[o] = r
    BY <2>3, OpTypes
  <2>5. (Applying(o) /\ Judging(o) /\ Writing(o) /\ Filing(o))'
    BY <2>1, <2>4 DEF Applying, Judging, Writing, Filing, At
  <2> QED
    BY <2>2, <2>3, <2>5, Starts
<1>3. ASSUME NEW e \in Edges, StartApply(o, e)
      PROVE  Acts(o)
  <2> DEFINE r == [Idle EXCEPT !.verb = "apply", !.pc = "edge", !.edge = e]
  <2>1. /\ r \in OpRec /\ r.verb = "apply" /\ r.pc = "edge" /\ r.edge = e
        /\ r.first = None /\ r.second = None
    BY DEF OpRec, Idle
  <2>2. op' = [op EXCEPT ![o] = r] /\ At(o, "idle") /\ totals'[o] = totals[o]
    BY <1>3 DEF StartApply
  <2> HIDE DEF r
  <2>3. op'[o] = r
    BY <2>2, OpTypes
  <2>4. (Applying(o) /\ Judging(o) /\ Writing(o) /\ Filing(o))'
    BY <2>1, <2>3 DEF Applying, Judging, Writing, Filing, At
  <2> QED
    BY <2>1, <2>2, <2>4, Starts
<1> QED
  BY <1>1, <1>2, <1>3 DEF OperatorBegins

\* Goto changes the step of one session and nothing else.
LEMMA Goes ==
  ASSUME IInv, NEW o \in Ops, NEW pc \in {"second", "commit", "lessons"}, Goto(o, pc)
  PROVE  /\ op'[o] \in OpRec
         /\ op'[o].pc = pc /\ op'[o].verb = op[o].verb /\ op'[o].edge = op[o].edge
         /\ op'[o].first = op[o].first /\ op'[o].second = op[o].second
         /\ \A p \in Ops : p # o => op'[p] = op[p]
         /\ op' = [p \in Ops |-> op'[p]]
BY OpTypes DEF Goto, OpRec

\* The citation a supersession locks is free, proposed, and names two memories.
LEMMA LockEdgeActs ==
  ASSUME IInv, NEW o \in Ops, LockEdge(o)
  PROVE  Acts(o)
<1>0. Sound(o) /\ op \in [Ops -> OpRec]
  BY OpTypes DEF IInv, Sound
<1>1. UNCHANGED tables /\ totals'[o] = totals[o] /\ At(o, "edge") /\ FreeEdge(op[o].edge)
  BY DEF LockEdge
<1>2. DOMAIN totals[o] = {}
  BY <1>0, <1>1 DEF Sound, Recounting, At
<1>3. CASE End(o)
  BY <1>1, <1>2, <1>3, Ends
<1>4. CASE ~ End(o)
  <2> DEFINE f == op[o].edge
             r == [op[o] EXCEPT !.pc = "first", !.first = edge[f].citing, !.second = edge[f].cited]
  <2>1. edge[f].status = "proposed" /\ op' = [op EXCEPT ![o] = r]
    BY <1>0, <1>4 DEF LockEdge
  <2>2. op'[o] = r /\ op' = [p \in Ops |-> op'[p]] /\ \A p \in Ops : p # o => op'[p] = op[p]
    BY <1>0, <2>1
  <2>3. CASE op[o].verb = "apply"
    <3>1. f \in Edges
      BY <1>0, <2>3 DEF Sound, Applying
    <3>2. edge[f].citing \in Memories /\ edge[f].cited \in Memories /\ edge[f] # V!NoEdge
      BY <2>1, <3>1, Types DEF IInv, TypeOK, EdgeType, V!NoEdge
    <3>3. memory[edge[f].cited] # "absent"
      BY <3>1, <3>2 DEF IInv, EdgesSound, V!Exists
    <3>4. /\ r \in OpRec /\ r.pc = "first" /\ r.verb = "apply" /\ r.edge = f
          /\ r.first = edge[f].citing /\ r.second = edge[f].cited
      BY <1>0, <2>3, <3>2 DEF OpRec
    <3> HIDE DEF r
    <3>5. Sound(o)'
      BY <1>1, <1>2, <2>1, <2>2, <3>1, <3>4
      DEF Sound, Applying, Judging, Writing, Filing, Recounting, At, tables
    <3>6. Holds(o)' = {} /\ HoldsEdge(o)' = {f}
      BY <2>2, <3>4 DEF Holds, HoldsEdge, At
    <3> QED
      BY <1>1, <2>2, <3>3, <3>4, <3>5, <3>6 DEF Acts
  <2>4. CASE op[o].verb # "apply"
    <3>1. op[o].verb = "none"
      BY <1>0, <1>1, <2>4 DEF Sound, Judging, Writing, Filing, Recounting, At, OpRec
    <3> QED
      BY <1>0, <1>1, <3>1 DEF Sound, Recounting, At, Idle
  <2> QED
    BY <2>3, <2>4
<1> QED
  BY <1>3, <1>4

\* The first row a transaction locks is free, and live where the verdict asks for it.
LEMMA LockFirstActs ==
  ASSUME IInv, NEW o \in Ops, LockFirst(o)
  PROVE  Acts(o)
<1>0. Sound(o)
  BY DEF IInv, Sound
<1>1. UNCHANGED tables /\ totals'[o] = totals[o] /\ At(o, "first") /\ Free(op[o].first)
  BY DEF LockFirst
<1>2. DOMAIN totals[o] = {}
  BY <1>0, <1>1 DEF Sound, Recounting, At
<1>3. CASE End(o)
  BY <1>1, <1>2, <1>3, Ends
<1>4. CASE (op[o].verb = "apply" => V!Live(op[o].first)) /\ Goto(o, "second")
  <2>1. /\ op'[o] \in OpRec
        /\ op'[o].pc = "second" /\ op'[o].verb = op[o].verb /\ op'[o].edge = op[o].edge
        /\ op'[o].first = op[o].first /\ op'[o].second = op[o].second
        /\ \A p \in Ops : p # o => op'[p] = op[p]
        /\ op' = [p \in Ops |-> op'[p]]
    BY <1>4, Goes
  <2>2. Applying(o)'
    BY <1>0, <1>1, <1>4, <2>1 DEF Sound, Applying, At, tables, V!Live
  <2>3. Writing(o)'
    BY <1>0, <1>1, <2>1 DEF Sound, Writing, At, tables, V!Citable, V!Exists, V!SameKind
  <2>4. Judging(o)' /\ Filing(o)' /\ Recounting(o)'
    BY <1>0, <1>1, <1>2, <2>1 DEF Sound, Judging, Filing, Recounting, At, Idle
  <2>5. Holds(o)' \subseteq {op[o].first}
    BY <2>1 DEF Holds, At
  <2>6. HoldsEdge(o)' = HoldsEdge(o)
    BY <1>1, <2>1 DEF HoldsEdge, At
  <2> QED
    BY <1>1, <2>1, <2>2, <2>3, <2>4, <2>5, <2>6 DEF Acts, Sound
<1> QED
  BY <1>3, <1>4 DEF LockFirst

\* The last row it locks is free and meets what the verdict asks.
LEMMA LockSecondActs ==
  ASSUME IInv, NEW o \in Ops, LockSecond(o)
  PROVE  Acts(o)
<1>0. Sound(o)
  BY DEF IInv, Sound
<1>1. UNCHANGED tables /\ totals'[o] = totals[o] /\ At(o, "second") /\ Free(op[o].second)
  BY DEF LockSecond
<1>2. DOMAIN totals[o] = {}
  BY <1>0, <1>1 DEF Sound, Recounting, At
<1>3. CASE End(o)
  BY <1>1, <1>2, <1>3, Ends
<1>4. CASE Meets(o) /\ Goto(o, "commit")
  <2>1. /\ op'[o] \in OpRec
        /\ op'[o].pc = "commit" /\ op'[o].verb = op[o].verb /\ op'[o].edge = op[o].edge
        /\ op'[o].first = op[o].first /\ op'[o].second = op[o].second
        /\ \A p \in Ops : p # o => op'[p] = op[p]
        /\ op' = [p \in Ops |-> op'[p]]
    BY <1>4, Goes
  <2>2. Applying(o)'
    BY <1>0, <1>1, <2>1 DEF Sound, Applying, At, tables, V!Live
  <2>3. Writing(o)'
    BY <1>0, <1>1, <2>1 DEF Sound, Writing, At, tables, V!Citable, V!Exists, V!SameKind
  <2>4. Judging(o)'
    BY <1>0, <1>1, <1>4, <2>1 DEF Sound, Judging, Meets, At, tables, V!Live, V!Rules
  <2>5. Filing(o)' /\ Recounting(o)'
    BY <1>0, <1>1, <1>2, <2>1 DEF Sound, Filing, Recounting, At, Idle
  <2>6. \A m \in Holds(o)' : m \in Holds(o) \/ m = op[o].second
    BY <1>1, <2>1 DEF Holds, At
  <2>7. HoldsEdge(o)' = HoldsEdge(o)
    BY <1>1, <2>1 DEF HoldsEdge, At
  <2> QED
    BY <1>1, <2>1, <2>2, <2>3, <2>4, <2>5, <2>6, <2>7 DEF Acts, Sound
<1> QED
  BY <1>3, <1>4 DEF LockSecond

\* A transaction that is rolled back leaves nothing behind.
LEMMA AbortActs ==
  ASSUME IInv, NEW o \in Ops, Abort(o)
  PROVE  Acts(o)
<1>1. totals \in [Ops -> UNION {[K -> Nat] : K \in SUBSET Memories}]
  BY TotalsTypes
<1>2. End(o) /\ totals'[o] = Nothing
  BY <1>1 DEF Abort
<1>3. DOMAIN Nothing = {}
  BY DEF Nothing
<1> QED
  BY <1>2, <1>3, Ends

\* A transaction that commits leaves its session idle.
LEMMA CommitActs ==
  ASSUME IInv, NEW o \in Ops, Commit(o)
  PROVE  Acts(o)
<1>0. Recounting(o) /\ totals \in [Ops -> UNION {[K -> Nat] : K \in SUBSET Memories}]
  BY TotalsTypes DEF IInv
<1>1. End(o)
  BY DEF Commit, Insert, CommitWrite, CommitRetire, CommitUnretire, CommitApply, CommitGraduation,
         RecountLessons
<1>2. CASE RecountLessons(o)
  <2>1. totals'[o] = Nothing
    BY <1>0, <1>2 DEF RecountLessons
  <2>2. DOMAIN Nothing = {}
    BY DEF Nothing
  <2> QED
    BY <1>1, <2>1, <2>2, Ends
<1>3. CASE ~ RecountLessons(o)
  <2>1. op[o].pc \in {"insert", "commit"} /\ totals' = totals
    BY <1>3 DEF Commit, Insert, CommitWrite, CommitRetire, CommitUnretire, CommitApply,
                CommitGraduation, Committing, At
  <2>2. DOMAIN (totals'[o]) = {}
    BY <1>0, <2>1 DEF Recounting
  <2> QED
    BY <1>1, <2>2, Ends
<1> QED
  BY <1>2, <1>3

\* The counts of a recount.
LEMMA Counted ==
  ASSUME IInv, NEW o \in Ops, NEW K \in SUBSET Memories
  PROVE  /\ Count(o, K) \in UNION {[L -> Nat] : L \in SUBSET Memories}
         /\ DOMAIN Count(o, K) \subseteq DOMAIN totals[o] \cup K
<1> DEFINE L == DOMAIN totals[o] \cup {n \in K : V!Exists(n)}
<1>1. PICK D \in SUBSET Memories : totals[o] \in [D -> Nat]
  BY DEF IInv, TypeOK
<1>2. ASSUME NEW m \in L
      PROVE  (IF m \in K THEN Cardinality({e \in Edges : edge[e].cited = m}) ELSE totals[o][m]) \in Nat
  <2>1. Cardinality({e \in Edges : edge[e].cited = m}) \in Nat
    BY RowsNumbered, FS_Subset, FS_CardinalityType
  <2> QED
    BY <1>1, <2>1
<1>3. Count(o, K) \in [L -> Nat]
  BY <1>2 DEF Count
<1>4. L \in SUBSET Memories
  BY <1>1
<1> QED
  BY <1>3, <1>4

\* A recount locks decisions only once they are free, and counts only what exists.
LEMMA RecountActs ==
  ASSUME IInv, NEW o \in Ops, StartRecount(o) \/ RecountDecisions(o)
  PROVE  Acts(o)
<1>0. Sound(o) /\ totals \in [Ops -> UNION {[K -> Nat] : K \in SUBSET Memories}]
  BY TotalsTypes DEF IInv, Sound
<1>1. CASE StartRecount(o)
  <2> DEFINE r == [verb |-> "recount", pc |-> "decisions", first |-> None, second |-> None, edge |-> 0]
  <2>1. r \in OpRec
    BY StartTypes
  <2>2. op' = [op EXCEPT ![o] = r] /\ At(o, "idle") /\ totals'[o] = Count(o, Decisions)
    BY <1>0, <1>1 DEF StartRecount, Start
  <2>3. op'[o] = r /\ op' = [p \in Ops |-> op'[p]] /\ \A p \in Ops : p # o => op'[p] = op[p]
    BY <2>2, OpTypes
  <2>4. DOMAIN totals[o] = {}
    BY <1>0, <2>2 DEF Sound, Recounting, Idle
  <2>5. DOMAIN (totals'[o]) \subseteq Decisions
    BY <2>2, <2>4, Counted DEF Memories
  <2>6. Sound(o)'
    BY <2>3, <2>5 DEF Sound, Applying, Judging, Writing, Filing, Recounting, At
  <2>7. Holds(o)' = {} /\ HoldsEdge(o)' = {}
    BY <2>3 DEF Holds, HoldsEdge, At
  <2> QED
    BY <2>1, <2>3, <2>6, <2>7 DEF Acts
<1>2. CASE RecountDecisions(o)
  <2>1. At(o, "decisions") /\ Goto(o, "lessons") /\ totals'[o] = Count(o, Lessons)
    BY <1>0, <1>2 DEF RecountDecisions
  <2>2. /\ op'[o] \in OpRec
        /\ op'[o].pc = "lessons" /\ op'[o].verb = op[o].verb /\ op'[o].edge = op[o].edge
        /\ op'[o].first = op[o].first /\ op'[o].second = op[o].second
        /\ \A p \in Ops : p # o => op'[p] = op[p]
        /\ op' = [p \in Ops |-> op'[p]]
    BY <2>1, Goes
  <2>3. op[o].verb = "recount"
    BY <1>0, <2>1 DEF Sound, Recounting, At
  <2>4. Sound(o)'
    BY <2>2, <2>3 DEF Sound, Applying, Judging, Writing, Filing, Recounting, At
  <2>5. DOMAIN (totals'[o]) \subseteq DOMAIN totals[o] \cup Lessons
    BY <2>1, Counted DEF Memories
  <2>6. \A m \in Holds(o)' : m \in DOMAIN totals[o]
    BY <2>2, <2>5, KindsDiffer DEF Holds, At
  <2>7. \A m \in DOMAIN totals[o] : Free(m)
    BY <1>2 DEF RecountDecisions
  <2>8. HoldsEdge(o)' = {}
    BY <2>2, <2>3 DEF HoldsEdge
  <2> QED
    BY <2>2, <2>4, <2>6, <2>7, <2>8 DEF Acts
<1> QED
  BY <1>1, <1>2

----------------------------------------------------------------------------
\* A memory about to be added stays the business of one session.
LEMMA StartAbsent ==
  ASSUME IInv, NEW o \in Ops, Acts(o), NEW p \in Ops, p # o,
         op[p].verb = "write", memory[op[p].second] = "absent"
  PROVE  \A q \in Ops : q # p => op'[q].second # op[p].second
<1>1. op[p].second \in Memories /\ \A q \in Ops : q # p => op[q].second # op[p].second
  BY DEF IInv, Writing
<1>2. op'[o].second # op[p].second
  BY <1>1, KindsDiffer DEF Acts, Memories
<1> QED
  BY <1>1, <1>2 DEF Acts

\* A step of a session gives no lock a second owner.
LEMMA ExclusiveStep ==
  ASSUME IInv, NEW o \in Ops, Acts(o), \A p \in Ops : p # o => totals'[p] = totals[p]
  PROVE  Exclusive'
<1>1. ASSUME NEW p \in Ops, p # o
      PROVE  Holds(p)' = Holds(p) /\ HoldsEdge(p)' = HoldsEdge(p)
  BY <1>1 DEF Acts, Holds, HoldsEdge, At
<1>2. ASSUME NEW p \in Ops, p # o
      PROVE  Holds(o)' \cap Holds(p) = {} /\ HoldsEdge(o)' \cap HoldsEdge(p) = {}
  BY <1>2 DEF Acts, IInv, Exclusive, Free, FreeEdge
<1>3. \A p, q \in Ops : p # q => Holds(p) \cap Holds(q) = {} /\ HoldsEdge(p) \cap HoldsEdge(q) = {}
  BY DEF IInv, Exclusive
<1>4. ASSUME NEW p \in Ops, NEW q \in Ops, p # q
      PROVE  Holds(p)' \cap Holds(q)' = {} /\ HoldsEdge(p)' \cap HoldsEdge(q)' = {}
  <2>1. CASE p = o
    BY <1>1, <1>2, <1>4, <2>1
  <2>2. CASE q = o
    BY <1>1, <1>2, <1>4, <2>2
  <2>3. CASE p # o /\ q # o
    BY <1>1, <1>3, <1>4, <2>3
  <2> QED
    BY <2>1, <2>2, <2>3
<1> QED
  BY <1>4 DEF Exclusive

\* What session o does.
Session(o) ==
  \/ AgentBegins(o) \/ OperatorBegins(o) \/ StartRecount(o) \/ Lock(o) \/ Commit(o) \/ Abort(o)

\* What happens in one statement.
Statement ==
  \/ \E e \in Edges : Dismiss(e)
  \/ \E l \in Lessons : Unpromote(l)
  \/ \E d \in Decisions : Direct(d)

CountersTyped ==
  /\ cited \in [Memories -> Nat]
  /\ totals = [o \in Ops |-> totals[o]]
  /\ \A o \in Ops : \E K \in SUBSET Memories : totals[o] \in [K -> Nat]

\* Counters and counts stay numbers.
LEMMA CountersStep ==
  ASSUME IInv, NEW o \in Ops, Session(o)
  PROVE  CountersTyped' /\ \A p \in Ops : p # o => totals'[p] = totals[p]
<1> DEFINE Totals == UNION {[K -> Nat] : K \in SUBSET Memories}
<1>0. totals \in [Ops -> Totals] /\ cited \in [Memories -> Nat]
  BY TotalsTypes DEF IInv, TypeOK
<1>1. Nothing \in Totals
  <2>1. Nothing \in [{} -> Nat]
    BY DEF Nothing
  <2> QED
    BY <2>1
<1>2. totals' = totals \/ \E t \in Totals : totals' = [totals EXCEPT ![o] = t]
  <2>1. CASE AgentBegins(o) \/ OperatorBegins(o)
    BY <2>1 DEF AgentBegins, StartAdd, StartFold, StartPropose, OperatorBegins, Keep, StartVerdict, StartApply
  <2>2. CASE StartRecount(o)
    BY <2>2, Counted DEF StartRecount, Memories
  <2>3. CASE RecountDecisions(o)
    BY <2>3, Counted DEF RecountDecisions, Memories
  <2>4. CASE RecountLessons(o) \/ Abort(o)
    BY <1>1, <2>4 DEF RecountLessons, Abort
  <2>5. CASE LockEdge(o) \/ LockFirst(o) \/ LockSecond(o)
    BY <2>5 DEF LockEdge, LockFirst, LockSecond
  <2>6. CASE Commit(o) /\ ~ RecountLessons(o)
    BY <2>6 DEF Commit, Insert, CommitWrite, CommitRetire, CommitUnretire, CommitApply, CommitGraduation
  <2> QED
    BY <2>1, <2>2, <2>3, <2>4, <2>5, <2>6 DEF Session, Lock
<1>3. totals' \in [Ops -> Totals] /\ \A p \in Ops : p # o => totals'[p] = totals[p]
  BY <1>0, <1>2
<1>4. cited' \in [Memories -> Nat]
  <2>1. CASE UNCHANGED cited
    BY <1>0, <2>1
  <2>2. CASE CommitWrite(o)
    BY <1>0, <2>2 DEF CommitWrite
  <2>3. CASE RecountLessons(o)
    <3>1. \A m \in DOMAIN totals[o] : totals[o][m] \in Nat
      BY <1>0
    <3> QED
      BY <1>0, <2>3, <3>1 DEF RecountLessons
  <2> QED
    BY <2>1, <2>2, <2>3 DEF Session, AgentBegins, StartAdd, StartFold, StartPropose, OperatorBegins, Keep,
      StartVerdict, StartApply, StartRecount, Lock, LockEdge, LockFirst, LockSecond, RecountDecisions,
      Commit, Insert, CommitRetire, CommitUnretire, CommitApply, CommitGraduation, Abort
<1> QED
  BY <1>3, <1>4 DEF CountersTyped

\* Every step of a session is sound for the session itself,
LEMMA SessionActs ==
  ASSUME IInv, MemoryGrows, NEW o \in Ops, Session(o)
  PROVE  Acts(o)
BY AgentActs, OperatorActs, RecountActs, LockEdgeActs, LockFirstActs, LockSecondActs, CommitActs, AbortActs
DEF Session, Lock

\* and disturbs no other.
LEMMA SessionUndisturbed ==
  ASSUME IInv, NEW o \in Ops, Session(o), NEW p \in Ops, p # o
  PROVE  Undisturbed(p)
<1>1. CASE OperatorBegins(o)
  <2>1. CASE \E m \in Memories : Keep(o, m)
    BY <2>1, StatementUndisturbed
  <2>2. CASE ~ \E m \in Memories : Keep(o, m)
    BY <1>1, <2>2, StartsChangeNothing, TablesKeptUndisturbed DEF OperatorBegins
  <2> QED
    BY <2>1, <2>2
<1>2. CASE ~ OperatorBegins(o)
  BY <1>2, StartsChangeNothing, LocksChangeNothing, CommitUndisturbed, TablesKeptUndisturbed DEF Session
<1> QED
  BY <1>1, <1>2

\* Every step preserves the invariant.
LEMMA InvStep ==
  ASSUME IInv, [Next]_vars
  PROVE  IInv'
<1>0. AbsInv
  BY DEF IInv, TypeOK, AbsInv
<1>1. ASSUME Next
      PROVE  IInv'
  <2>1. V!Next \/ UNCHANGED tables
    BY <1>1, StepImplements
  <2>2. AbsInv' /\ MemoryGrows
    <3>1. CASE V!Next
      BY <1>0, <3>1, AbstractStep DEF AbsStep
    <3>2. CASE UNCHANGED tables
      <4>1. UNCHANGED <<memory, relearned, row, edge>>
        BY <3>2 DEF tables
      <4> QED
        BY <1>0, <4>1, RowsKept, EdgesKept, Unmoved, ByParts DEF AbsStep
    <3> QED
      BY <2>1, <3>1, <3>2
  <2>3. CASE \E o \in Ops : Session(o)
    <3>1. PICK o \in Ops : Session(o)
      BY <2>3
    <3>2. Acts(o)
      BY <2>2, <3>1, SessionActs
    <3>3. CountersTyped' /\ \A p \in Ops : p # o => totals'[p] = totals[p]
      BY <3>1, CountersStep
    <3>4. ASSUME NEW p \in Ops, p # o
          PROVE  Sound(p)'
      <4>1. Undisturbed(p)
        BY <3>1, <3>4, SessionUndisturbed
      <4>2. op'[p] = op[p] /\ totals'[p] = totals[p]
        BY <3>2, <3>3, <3>4 DEF Acts
      <4>3. op[p].verb = "write" /\ memory[op[p].second] = "absent" =>
              \A q \in Ops : q # p => op'[q].second # op[p].second
        BY <3>2, <3>4, StartAbsent
      <4> QED
        BY <2>2, <4>1, <4>2, <4>3, StaysSound DEF Sound
    <3>5. Exclusive'
      BY <3>2, <3>3, ExclusiveStep
    <3>6. op' \in [Ops -> OpRec]
      <4>1. \A p \in Ops : op'[p] \in OpRec
        BY <3>2, OpTypes DEF Acts
      <4> QED
        BY <3>2, <4>1 DEF Acts
    <3>7. \A p \in Ops : Sound(p)'
      BY <3>2, <3>4 DEF Acts
    <3> QED
      BY <2>2, <3>3, <3>5, <3>6, <3>7 DEF IInv, TypeOK, AbsInv, CountersTyped, OpRec, Sound
  <2>4. CASE Statement
    <3>1. UNCHANGED <<cited, op, totals>>
      BY <2>4 DEF Statement, Dismiss, Unpromote, Direct
    <3>2. ASSUME NEW p \in Ops
          PROVE  Sound(p)'
      <4>1. Undisturbed(p)
        BY <2>4, StatementUndisturbed DEF Statement
      <4>2. op[p].verb = "write" /\ memory[op[p].second] = "absent" =>
              \A q \in Ops : q # p => op'[q].second # op[p].second
        BY <3>1 DEF IInv, Writing
      <4> QED
        BY <2>2, <3>1, <4>1, <4>2, StaysSound DEF Sound
    <3>3. Exclusive'
      BY <3>1 DEF IInv, Exclusive, Holds, HoldsEdge, At
    <3> QED
      BY <2>2, <3>1, <3>2, <3>3 DEF IInv, TypeOK, AbsInv, Sound
  <2> QED
    BY <1>1, <2>3, <2>4 DEF Next, Session, Statement, Ops
<1>2. ASSUME UNCHANGED vars
      PROVE  IInv'
  <2>1. UNCHANGED <<memory, relearned, cited, row, edge, op, totals>>
    BY <1>2 DEF vars
  <2> QED
    BY <2>1
    DEF IInv, TypeOK, RowsSound, EdgesSound, Exclusive, Applying, Judging, Writing, Filing, Recounting,
        V!TypeOK, V!Rules, V!OpenRows, V!Exists, V!Live, V!Citable, V!SameKind, Meets, Holds, HoldsEdge, At
<1> QED
  BY <1>1, <1>2

\* It holds at the start,
LEMMA InvInit ==
  Init => IInv
<1> SUFFICES ASSUME Init
             PROVE  IInv
  OBVIOUS
<1>1. /\ memory = [m \in Memories |-> "absent"] /\ relearned = [l \in Lessons |-> 0]
      /\ row = [r \in Rows |-> V!NoRow] /\ edge = [e \in Edges |-> V!NoEdge]
      /\ cited = [m \in Memories |-> 0] /\ op = [o \in Ops |-> Idle]
      /\ totals = [o \in Ops |-> Nothing]
  BY DEF Init, V!Init, V!Memories, Memories
<1>2. V!TypeOK
  BY <1>1, ThresholdTyped, Types DEF EdgeType
<1>3. RowsSound /\ EdgesSound
  BY <1>1 DEF RowsSound, EdgesSound, V!Rules, V!OpenRows, V!NoRow
<1>4. \A o \in Ops : op[o] = Idle /\ totals[o] = Nothing
  BY <1>1
<1>5. Nothing \in [{} -> Nat] /\ DOMAIN Nothing = {}
  BY DEF Nothing
<1>6. Idle \in OpRec
  BY DEF Idle, OpRec
<1>7. CountersTyped
  BY <1>1, <1>4, <1>5 DEF CountersTyped
<1>8. Exclusive
  BY <1>4 DEF Exclusive, Holds, HoldsEdge, At, Idle
<1>9. \A o \in Ops : Applying(o) /\ Judging(o) /\ Writing(o) /\ Filing(o) /\ Recounting(o)
  BY <1>4, <1>5 DEF Applying, Judging, Writing, Filing, Recounting, At, Idle
<1>10. op \in [Ops -> OpRec]
  BY <1>1, <1>6
<1> QED
  BY <1>2, <1>3, <1>7, <1>8, <1>9, <1>10 DEF IInv, TypeOK, CountersTyped, OpRec

\* and so always.
LEMMA Inductive ==
  Spec => []IInv
BY InvInit, InvStep, PTL DEF Spec

----------------------------------------------------------------------------
\* The state stays within the schema and a transaction within its verbs and steps.
THEOREM TypeCorrect ==
  Spec => []TypeOK
<1>1. IInv => TypeOK
  BY DEF IInv
<1> QED
  BY <1>1, Inductive, PTL

\* Whatever transactions run at once, a lesson is one rule at most.  curationPromote
THEOREM OneRuleAlways ==
  Spec => []OneRule
<1>1. IInv => OneRule
  BY DEF IInv, RowsSound, OneRule, V!OneRule
<1> QED
  BY <1>1, Inductive, PTL

\* Whatever transactions run at once, one question about a memory is open at most.
\* retractFromAgent, curationUnretire
THEOREM OneOpenQuestionAlways ==
  Spec => []OneOpenQuestion
<1>1. IInv => OneOpenQuestion
  BY DEF IInv, RowsSound, OneOpenQuestion, V!OneOpenQuestion, V!Memories, Memories
<1> QED
  BY <1>1, Inductive, PTL

\* The transactions, with the locks they take and what they look at again once they
\* have them, implement the indivisible writes and verdicts of Verdicts.
\* curationRetire, curationUnretire, curationApply, curationPromote, curationReject
THEOREM Atomic ==
  Spec => AtomicVerdicts
<1>1. Init => V!Init
  BY DEF Init
<1>2. IInv /\ [Next]_vars => [V!Next]_(V!vars)
  <2> SUFFICES ASSUME IInv, [Next]_vars
               PROVE  V!Next \/ UNCHANGED V!vars
    OBVIOUS
  <2>1. CASE Next
    BY <2>1, StepImplements DEF tables, V!vars
  <2>2. CASE UNCHANGED vars
    BY <2>2 DEF vars, V!vars
  <2> QED
    BY <2>1, <2>2
<1> QED
  BY <1>1, <1>2, Inductive, PTL DEF Spec, AtomicVerdicts, V!Spec
----------------------------------------------------------------------------
Citing(m) == {e \in Edges : edge[e].cited = m}

\* A statement that changes nothing a citation cites leaves the numbers of citations.
LEMMA CitingKept ==
  ASSUME \A e \in Edges : edge'[e].cited = edge[e].cited
  PROVE  \A m \in Memories : Cardinality(Citing(m))' = Cardinality(Citing(m))
<1>1. ASSUME NEW m \in Memories PROVE Citing(m)' = Citing(m)
  BY DEF Citing
<1> QED
  BY <1>1

\* A citation that is answered cites what it cited.
LEMMA AnsweredCites ==
  ASSUME IInv, NEW e \in Edges, NEW status, edge' = [edge EXCEPT ![e].status = status]
  PROVE  \A f \in Edges : edge'[f].cited = edge[f].cited
<1>1. edge \in [Edges -> EdgeType]
  BY Types DEF IInv, TypeOK
<1>2. edge[e] \in EdgeType /\ edge'[e] = [edge[e] EXCEPT !.status = status]
  BY <1>1
<1>3. edge'[e].cited = edge[e].cited
  BY <1>2 DEF EdgeType, V!NoEdge
<1> QED
  BY <1>1, <1>3

\* A new citation is one more of what it cites.
LEMMA CitedOnceMore ==
  ASSUME IInv, NEW m, NEW c \in Memories, V!Cite(m, c)
  PROVE  /\ Cardinality(Citing(c))' = Cardinality(Citing(c)) + 1
         /\ \A n \in Memories \ {c} : Cardinality(Citing(n))' = Cardinality(Citing(n))
         /\ \E e \in Edges : /\ edge[e] = V!NoEdge /\ edge'[e] # V!NoEdge
                            /\ edge'[e].cited = c
<1>1. edge \in [Edges -> EdgeType] /\ None \notin Memories
  BY Types, KindsDiffer DEF IInv, TypeOK, Memories
<1>2. PICK e \in Edges, status \in {"recorded", "proposed"} :
             /\ edge[e] = V!NoEdge
             /\ edge' = [edge EXCEPT ![e] = [citing |-> m, cited |-> c, status |-> status]]
  BY <1>1 DEF V!Cite, V!NextEdge
<1>3. /\ edge'[e].cited = c /\ edge[e].cited = None
      /\ edge'[e].status # "none" /\ edge[e].status = "none"
      /\ \A f \in Edges \ {e} : edge'[f] = edge[f]
  BY <1>1, <1>2 DEF V!NoEdge
<1>4. Citing(c)' = Citing(c) \cup {e} /\ e \notin Citing(c)
  BY <1>1, <1>3 DEF Citing
<1>5. IsFiniteSet(Citing(c))
  BY RowsNumbered, FS_Subset DEF Citing
<1>6. Cardinality(Citing(c) \cup {e}) = Cardinality(Citing(c)) + 1
  BY <1>4, <1>5, FS_AddElement
<1>7. ASSUME NEW n \in Memories \ {c} PROVE Citing(n)' = Citing(n)
  BY <1>1, <1>3 DEF Citing
<1>8. edge'[e] # V!NoEdge
  BY <1>3 DEF V!NoEdge
<1> QED
  BY <1>2, <1>3, <1>4, <1>6, <1>7, <1>8

\* What a step can make of counters and counts: a citation and its counter go up
\* together; or a counter takes what a recount has counted, and a recount counts.
CountsUp ==
  \E c \in Memories :
    /\ Cardinality(Citing(c))' = Cardinality(Citing(c)) + 1 /\ cited'[c] = cited[c] + 1
    /\ \A n \in Memories \ {c} : /\ Cardinality(Citing(n))' = Cardinality(Citing(n))
                                /\ cited'[n] = cited[n]
    /\ \E e \in Edges : /\ edge[e] = V!NoEdge /\ edge'[e] # V!NoEdge
                       /\ edge'[e].cited = c
    /\ UNCHANGED totals

Recounts ==
  /\ \A m \in Memories :
       /\ Cardinality(Citing(m))' = Cardinality(Citing(m))
       /\ \/ cited'[m] = cited[m]
          \/ \E o \in Ops : m \in DOMAIN totals[o] /\ cited'[m] = totals[o][m]
  /\ \A o \in Ops : \A m \in DOMAIN totals'[o] :
       \/ m \in Memories /\ totals'[o][m] = Cardinality(Citing(m))
       \/ m \in DOMAIN totals[o] /\ totals'[o][m] = totals[o][m]

\* Only COMMITs of writes cite, and only recounts count.
LEMMA CounterSteps ==
  ASSUME IInv, [Next]_vars
  PROVE  CountsUp \/ Recounts
<1>0. /\ totals \in [Ops -> UNION {[K -> Nat] : K \in SUBSET Memories}]
      /\ cited \in [Memories -> Nat]
  BY TotalsTypes DEF IInv, TypeOK
<1>1. ASSUME \A e \in Edges : edge'[e].cited = edge[e].cited, UNCHANGED <<cited, totals>>
      PROVE  Recounts
  BY <1>1, CitingKept DEF Recounts
<1>2. ASSUME NEW o \in Ops, NEW K \in SUBSET Memories, UNCHANGED <<edge, cited>>,
             totals' = [totals EXCEPT ![o] = Count(o, K)]
      PROVE  Recounts
  <2>1. ASSUME NEW m \in DOMAIN Count(o, K)
        PROVE  \/ m \in Memories /\ Count(o, K)[m] = Cardinality(Citing(m))
               \/ m \in DOMAIN totals[o] /\ Count(o, K)[m] = totals[o][m]
    BY <2>1 DEF Count, Citing
  <2>2. totals'[o] = Count(o, K) /\ \A p \in Ops : p # o => totals'[p] = totals[p]
    BY <1>0, <1>2
  <2>3. ASSUME NEW p \in Ops, NEW m \in DOMAIN totals'[p]
        PROVE  \/ m \in Memories /\ totals'[p][m] = Cardinality(Citing(m))
               \/ m \in DOMAIN totals[p] /\ totals'[p][m] = totals[p][m]
    <3>1. CASE p = o
      BY <2>1, <2>2, <2>3, <3>1
    <3>2. CASE p # o
      BY <2>2, <2>3, <3>2
    <3> QED
      BY <3>1, <3>2
  <2> QED
    BY <1>2, <2>3, CitingKept DEF Recounts
<1>3. ASSUME NEW o \in Ops, CommitWrite(o)
      PROVE  CountsUp \/ Recounts
  <2> DEFINE c == op[o].first
  <2>1. /\ V!Cite(op[o].second, c) /\ UNCHANGED totals
        /\ cited' = [n \in Memories |-> IF n = c THEN cited[n] + 1 ELSE cited[n]]
    BY <1>3 DEF CommitWrite
  <2>2. CASE c \in Memories
    BY <2>1, <2>2, CitedOnceMore DEF CountsUp
  <2>3. CASE c \notin Memories
    <3>1. c = None
      BY <2>3, OpTypes DEF IInv, TypeOK
    <3>2. UNCHANGED edge /\ cited' = cited
      BY <1>0, <2>1, <2>3, <3>1 DEF V!Cite
    <3> QED
      BY <1>1, <2>1, <3>2
  <2> QED
    BY <2>2, <2>3
<1>4. ASSUME NEW o \in Ops, RecountLessons(o)
      PROVE  Recounts
  <2>1. /\ UNCHANGED edge /\ totals' = [totals EXCEPT ![o] = Nothing]
        /\ cited' = [m \in Memories |-> IF m \in DOMAIN totals[o] THEN totals[o][m] ELSE cited[m]]
    BY <1>4 DEF RecountLessons, tables
  <2>2. DOMAIN Nothing = {} /\ \A p \in Ops : p # o => totals'[p] = totals[p]
    BY <1>0, <2>1 DEF Nothing
  <2>3. \A m \in Memories : Cardinality(Citing(m))' = Cardinality(Citing(m))
    BY <2>1, CitingKept
  <2>4. totals'[o] = Nothing
    BY <1>0, <2>1
  <2> QED
    BY <2>1, <2>2, <2>3, <2>4 DEF Recounts
<1>5. ASSUME NEW o \in Ops, Abort(o)
      PROVE  Recounts
  <2>1. /\ UNCHANGED <<edge, cited>> /\ totals' = [totals EXCEPT ![o] = Nothing]
    BY <1>5 DEF Abort, tables
  <2>2. /\ DOMAIN Nothing = {} /\ totals'[o] = Nothing
        /\ \A p \in Ops : p # o => totals'[p] = totals[p]
    BY <1>0, <2>1 DEF Nothing
  <2> QED
    BY <2>1, <2>2, CitingKept DEF Recounts
<1>6. ASSUME NEW o \in Ops, CommitApply(o)
      PROVE  Recounts
  <2>1. op[o].edge \in Edges
    BY <1>6 DEF IInv, Applying, CommitApply, Committing
  <2> QED
    BY <1>1, <1>6, <2>1, AnsweredCites DEF CommitApply
<1>7. ASSUME NEW e \in Edges, Dismiss(e)
      PROVE  Recounts
  BY <1>1, <1>7, AnsweredCites DEF Dismiss, V!Dismiss
<1>8. CASE UNCHANGED <<edge, cited, totals>>
  BY <1>1, <1>8
<1>9. ASSUME NEW o \in Ops, AgentBegins(o) \/ OperatorBegins(o)
      PROVE  UNCHANGED <<edge, cited, totals>>
  BY <1>9 DEF AgentBegins, StartAdd, StartFold, StartPropose, OperatorBegins, Keep, StartVerdict,
              StartApply, tables
<1>10. ASSUME NEW o \in Ops, LockEdge(o) \/ LockFirst(o) \/ LockSecond(o)
       PROVE  UNCHANGED <<edge, cited, totals>>
  BY <1>10 DEF LockEdge, LockFirst, LockSecond, tables
<1>11. ASSUME NEW o \in Ops, Insert(o) \/ CommitRetire(o) \/ CommitUnretire(o) \/ CommitGraduation(o)
       PROVE  UNCHANGED <<edge, cited, totals>>
  BY <1>11 DEF Insert, CommitRetire, CommitUnretire, CommitGraduation
<1>12. ASSUME \/ \E l \in Lessons : Unpromote(l)
              \/ \E d \in Decisions : Direct(d)
              \/ UNCHANGED vars
       PROVE  UNCHANGED <<edge, cited, totals>>
  BY <1>12 DEF Unpromote, V!Unpromote, Direct, V!Retract, V!Unretract, vars
<1>13. ASSUME NEW o \in Ops, StartRecount(o) \/ RecountDecisions(o)
       PROVE  Recounts
  BY <1>2, <1>13 DEF StartRecount, RecountDecisions, tables, Memories
<1> QED
  BY <1>3, <1>4, <1>5, <1>6, <1>7, <1>8, <1>9, <1>10, <1>11, <1>12, <1>13
     DEF Next, Lock, Commit, Ops

\* A counter, and what a recount has counted, are at most the citations there are.
CountersBelow ==
  /\ \A m \in Memories : cited[m] <= Cardinality(Citing(m))
  /\ \A o \in Ops : \A m \in DOMAIN totals[o] : totals[o][m] <= Cardinality(Citing(m))

\* ... and exactly those.
CountersExact ==
  /\ CountersMatchRows
  /\ \A o \in Ops : \A m \in DOMAIN totals[o] : totals[o][m] = Cardinality(Citing(m))

\* Counters, counts and citations are numbers.
LEMMA CountersAre ==
  ASSUME IInv
  PROVE  /\ \A m \in Memories : cited[m] \in Nat /\ Cardinality(Citing(m)) \in Nat
         /\ \A o \in Ops : \A m \in DOMAIN totals[o] : m \in Memories /\ totals[o][m] \in Nat
<1>1. totals \in [Ops -> UNION {[K -> Nat] : K \in SUBSET Memories}]
  BY TotalsTypes DEF IInv, TypeOK
<1>2. ASSUME NEW m \in Memories PROVE Cardinality(Citing(m)) \in Nat
  BY RowsNumbered, FS_Subset, FS_CardinalityType DEF Citing
<1> QED
  BY <1>1, <1>2 DEF IInv, TypeOK

\* At first there is nothing to count.
LEMMA CountersInit == Init => CountersExact /\ CountersBelow
<1> SUFFICES ASSUME Init PROVE CountersExact /\ CountersBelow
  OBVIOUS
<1>1. ASSUME NEW m \in Memories PROVE Cardinality(Citing(m)) = 0
  <2>1. Citing(m) = {}
    BY KindsDiffer DEF Init, V!Init, Citing, V!NoEdge, Memories
  <2> QED
    BY <2>1, FS_EmptySet
<1>2. \A o \in Ops : DOMAIN totals[o] = {}
  BY DEF Init, Nothing
<1> QED
  BY <1>1, <1>2 DEF Init, CountersExact, CountersBelow, CountersMatchRows, Citing

\* No counter ever says more than there are citations, whatever writes and recounts
\* run at once: what a recount loses (curationRecount), it loses for less.
THEOREM CountersNeverExceed ==
  Spec => [](\A m \in Memories : cited[m] <= Cardinality({e \in Edges : edge[e].cited = m}))
<1>1. IInv /\ CountersBelow /\ [Next]_vars => CountersBelow'
  <2> SUFFICES ASSUME IInv, CountersBelow, [Next]_vars
               PROVE  CountersBelow'
    OBVIOUS
  <2>1. /\ \A m \in Memories : cited[m] \in Nat /\ Cardinality(Citing(m)) \in Nat
        /\ \A o \in Ops : \A m \in DOMAIN totals[o] : m \in Memories /\ totals[o][m] \in Nat
    BY CountersAre
  <2>2. CASE CountsUp
    <3>1. \A m \in Memories : /\ Cardinality(Citing(m)) <= Cardinality(Citing(m))'
                             /\ cited'[m] <= Cardinality(Citing(m))'
      BY <2>1, <2>2 DEF CountsUp, CountersBelow
    <3>2. ASSUME NEW o \in Ops, NEW m \in DOMAIN totals[o]
          PROVE  totals[o][m] <= Cardinality(Citing(m))'
      <4>1. /\ totals[o][m] \in Nat /\ Cardinality(Citing(m)) \in Nat
            /\ totals[o][m] <= Cardinality(Citing(m)) /\ m \in Memories
        BY <2>1 DEF CountersBelow
      <4>2. \/ Cardinality(Citing(m))' = Cardinality(Citing(m))
            \/ Cardinality(Citing(m))' = Cardinality(Citing(m)) + 1
        BY <2>2, <4>1 DEF CountsUp
      <4> QED
        BY <4>1, <4>2
    <3> QED
      BY <2>2, <3>1, <3>2 DEF CountsUp, CountersBelow
  <2>3. CASE Recounts
    <3>1. ASSUME NEW m \in Memories PROVE cited'[m] <= Cardinality(Citing(m))'
      BY <2>3 DEF Recounts, CountersBelow
    <3>2. ASSUME NEW o \in Ops, NEW m \in DOMAIN totals'[o]
          PROVE  totals'[o][m] <= Cardinality(Citing(m))'
      <4>1. CASE m \in Memories /\ totals'[o][m] = Cardinality(Citing(m))
        BY <2>1, <2>3, <4>1 DEF Recounts
      <4>2. CASE m \in DOMAIN totals[o] /\ totals'[o][m] = totals[o][m]
        BY <2>1, <2>3, <4>2 DEF Recounts, CountersBelow
      <4> QED
        BY <2>3, <4>1, <4>2 DEF Recounts
    <3> QED
      BY <3>1, <3>2 DEF CountersBelow
  <2> QED
    BY <2>2, <2>3, CounterSteps
<1>2. CountersBelow => \A m \in Memories : cited[m] <= Cardinality({e \in Edges : edge[e].cited = m})
  BY DEF CountersBelow, Citing
<1> QED
  BY <1>1, <1>2, CountersInit, Inductive, PTL DEF Spec

\* No write commits a citation of a memory that a recount under way has counted.
CountsStand ==
  \A e \in Edges : edge[e] = V!NoEdge /\ edge'[e] # V!NoEdge =>
    \A o \in Ops : edge'[e].cited \notin DOMAIN totals[o]

\* A counter says how many citations there are if none is committed between the count
\* and the update of a recount: nothing else parts counters from rows (recordCitation,
\* bumpCited, curationRecount), neither verdicts nor failed transactions.
THEOREM CountersMatchIfCountsStand ==
  Spec /\ [][CountsStand]_vars => []CountersMatchRows
<1>1. IInv /\ CountersExact /\ [Next]_vars /\ [CountsStand]_vars => CountersExact'
  <2> SUFFICES ASSUME IInv, CountersExact, [Next]_vars, [CountsStand]_vars
               PROVE  CountersExact'
    OBVIOUS
  <2>1. /\ \A m \in Memories : cited[m] = Cardinality(Citing(m))
        /\ \A o \in Ops : \A m \in DOMAIN totals[o] :
             m \in Memories /\ totals[o][m] = Cardinality(Citing(m))
    BY CountersAre DEF CountersExact, CountersMatchRows, Citing
  <2>2. CASE CountsUp
    <3>1. PICK c \in Memories :
            /\ Cardinality(Citing(c))' = Cardinality(Citing(c)) + 1 /\ cited'[c] = cited[c] + 1
            /\ \A n \in Memories \ {c} : /\ Cardinality(Citing(n))' = Cardinality(Citing(n))
                                        /\ cited'[n] = cited[n]
            /\ \E e \in Edges : /\ edge[e] = V!NoEdge /\ edge'[e] # V!NoEdge
                               /\ edge'[e].cited = c
            /\ UNCHANGED totals
      BY <2>2 DEF CountsUp
    <3>2. PICK e \in Edges : edge[e] = V!NoEdge /\ edge'[e] # V!NoEdge /\ edge'[e].cited = c
      BY <3>1
    <3>3. CountsStand
      BY <3>2 DEF vars
    <3>4. \A o \in Ops : c \notin DOMAIN totals[o]
      BY <3>2, <3>3 DEF CountsStand
    <3>5. \A m \in Memories : cited'[m] = Cardinality(Citing(m))'
      BY <2>1, <3>1
    <3>6. \A o \in Ops : \A m \in DOMAIN totals'[o] : totals'[o][m] = Cardinality(Citing(m))'
      BY <2>1, <3>1, <3>4
    <3> QED
      BY <3>5, <3>6 DEF CountersExact, CountersMatchRows, Citing
  <2>3. CASE Recounts
    <3>1. \A m \in Memories : cited'[m] = Cardinality(Citing(m))'
      BY <2>1, <2>3 DEF Recounts
    <3>2. \A o \in Ops : \A m \in DOMAIN totals'[o] : totals'[o][m] = Cardinality(Citing(m))'
      BY <2>1, <2>3 DEF Recounts
    <3> QED
      BY <3>1, <3>2 DEF CountersExact, CountersMatchRows, Citing
  <2> QED
    BY <2>2, <2>3, CounterSteps
<1>2. CountersExact => CountersMatchRows
  BY DEF CountersExact
<1> QED
  BY <1>1, <1>2, CountersInit, Inductive, PTL DEF Spec

=============================================================================
