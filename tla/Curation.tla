------------------------------ MODULE Curation ------------------------------
(***************************************************************************)
(* The transactions of curation (src/src/curation.ts, with the writes of        *)
(* decisions.ts and lessons.ts they meet), as they run on PostgreSQL at READ      *)
(* COMMITTED: a transaction locks the rows it is about, one after the other,       *)
(* waiting for other transactions, looks again at what it locked, and takes        *)
(* effect at COMMIT or not at all.                                                 *)
(*                                                                                *)
(* Each action is one statement that waits or reads, or the last statement of a    *)
(* transaction with its COMMIT: what a transaction has written nobody else sees     *)
(* before, and what it has locked nobody else changes.  A statement outside a       *)
(* transaction is one action.                                                      *)
(***************************************************************************)
EXTENDS Naturals, FiniteSets

CONSTANTS
  Decisions,
  Lessons,
  Rows,       \* rows of curation_candidates, in the order of insertion
  Edges,      \* rows of memory_citations, in the order of insertion
  Agents,     \* database sessions that serve agents' tool calls
  Operators,  \* those that serve the dashboard's verdicts
  Tellers,    \* those of the command that recounts citations
  Threshold,  \* GRADUATION_REINFORCEMENTS
  None        \* null

ASSUME KindsDiffer == Decisions \cap Lessons = {} /\ None \notin Decisions \cup Lessons
ASSUME RowsNumbered == Rows \subseteq Nat \ {0} /\ Edges \subseteq Nat \ {0} /\ IsFiniteSet(Edges)
ASSUME ThresholdTyped == Threshold \in Nat \ {0}

VARIABLES
  memory,     \* whether a memory is absent, live or retired
  relearned,  \* relearned_count of a lesson, up to Threshold
  cited,      \* cited_count of a memory
  row,        \* what a row of curation_candidates says
  edge,       \* what a row of memory_citations says
  op,         \* what a session is at, the rows it locks and in which order
  totals      \* what its recount has counted

V == INSTANCE Verdicts

Ops == Agents \cup Operators \cup Tellers
Memories == Decisions \cup Lessons
tables == <<memory, relearned, row, edge>>
vars == <<memory, relearned, cited, row, edge, op, totals>>

Nothing == [m \in {} |-> 0]
Idle == [verb |-> "none", pc |-> "idle", first |-> None, second |-> None, edge |-> 0]

TypeOK ==
  /\ V!TypeOK
  /\ cited \in [Memories -> Nat]
  /\ op \in [Ops -> [verb : {"none", "write", "propose", "keep", "retire", "unretire",
                             "apply", "promote", "reject", "recount"},
                     pc : {"idle", "insert", "edge", "first", "second", "commit", "decisions", "lessons"},
                     first : Memories \cup {None}, second : Memories \cup {None},
                     edge : Edges \cup {0}]]
  /\ totals = [o \in Ops |-> totals[o]]
  /\ \A o \in Ops : \E K \in SUBSET Memories : totals[o] \in [K -> Nat]

Init ==
  /\ V!Init
  /\ cited = [m \in Memories |-> 0]
  /\ op = [o \in Ops |-> Idle]
  /\ totals = [o \in Ops |-> Nothing]

----------------------------------------------------------------------------
Start(o, verb, pc, first, second) ==
  op' = [op EXCEPT ![o] = [verb |-> verb, pc |-> pc, first |-> first, second |-> second, edge |-> 0]]
Goto(o, pc) == op' = [op EXCEPT ![o].pc = pc]
End(o) == op' = [op EXCEPT ![o] = Idle]

At(o, pc) == op[o].pc = pc
Committing(o, verb) == At(o, "commit") /\ op[o].verb = verb

\* Locks are held to the end of the transaction.
Holds(o) ==
  {m \in Memories : \/ At(o, "second") /\ m = op[o].first
                    \/ At(o, "commit") /\ m \in {op[o].first, op[o].second}
                    \/ At(o, "lessons") /\ m \in Decisions \cap DOMAIN totals[o]}
HoldsEdge(o) == IF op[o].verb = "apply" /\ ~At(o, "edge") THEN {op[o].edge} ELSE {}

Free(m) == \A p \in Ops : m \notin Holds(p)
FreeEdge(e) == \A p \in Ops : e \notin HoldsEdge(p)

----------------------------------------------------------------------------
\* decisionAdd and lessonAdd once the gate has let them pass and, for a lesson,
\* findSimilarLesson has found none or one.
StartAdd(o, m, c) ==
  /\ At(o, "idle")
  /\ memory[m] = "absent" /\ \A p \in Ops : op[p].second # m
  /\ V!Citable(m, c)
  /\ Start(o, "write", IF c = None THEN "second" ELSE "first", c, m)
  /\ UNCHANGED <<tables, cited, totals>>

StartFold(o, l, c) ==
  /\ At(o, "idle")
  /\ V!Live(l)
  /\ V!Citable(l, c)
  /\ Start(o, "write", IF c = None THEN "second" ELSE "first", c, l)
  /\ UNCHANGED <<tables, cited, totals>>

\* retractFromAgent reads that the decision is valid, and inserts later.
StartPropose(o, d) ==
  /\ At(o, "idle")
  /\ V!Live(d)
  /\ Start(o, "propose", "insert", None, d)
  /\ UNCHANGED <<tables, cited, totals>>

\* curationKeep closes the open question, or goes on to record a verdict of its own.
Keep(o, m) ==
  /\ At(o, "idle")
  /\ V!Exists(m)
  /\ \/ /\ V!OpenRows(m) # {}
        /\ row' = V!Resolved(V!OpenRows(m), "kept")
        /\ UNCHANGED op
     \/ /\ V!OpenRows(m) = {}
        /\ Start(o, "keep", "insert", None, m)
        /\ UNCHANGED row
  /\ UNCHANGED <<memory, relearned, cited, edge, totals>>

\* Wrong on purpose: the unique index of open rows is missing.
InsertAlways(o) ==
  /\ At(o, "insert")
  /\ \/ op[o].verb = "propose" /\ V!Record(op[o].second, "evidence", "open")
     \/ op[o].verb = "keep" /\ V!Record(op[o].second, "unused", "kept")
  /\ End(o)
  /\ UNCHANGED <<memory, relearned, cited, edge, totals>>

Insert(o) ==
  /\ At(o, "insert")
  /\ \/ /\ op[o].verb = "propose"
        /\ V!OpenRows(op[o].second) = {}
        /\ V!Record(op[o].second, "evidence", "open")
     \/ /\ op[o].verb = "propose"
        /\ V!OpenRows(op[o].second) # {}
        /\ UNCHANGED row
     \/ /\ op[o].verb = "keep"
        /\ \E basis \in {"evidence", "unused"} : V!Record(op[o].second, basis, "kept")
  /\ End(o)
  /\ UNCHANGED <<memory, relearned, cited, edge, totals>>

\* curationRetire, curationUnretire, curationPromote and curationReject begin.
StartVerdict(o) ==
  /\ At(o, "idle")
  /\ \/ \E verb \in {"retire", "unretire"}, m \in Memories :
          V!Exists(m) /\ Start(o, verb, "second", None, m)
     \/ \E verb \in {"promote", "reject"}, l \in Lessons :
          V!Exists(l) /\ Start(o, verb, "second", None, l)
  /\ UNCHANGED <<tables, cited, totals>>

\* curationApply begins, with the citation of the card.
StartApply(o, e) ==
  /\ At(o, "idle")
  /\ edge[e] # V!NoEdge
  /\ op' = [op EXCEPT ![o] = [Idle EXCEPT !.verb = "apply", !.pc = "edge", !.edge = e]]
  /\ UNCHANGED <<tables, cited, totals>>

----------------------------------------------------------------------------
\* The citation of curationApply: no longer proposed, no verdict.
LockEdge(o) ==
  /\ At(o, "edge")
  /\ FreeEdge(op[o].edge)
  /\ \/ /\ edge[op[o].edge].status = "proposed"
        /\ op' = [op EXCEPT ![o].pc = "first",
                            ![o].first = edge[op[o].edge].citing,
                            ![o].second = edge[op[o].edge].cited]
     \/ edge[op[o].edge].status # "proposed" /\ End(o)
  /\ UNCHANGED <<tables, cited, totals>>

\* Wrong on purpose: SELECT without FOR UPDATE.
LockFirstUnlocked(o) ==
  /\ At(o, "first")
  /\ \/ (op[o].verb = "apply" => V!Live(op[o].first)) /\ Goto(o, "second")
     \/ op[o].verb = "apply" /\ ~V!Live(op[o].first) /\ End(o)
  /\ UNCHANGED <<tables, cited, totals>>

\* The replacement of curationApply, which must be live; the cited memory of a
\* write, whatever has become of it since it was read.
LockFirst(o) ==
  /\ At(o, "first")
  /\ Free(op[o].first)
  /\ \/ (op[o].verb = "apply" => V!Live(op[o].first)) /\ Goto(o, "second")
     \/ op[o].verb = "apply" /\ ~V!Live(op[o].first) /\ End(o)
  /\ UNCHANGED <<tables, cited, totals>>

\* What the transaction asks of the memory it locks last, before it changes it.
Meets(o) ==
  LET verb == op[o].verb
      m == op[o].second IN
  /\ verb \in {"retire", "apply", "promote", "reject"} => V!Live(m)
  /\ verb = "unretire" => memory[m] = "retired"
  /\ verb = "promote" => relearned[m] = Threshold /\ V!Rules(m) = {}

\* Wrong on purpose: SELECT without FOR UPDATE.
LockSecondUnlocked(o) ==
  /\ At(o, "second")
  /\ IF Meets(o) THEN Goto(o, "commit") ELSE End(o)
  /\ UNCHANGED <<tables, cited, totals>>

LockSecond(o) ==
  /\ At(o, "second")
  /\ Free(op[o].second)
  /\ IF Meets(o) THEN Goto(o, "commit") ELSE End(o)
  /\ UNCHANGED <<tables, cited, totals>>

----------------------------------------------------------------------------
\* The row and its citation, or the relearned lesson and its citation; bumpCited.
CommitWrite(o) ==
  LET m == op[o].second
      c == op[o].first IN
  /\ Committing(o, "write")
  /\ \/ /\ memory[m] = "absent"
        /\ memory' = [memory EXCEPT ![m] = "live"]
        /\ UNCHANGED relearned
     \/ /\ V!Exists(m)
        /\ relearned' = [relearned EXCEPT ![m] = IF @ < Threshold THEN @ + 1 ELSE @]
        /\ UNCHANGED memory
  /\ V!Cite(m, c)
  /\ cited' = [n \in Memories |-> IF n = c THEN cited[n] + 1 ELSE cited[n]]
  /\ End(o)
  /\ UNCHANGED <<row, totals>>

\* Wrong on purpose: the row takes the status of the memory.
CommitRetireLabel(o) ==
  /\ Committing(o, "retire")
  /\ memory' = [memory EXCEPT ![op[o].second] = "retired"]
  /\ row' = V!Resolved(V!OpenRows(op[o].second), "retired")
  /\ End(o)
  /\ UNCHANGED <<relearned, cited, edge, totals>>

CommitRetire(o) ==
  /\ Committing(o, "retire")
  /\ memory' = [memory EXCEPT ![op[o].second] = "retired"]
  /\ row' = V!Resolved(V!OpenRows(op[o].second), "applied")
  /\ End(o)
  /\ UNCHANGED <<relearned, cited, edge, totals>>

\* The answered question is asked again, unless another one about the same memory
\* is open: then the unique index ends the transaction.
CommitUnretire(o) ==
  LET m == op[o].second IN
  /\ Committing(o, "unretire")
  /\ \/ /\ V!Answered(m) = {} \/ V!OpenRows(m) = {}
        /\ memory' = [memory EXCEPT ![m] = "live"]
        /\ row' = V!Resolved(V!Newest(V!Answered(m)), "open")
     \/ /\ V!Answered(m) # {} /\ V!OpenRows(m) # {}
        /\ UNCHANGED <<memory, row>>
  /\ End(o)
  /\ UNCHANGED <<relearned, cited, edge, totals>>

CommitApply(o) ==
  /\ Committing(o, "apply")
  /\ memory' = [memory EXCEPT ![op[o].second] = "retired"]
  /\ edge' = [edge EXCEPT ![op[o].edge].status = "applied"]
  /\ End(o)
  /\ UNCHANGED <<relearned, cited, row, totals>>

CommitGraduation(o) ==
  /\ \/ Committing(o, "promote") /\ V!Record(op[o].second, "graduate", "applied")
     \/ Committing(o, "reject") /\ V!Record(op[o].second, "graduate", "dismissed")
  /\ End(o)
  /\ UNCHANGED <<memory, relearned, cited, edge, totals>>

----------------------------------------------------------------------------
\* A statement throws, the session dies, or PostgreSQL ends a deadlock.
Abort(o) ==
  /\ ~At(o, "idle")
  /\ End(o)
  /\ totals' = [totals EXCEPT ![o] = Nothing]
  /\ UNCHANGED <<tables, cited>>

\* curationDismiss, curationUnpromote, decisionRetract and decisionUnretract
\* outside a verdict: they wait for the row, and read it once they have it.
Dismiss(e) ==
  /\ FreeEdge(e)
  /\ V!Dismiss(e)
  /\ UNCHANGED <<cited, op, totals>>

Unpromote(l) ==
  /\ V!Unpromote(l)
  /\ UNCHANGED <<cited, op, totals>>

Direct(d) ==
  /\ Free(d)
  /\ V!Retract(d) \/ V!Unretract(d)
  /\ UNCHANGED <<cited, op, totals>>

\* curationRecount, one transaction: the citations of the decisions there are, as far
\* as they are committed, are counted, the counters written once no other transaction
\* holds them, and then the same is done for lessons.
Count(o, K) ==
  [m \in DOMAIN totals[o] \cup {n \in K : V!Exists(n)} |->
     IF m \in K THEN Cardinality({e \in Edges : edge[e].cited = m}) ELSE totals[o][m]]

StartRecount(o) ==
  /\ At(o, "idle")
  /\ totals' = [totals EXCEPT ![o] = Count(o, Decisions)]
  /\ Start(o, "recount", "decisions", None, None)
  /\ UNCHANGED <<tables, cited>>

RecountDecisions(o) ==
  /\ At(o, "decisions")
  /\ \A d \in DOMAIN totals[o] : Free(d)
  /\ totals' = [totals EXCEPT ![o] = Count(o, Lessons)]
  /\ Goto(o, "lessons")
  /\ UNCHANGED <<tables, cited>>

RecountLessons(o) ==
  /\ At(o, "lessons")
  /\ \A l \in DOMAIN totals[o] \cap Lessons : Free(l)
  /\ cited' = [m \in Memories |-> IF m \in DOMAIN totals[o] THEN totals[o][m] ELSE cited[m]]
  /\ totals' = [totals EXCEPT ![o] = Nothing]
  /\ End(o)
  /\ UNCHANGED tables

----------------------------------------------------------------------------
AgentBegins(o) ==
  \/ \E m \in Memories, c \in Memories \cup {None} : StartAdd(o, m, c)
  \/ \E l \in Lessons, c \in Lessons \cup {None} : StartFold(o, l, c)
  \/ \E d \in Decisions : StartPropose(o, d)

OperatorBegins(o) ==
  \/ \E m \in Memories : Keep(o, m)
  \/ StartVerdict(o)
  \/ \E e \in Edges : StartApply(o, e)

Lock(o) == LockEdge(o) \/ LockFirst(o) \/ LockSecond(o) \/ RecountDecisions(o)

Commit(o) ==
  \/ Insert(o) \/ CommitWrite(o) \/ CommitRetire(o) \/ CommitUnretire(o)
  \/ CommitApply(o) \/ CommitGraduation(o) \/ RecountLessons(o)

Next ==
  \/ \E o \in Agents : AgentBegins(o)
  \/ \E o \in Operators : OperatorBegins(o)
  \/ \E o \in Tellers : StartRecount(o)
  \/ \E o \in Ops : Lock(o) \/ Commit(o) \/ Abort(o)
  \/ \E e \in Edges : Dismiss(e)
  \/ \E l \in Lessons : Unpromote(l)
  \/ \E d \in Decisions : Direct(d)

Spec == Init /\ [][Next]_vars
----------------------------------------------------------------------------
\* Every write and every verdict, with its checks before and its locks during its
\* transaction, is one indivisible step of Verdicts: a supersession retires its
\* target while the replacement lives, and a verdict answers a question only by
\* what it does to a live memory.  curationRetire, curationApply, curationPromote.
AtomicVerdicts == V!Spec

\* However promotions race each other, removals and retirements, a lesson is one
\* rule at most.  curationPromote checks for a rule and inserts one.
OneRule == V!OneRule

\* However proposals, verdicts and their undo race, one question about a memory is
\* open at a time.  The index uq_curation_candidates_open.
OneOpenQuestion == V!OneOpenQuestion

\* The usage line of the command, "Rebuild citation counters from source-of-truth
\* rows": a counter says how many citations there are.
CountersMatchRows ==
  \A m \in Memories : cited[m] = Cardinality({e \in Edges : edge[e].cited = m})

=============================================================================
