----------------------------- MODULE MCCuration -----------------------------
(* Instances of Curation for TLC. *)
EXTENDS Curation, TLC

Begun(kind) == {m \in kind : memory[m] # "absent" \/ \E o \in Ops : op[o].second = m}

\* Either one memory of each kind, or two lessons and one row between them.
Small ==
  \/ Cardinality(Begun(Lessons)) <= 1
  \/ Begun(Decisions) = {} /\ Cardinality({r \in Rows : row[r] # V!NoRow}) <= 1

Symmetry == Permutations(Decisions) \cup Permutations(Lessons)
=============================================================================
