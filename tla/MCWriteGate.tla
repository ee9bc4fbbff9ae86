---------------------------- MODULE MCWriteGate ----------------------------
(***************************************************************************)
(* Instances of WriteGate for TLC: one lesson at the start, and the tool   *)
(* calls below.  The lesson may be cited unread, or after a read of the      *)
(* other bucket only.                                                        *)
(***************************************************************************)
EXTENDS WriteGate, TLC

Read(kind, ids) == [op |-> "read", kind |-> kind, ids |-> ids, cite |-> "none"]
Add(kind, ids, cite) == [op |-> "add", kind |-> kind, ids |-> ids, cite |-> cite]
Note(cite) == [op |-> "note", kind |-> "lesson", ids |-> {}, cite |-> cite]

MCRequests ==
  {Read("lesson", {m}) : m \in Lessons \cup Calls}
  \cup {Read("decision", {}), Add("lesson", Lessons, "cites"),
        Add("decision", Lessons, "cites"), Add("lesson", {}, "novel"),
        Add("lesson", {}, "malformed"), Note("none")}

Symmetry == Permutations(Calls) \cup Permutations(Procs)
=============================================================================
