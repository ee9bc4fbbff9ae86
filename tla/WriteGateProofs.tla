-------------------------- MODULE WriteGateProofs --------------------------
(***************************************************************************)
(* Proofs about WriteGate for any number of processes, calls and memories:   *)
(* types, what a write may cite, and the accounts kept of reads and writes.  *)
(*                                                                          *)
(* The gate never looks at reads: it looks at the bucket of one token.  So   *)
(* the argument carries the reads through the token row (Evidence): every id *)
(* of a bucket was returned by a finished read of the process that owns the  *)
(* token, and a call past its check has such reads for all it cites.         *)
(* Control ties a call's token to its process, which is what survives the    *)
(* race of two calls that mint a token each.                                 *)
(*                                                                          *)
(* The accounts (Books) are kept by several statements of a call: what a row *)
(* lags behind is told from the labels of the calls that still owe it.       *)
(*                                                                          *)
(* The last part is about the two claims that runs refute: both hold in every *)
(* behaviour in which no two calls of a process overlap (OneAtATime).         *)
(***************************************************************************)
EXTENDS WriteGate, FiniteSetTheorems, TLAPS

\* Labels at which a call holds a token.
Holding == {"surface", "record", "check", "commit", "count", "close",
            "violation", "tally"}

\* Labels a call comes to from ensureSessionToken.
Awaited == {"surface", "check", "commit", "count", "violation"}

\* Labels only a read, and only an add or a note, comes through.
Reading == {"surface", "record"}
Writing == {"check", "commit", "count", "close"}

\* Call c is at one of these labels, or on its way there.
Bound(c, S) == pc[c] \in S \/ (pc[c] \in {"token", "mint"} /\ after[c] \in S)

Started ==
  \A c \in Calls : /\ pc[c] = "idle" => proc[c] = None
                   /\ pc[c] # "idle" => proc[c] \in Procs /\ req[c] \in Requests

Waiting == \A c \in Calls : pc[c] \in {"token", "mint"} => after[c] \in Awaited

MemoOwned ==
  /\ \A t \in minted : pc[t] # "idle"
  /\ \A p \in Procs : memo[p] # None => memo[p] \in minted /\ proc[memo[p]] = p

TokenOwned ==
  \A c \in Calls : pc[c] \in Holding => tok[c] \in minted /\ proc[tok[c]] = proc[c]

OwnLane ==
  \A c \in Calls : /\ Bound(c, Reading) => req[c].op = "read"
                   /\ Bound(c, Writing) => req[c].op # "read"

Rooted ==
  /\ \A c \in Written : pc[c] # "idle"
  /\ \A x \in citations : /\ x.call \in Written
                          /\ req[x.call].op = "add" /\ x.cited \in req[x.call].ids

Control == Started /\ Waiting /\ MemoOwned /\ TokenOwned /\ OwnLane /\ Rooted

\* A finished read of process p and bucket k returned memory m.
Returned(p, k, m) ==
  \E r \in Calls : Answered(r) /\ proc[r] = p /\ req[r].kind = k /\ m \in req[r].ids

Searched(p) == \E r \in Calls : Answered(r) /\ proc[r] = p

\* Call c has behind it the reads its citation needs.
Backed(c) ==
  req[c].op = "add" =>
    /\ \A m \in req[c].ids : Returned(proc[c], req[c].kind, m)
    /\ req[c].cite = "novel" => Searched(proc[c])

FreshTokensEmpty ==
  \A t \in Calls \ minted : reads[t] = 0 /\ \A k \in Kinds : results[t][k] = {}

BucketsReturned ==
  \A t \in minted : \A k \in Kinds : \A m \in results[t][k] : Returned(proc[t], k, m)

CountsSearched == \A t \in minted : reads[t] > 0 => Searched(proc[t])

WritesBacked == \A c \in Calls : Bound(c, {"commit"}) \/ c \in Written => Backed(c)

Evidence == FreshTokensEmpty /\ BucketsReturned /\ CountsSearched /\ WritesBacked

----------------------------------------------------------------------------
\* The labels and the sets the steps of a call move in.
LEMMA LabelFacts ==
  /\ Holding \subseteq Labels
  /\ Writing \subseteq Holding /\ Awaited \subseteq Holding
  /\ Holding \cap ({"idle", "token", "mint"} \cup Ended) = {}
BY DEF Holding, Awaited, Writing, Labels, Ended

\* Every variable keeps its type.
LEMMA TypeStep == TypeOK /\ Control /\ [Next]_vars => TypeOK'
<1> SUFFICES ASSUME TypeOK, Control, [Next]_vars PROVE TypeOK'
  OBVIOUS
<1> USE DEF TypeOK
<1> USE DEF server, local, token, memory, journal
<1>1. ASSUME NEW c \in Calls, NEW p \in Procs, NEW r \in Requests, Start(c, p, r)
      PROVE  TypeOK'
  <2>1. r \in Request
    BY RequestsTyped
  <2>2. pc' \in [Calls -> Labels] /\ after' \in [Calls -> Labels]
        /\ tok' \in [Calls -> Calls \cup {None}]
    BY <1>1 DEF Start, Ensure, Entry, Goto, Labels
  <2>3. QED
    BY <1>1, <2>1, <2>2 DEF Start
<1> HIDE DEF TypeOK
<1>0. /\ \A c \in Calls : pc[c] \in Holding => tok[c] \in Calls
      /\ \A c \in Calls : pc[c] \in {"token", "mint"} => proc[c] \in Procs /\ after[c] \in Labels
      /\ \A c \in Calls : req[c] \in Request
  BY LabelFacts DEF Control, Started, Waiting, TokenOwned, TypeOK
<1>2. ASSUME NEW c \in Calls, UseMemo(c) PROVE TypeOK'
  <2>1. proc[c] \in Procs /\ after[c] \in Labels
    BY <1>2, <1>0 DEF UseMemo
  <2>2. {"mint", "idle"} \subseteq Labels
    BY DEF Labels
  <2>3. Ensure(c, proc[c], after[c])
    BY <1>2 DEF UseMemo
  <2>4. CASE memo[proc[c]] = None
    <3>1. /\ pc' = [pc EXCEPT ![c] = "mint"]
          /\ after' = [after EXCEPT ![c] = after[c]]
          /\ tok' = tok
      BY <2>3, <2>4 DEF Ensure, Goto
    <3>2. QED
      BY <1>2, <2>1, <2>2, <3>1 DEF UseMemo, TypeOK
  <2>5. CASE memo[proc[c]] # None
    <3>1. /\ pc' = [pc EXCEPT ![c] = after[c]]
          /\ after' = [after EXCEPT ![c] = "idle"]
          /\ tok' = [tok EXCEPT ![c] = memo[proc[c]]]
      BY <2>3, <2>5 DEF Ensure, Goto
    <3>2. memo[proc[c]] \in Calls
      BY <2>1, <2>5 DEF TypeOK
    <3>3. QED
      BY <1>2, <2>1, <2>2, <3>1, <3>2 DEF UseMemo, TypeOK
  <2>6. QED
    BY <2>4, <2>5
<1>3. ASSUME NEW c \in Calls, Mint(c) PROVE TypeOK'
  <2>1. proc[c] \in Procs /\ after[c] \in Labels
    BY <1>3, <1>0 DEF Mint
  <2>2. QED
    BY <1>3, <2>1 DEF Mint, Goto, Labels, TypeOK
<1>4. ASSUME NEW c \in Calls, Surface(c) PROVE TypeOK'
  <2>1. surfaced' \in [Memory -> Nat]
    BY <1>4 DEF Surface, TypeOK
  <2>2. QED
    BY <1>4, <2>1 DEF Surface, Goto, Labels, TypeOK
<1>5. ASSUME NEW c \in Calls, RecordRead(c) PROVE TypeOK'
  <2>1. req[c].ids \subseteq Memory /\ req[c].kind \in Kinds
    BY <1>0 DEF Request
  <2>2. tok[c] \in Calls
    BY <1>5, <1>0 DEF RecordRead, Holding
  <2>3. results' \in [Calls -> [Kinds -> SUBSET Memory]]
    BY <1>5, <2>1, <2>2 DEF RecordRead, TypeOK
  <2>4. reads' \in [Calls -> Nat]
    BY <1>5, <2>2 DEF RecordRead, TypeOK
  <2>5. QED
    BY <1>5, <2>3, <2>4 DEF RecordRead, Goto, Labels, TypeOK
<1>6. ASSUME NEW c \in Calls, Check(c) PROVE TypeOK'
  <2>1. /\ \/ Goto(c, "commit") /\ UNCHANGED after
           \/ EnsureLater(c, "violation")
        /\ UNCHANGED <<server, tok, token, memory, journal>>
    BY <1>6 DEF Check
  <2>2. pc' \in [Calls -> Labels] /\ after' \in [Calls -> Labels]
    BY <2>1 DEF Goto, EnsureLater, Labels, TypeOK
  <2>3. QED
    BY <2>1, <2>2 DEF TypeOK
<1>7. ASSUME NEW c \in Calls, Commit(c) PROVE TypeOK'
  <2>1. PICK m \in Memory : /\ home' = [home EXCEPT ![c] = m]
                            /\ citations' = citations \cup Cites(c, m)
    <3>1. Rows("lesson") \subseteq Memory /\ c \in Memory
      BY DEF Rows, Memory
    <3>2. \E m \in {c} \cup (IF req[c].op = "add" /\ req[c].kind = "lesson"
                            THEN Rows("lesson") \ req[c].ids ELSE {}) :
            /\ home' = [home EXCEPT ![c] = m]
            /\ citations' = citations \cup Cites(c, m)
      BY <1>7 DEF Commit
    <3>3. QED
      BY <3>1, <3>2
  <2>2. tok[c] \in Calls /\ req[c].ids \subseteq Memory
    BY <1>7, <1>0 DEF Commit, Holding, Request
  <2>3. Cites(c, m) \subseteq Citation
    BY <2>2 DEF Cites, Citation
  <2>4. cited' \in [Memory -> Nat]
    BY <1>7 DEF Commit, TypeOK
  <2>5. pc' \in [Calls -> Labels] /\ after' \in [Calls -> Labels]
    BY <1>7 DEF Commit, EnsureLater, Goto, Labels, TypeOK
  <2>6. UNCHANGED <<server, tok, token, surfaced, journal>>
    BY <1>7 DEF Commit
  <2>7. QED
    BY <2>1, <2>3, <2>4, <2>5, <2>6 DEF TypeOK
<1>8. ASSUME NEW c \in Calls, Abort(c) PROVE TypeOK'
  BY <1>8 DEF Abort, Goto, Labels, TypeOK
<1>9. ASSUME NEW c \in Calls, CountSuccess(c) PROVE TypeOK'
  <2>1. tok[c] \in Calls
    BY <1>9, <1>0 DEF CountSuccess, Holding
  <2>2. QED
    BY <1>9, <2>1 DEF CountSuccess, Goto, Labels, TypeOK
<1>10. ASSUME NEW c \in Calls, CloseViolation(c) PROVE TypeOK'
  <2>1. closedBy' \in [Calls -> Calls \cup {None}]
    BY <1>10 DEF CloseViolation, TypeOK
  <2>2. QED
    BY <1>10, <2>1 DEF CloseViolation, Goto, Labels, TypeOK
<1>11. ASSUME NEW c \in Calls, LogViolation(c) PROVE TypeOK'
  <2>1. Written \cup {v \in Calls : violation[v] # None} \in SUBSET Calls
    BY DEF Written
  <2>2. QED
    BY <1>11, <2>1 DEF LogViolation, Goto, Labels, TypeOK
<1>12. ASSUME NEW c \in Calls, TallyRejection(c) PROVE TypeOK'
  <2>1. tok[c] \in Calls
    BY <1>12, <1>0 DEF TallyRejection, Holding
  <2>2. QED
    BY <1>12, <2>1 DEF TallyRejection, Goto, Labels, TypeOK
<1>13. ASSUME NEW p \in Procs, Crash(p) PROVE TypeOK'
  <2>1. pc' \in [Calls -> Labels]
    BY <1>13 DEF Crash, Labels, TypeOK
  <2>2. QED
    BY <1>13, <2>1 DEF Crash, TypeOK
<1>14. ASSUME UNCHANGED vars PROVE TypeOK'
  BY <1>14 DEF vars, TypeOK
<1>15. QED
  BY <1>1, <1>2, <1>3, <1>4, <1>5, <1>6, <1>7, <1>8, <1>9, <1>10, <1>11,
     <1>12, <1>13, <1>14 DEF Next, Step
\* A call keeps its process, its arguments and a finished read once it started.
LEMMA StepFrame ==
  ASSUME TypeOK, Control, [Next]_vars, NEW c \in Calls, pc[c] # "idle"
  PROVE  pc'[c] # "idle" /\ proc'[c] = proc[c] /\ req'[c] = req[c]
         /\ (pc[c] \in Ended => pc'[c] = pc[c])
<1> USE DEF TypeOK, server, local, token, memory, journal, Goto, Ended
<1>0. \A d \in Calls : pc[d] \in {"token", "mint"} => after[d] # "idle"
  BY DEF Control, Waiting, Awaited
<1>1. ASSUME NEW d \in Calls, NEW p \in Procs, NEW r \in Requests, Start(d, p, r)
      PROVE  d # c /\ pc'[c] = pc[c] /\ proc'[c] = proc[c] /\ req'[c] = req[c]
  BY <1>1 DEF Start, Ensure
<1>2. ASSUME NEW d \in Calls, UseMemo(d)
      PROVE  /\ proc' = proc /\ req' = req
             /\ pc[d] \notin Ended
             /\ pc'[c] = pc[c] \/ (d = c /\ pc'[c] # "idle")
  BY <1>0, <1>2 DEF UseMemo, Ensure
<1>3. ASSUME NEW d \in Calls, Mint(d)
      PROVE  /\ proc' = proc /\ req' = req
             /\ pc[d] \notin Ended
             /\ pc'[c] = pc[c] \/ (d = c /\ pc'[c] # "idle")
  BY <1>0, <1>3 DEF Mint
<1>4. ASSUME NEW d \in Calls, Surface(d)
      PROVE  /\ proc' = proc /\ req' = req
             /\ pc[d] \notin Ended
             /\ pc'[c] = pc[c] \/ (d = c /\ pc'[c] # "idle")
  BY <1>4 DEF Surface
<1>5. ASSUME NEW d \in Calls, RecordRead(d)
      PROVE  /\ proc' = proc /\ req' = req
             /\ pc[d] \notin Ended
             /\ pc'[c] = pc[c] \/ (d = c /\ pc'[c] # "idle")
  BY <1>5 DEF RecordRead
<1>6. ASSUME NEW d \in Calls, Check(d)
      PROVE  /\ proc' = proc /\ req' = req
             /\ pc[d] \notin Ended
             /\ pc'[c] = pc[c] \/ (d = c /\ pc'[c] # "idle")
  BY <1>6 DEF Check, EnsureLater
<1>7. ASSUME NEW d \in Calls, Commit(d)
      PROVE  /\ proc' = proc /\ req' = req
             /\ pc[d] \notin Ended
             /\ pc'[c] = pc[c] \/ (d = c /\ pc'[c] # "idle")
  BY <1>7 DEF Commit, EnsureLater
<1>8. ASSUME NEW d \in Calls, Abort(d)
      PROVE  /\ proc' = proc /\ req' = req
             /\ pc[d] \notin Ended
             /\ pc'[c] = pc[c] \/ (d = c /\ pc'[c] # "idle")
  BY <1>8 DEF Abort
<1>9. ASSUME NEW d \in Calls, CountSuccess(d)
      PROVE  /\ proc' = proc /\ req' = req
             /\ pc[d] \notin Ended
             /\ pc'[c] = pc[c] \/ (d = c /\ pc'[c] # "idle")
  BY <1>9 DEF CountSuccess
<1>10. ASSUME NEW d \in Calls, CloseViolation(d)
      PROVE  /\ proc' = proc /\ req' = req
             /\ pc[d] \notin Ended
             /\ pc'[c] = pc[c] \/ (d = c /\ pc'[c] # "idle")
  BY <1>10 DEF CloseViolation
<1>11. ASSUME NEW d \in Calls, LogViolation(d)
      PROVE  /\ proc' = proc /\ req' = req
             /\ pc[d] \notin Ended
             /\ pc'[c] = pc[c] \/ (d = c /\ pc'[c] # "idle")
  BY <1>11 DEF LogViolation
<1>12. ASSUME NEW d \in Calls, TallyRejection(d)
      PROVE  /\ proc' = proc /\ req' = req
             /\ pc[d] \notin Ended
             /\ pc'[c] = pc[c] \/ (d = c /\ pc'[c] # "idle")
  BY <1>12 DEF TallyRejection
<1>13. ASSUME NEW p \in Procs, Crash(p)
       PROVE  /\ proc' = proc /\ req' = req
              /\ pc'[c] = pc[c] \/ (pc[c] \notin Ended /\ pc'[c] = "crashed")
  BY <1>13 DEF Crash
<1>14. QED
  BY <1>1, <1>2, <1>3, <1>4, <1>5, <1>6, <1>7, <1>8, <1>9, <1>10, <1>11, <1>12,
     <1>13 DEF Next, Step, vars

\* Tokens stay with their process, and calls with their kind.
LEMMA ControlStep == TypeOK /\ Control /\ [Next]_vars => Control'
<1> SUFFICES ASSUME TypeOK, Control, [Next]_vars PROVE Control'
  OBVIOUS
<1> USE DEF Control, Started, Waiting, Awaited, MemoOwned, TokenOwned, OwnLane, Rooted,
            Bound, TypeOK, server, local, token, memory, journal, Goto, Written
<1>1. ASSUME NEW c \in Calls, NEW p \in Procs, NEW r \in Requests, Start(c, p, r)
      PROVE  Control'
  <2>1. Started'
    <3>1. /\ pc'[c] # "idle" /\ \A d \in Calls : d # c => pc'[d] = pc[d]
          /\ proc' = [proc EXCEPT ![c] = p] /\ req' = [req EXCEPT ![c] = r]
      BY <1>1 DEF Start, Ensure, Entry
    <3>2. QED
      BY <3>1
  <2>2. Waiting'
    <3>1. Entry(r) \in Awaited
      BY DEF Entry
    <3>2. /\ \A d \in Calls : d # c => pc'[d] = pc[d] /\ after'[d] = after[d]
          /\ \/ pc'[c] = "mint" /\ after'[c] = Entry(r)
             \/ pc'[c] = Entry(r)
      BY <1>1 DEF Start, Ensure
    <3>3. QED
      BY <3>1, <3>2 DEF Holding
  <2>3. MemoOwned'
    BY <1>1, NoneIsFresh DEF Start, Ensure, Entry, Holding, Reading, Writing
  <2>4. TokenOwned'
    BY <1>1, NoneIsFresh DEF Start, Ensure, Entry, Holding, Reading, Writing
  <2>5. OwnLane'
    BY <1>1, NoneIsFresh DEF Start, Ensure, Entry, Holding, Reading, Writing
  <2>6. Rooted'
    BY <1>1, NoneIsFresh DEF Start, Ensure, Entry, Holding, Reading, Writing
  <2>7. QED
    BY <2>1, <2>2, <2>3, <2>4, <2>5, <2>6 DEF Control
<1>2. ASSUME NEW c \in Calls, UseMemo(c) PROVE Control'
  <2>0. proc[c] \in Procs /\ after[c] \in Awaited
    BY <1>2 DEF UseMemo
  <2>h. /\ UNCHANGED <<memo, proc, req, minted, home, citations>>
        /\ \A d \in Calls : d # c => pc'[d] = pc[d] /\ after'[d] = after[d] /\ tok'[d] = tok[d]
        /\ \/ pc'[c] = "mint" /\ after'[c] = after[c]
           \/ /\ memo[proc[c]] # None /\ tok'[c] = memo[proc[c]]
              /\ pc'[c] = after[c] /\ after'[c] = "idle"
        /\ pc[c] = "token"
    BY <1>2 DEF UseMemo, Ensure
  <2>1. Started'
    BY <2>0, <2>h DEF Holding, Reading, Writing
  <2>2. Waiting'
    BY <2>0, <2>h DEF Holding, Reading, Writing
  <2>3. MemoOwned'
    BY <2>0, <2>h DEF Holding, Reading, Writing
  <2>4. TokenOwned'
    <3> SUFFICES ASSUME NEW d \in Calls, pc'[d] \in Holding
                 PROVE  tok'[d] \in minted /\ proc[tok'[d]] = proc[d]
      BY <2>h
    <3>1. CASE d # c
      BY <2>h, <3>1
    <3>2. CASE d = c
      BY <2>0, <2>h, <3>2 DEF Holding
    <3> QED
      BY <3>1, <3>2
  <2>5. OwnLane'
    BY <2>0, <2>h DEF Holding, Reading, Writing
  <2>6. Rooted'
    BY <2>0, <2>h DEF Holding, Reading, Writing
  <2>7. QED
    BY <2>1, <2>2, <2>3, <2>4, <2>5, <2>6 DEF Control
<1>3. ASSUME NEW c \in Calls, Mint(c) PROVE Control'
  <2>0. proc[c] \in Procs /\ after[c] \in Awaited
    BY <1>3 DEF Mint
  <2>1. Started'
    BY <1>3, <2>0, NoneIsFresh DEF Mint, Holding, Reading, Writing
  <2>2. Waiting'
    BY <1>3, <2>0, NoneIsFresh DEF Mint, Holding, Reading, Writing
  <2>3. MemoOwned'
    BY <1>3, <2>0, NoneIsFresh DEF Mint, Holding, Reading, Writing
  <2>4. TokenOwned'
    BY <1>3, <2>0, NoneIsFresh DEF Mint, Holding, Reading, Writing
  <2>5. OwnLane'
    BY <1>3, <2>0, NoneIsFresh DEF Mint, Holding, Reading, Writing
  <2>6. Rooted'
    BY <1>3, <2>0, NoneIsFresh DEF Mint, Holding, Reading, Writing
  <2>7. QED
    BY <2>1, <2>2, <2>3, <2>4, <2>5, <2>6 DEF Control
<1>4. ASSUME NEW c \in Calls, Surface(c) PROVE Control'
  BY <1>4, NoneIsFresh DEF Surface, Holding, Reading, Writing
<1>5. ASSUME NEW c \in Calls, RecordRead(c) PROVE Control'
  BY <1>5, NoneIsFresh DEF RecordRead, Holding, Reading, Writing
<1>6. ASSUME NEW c \in Calls, Check(c) PROVE Control'
  <2>1. Started'
    BY <1>6, NoneIsFresh DEF Check, EnsureLater, Holding, Reading, Writing
  <2>2. Waiting'
    BY <1>6, NoneIsFresh DEF Check, EnsureLater, Holding, Reading, Writing
  <2>3. MemoOwned'
    BY <1>6, NoneIsFresh DEF Check, EnsureLater, Holding, Reading, Writing
  <2>4. TokenOwned'
    BY <1>6, NoneIsFresh DEF Check, EnsureLater, Holding, Reading, Writing
  <2>5. OwnLane'
    BY <1>6, NoneIsFresh DEF Check, EnsureLater, Holding, Reading, Writing
  <2>6. Rooted'
    BY <1>6, NoneIsFresh DEF Check, EnsureLater, Holding, Reading, Writing
  <2>7. QED
    BY <2>1, <2>2, <2>3, <2>4, <2>5, <2>6 DEF Control
<1>7. ASSUME NEW c \in Calls, Commit(c) PROVE Control'
  <2>1. Started'
    BY <1>7, NoneIsFresh DEF Commit, EnsureLater, Cites, Holding, Reading, Writing
  <2>2. Waiting'
    BY <1>7, NoneIsFresh DEF Commit, EnsureLater, Cites, Holding, Reading, Writing
  <2>3. MemoOwned'
    BY <1>7, NoneIsFresh DEF Commit, EnsureLater, Cites, Holding, Reading, Writing
  <2>4. TokenOwned'
    BY <1>7, NoneIsFresh DEF Commit, EnsureLater, Cites, Holding, Reading, Writing
  <2>5. OwnLane'
    BY <1>7, NoneIsFresh DEF Commit, EnsureLater, Cites, Holding, Reading, Writing
  <2>6. Rooted'
    <3>0. req[c].ids # {} => req[c].op = "add"
      BY <1>7, RequestsTyped DEF Commit, Writing
    <3>1. /\ \A d \in Calls : home'[d] # None => d = c \/ home[d] # None
          /\ \A x \in citations' :
               \/ x \in citations
               \/ x.call = c /\ req[c].op = "add" /\ x.cited \in req[c].ids
      BY <1>7, <3>0 DEF Commit, Cites
    <3>2. home'[c] # None
      BY <1>7, NoneIsFresh DEF Commit, Rows, Memory
    <3>3. \A d \in Calls : home[d] # None => home'[d] # None
      BY <1>7, <3>2 DEF Commit
    <3>4. pc'[c] # "idle" /\ \A d \in Calls : pc[d] # "idle" => pc'[d] # "idle"
      BY <1>7 DEF Commit, EnsureLater
    <3>5. QED
      BY <1>7, <3>1, <3>2, <3>3, <3>4 DEF Commit
  <2>7. QED
    BY <2>1, <2>2, <2>3, <2>4, <2>5, <2>6 DEF Control
<1>8. ASSUME NEW c \in Calls, Abort(c) PROVE Control'
  BY <1>8, NoneIsFresh DEF Abort, Holding, Reading, Writing
<1>9. ASSUME NEW c \in Calls, CountSuccess(c) PROVE Control'
  BY <1>9, NoneIsFresh DEF CountSuccess, Holding, Reading, Writing
<1>10. ASSUME NEW c \in Calls, CloseViolation(c) PROVE Control'
  BY <1>10, NoneIsFresh DEF CloseViolation, Holding, Reading, Writing
<1>11. ASSUME NEW c \in Calls, LogViolation(c) PROVE Control'
  BY <1>11, NoneIsFresh DEF LogViolation, Holding, Reading, Writing
<1>12. ASSUME NEW c \in Calls, TallyRejection(c) PROVE Control'
  BY <1>12, NoneIsFresh DEF TallyRejection, Holding, Reading, Writing
<1>13. ASSUME NEW p \in Procs, Crash(p) PROVE Control'
  <2>0. /\ \A c \in Calls : pc'[c] = pc[c] \/ (pc'[c] = "crashed" /\ pc[c] # "idle")
        /\ UNCHANGED <<memo, after, proc, req, tok, token, memory, journal>>
    BY <1>13, NoneIsFresh DEF Crash
  <2>h. /\ \A c \in Calls : pc'[c] \in Holding => pc[c] \in Holding
        /\ \A c \in Calls : pc'[c] \in {"token", "mint"} => pc'[c] = pc[c]
        /\ \A c \in Calls : pc'[c] \in Reading => pc[c] \in Reading
        /\ \A c \in Calls : pc'[c] \in Writing => pc[c] \in Writing
        /\ \A c \in Calls : pc'[c] # "idle" <=> pc[c] # "idle"
        /\ memo' = memo /\ after' = after /\ proc' = proc /\ req' = req /\ tok' = tok
        /\ minted' = minted /\ home' = home /\ citations' = citations
    BY <2>0 DEF Holding, Reading, Writing
  <2> HIDE DEF Goto, server, local, token, memory, journal, TypeOK
  <2>1. Started'
    BY <2>h
  <2>2. Waiting'
    BY <2>h
  <2>3. MemoOwned'
    BY <2>h DEF TypeOK
  <2>4. TokenOwned'
    BY <2>h
  <2>5. OwnLane'
    BY <2>h
  <2>6. Rooted'
    BY <2>h
  <2>7. QED
    BY <2>1, <2>2, <2>3, <2>4, <2>5, <2>6 DEF Control
<1>14. ASSUME UNCHANGED vars PROVE Control'
  BY <1>14 DEF vars
<1>15. QED
  BY <1>1, <1>2, <1>3, <1>4, <1>5, <1>6, <1>7, <1>8, <1>9, <1>10, <1>11,
     <1>12, <1>13, <1>14 DEF Next, Step
\* Evidence is never withdrawn.
LEMMA EvidenceStays ==
  ASSUME TypeOK, Control, [Next]_vars
  PROVE  /\ \A q \in Procs : Searched(q) => Searched(q)'
         /\ \A q \in Procs, k \in Kinds, m \in Memory : Returned(q, k, m) => Returned(q, k, m)'
         /\ \A c \in Calls : pc[c] # "idle" /\ Backed(c) => Backed(c)'
<1>1. \A r \in Calls : Answered(r) => /\ Answered(r)'
                                     /\ proc'[r] = proc[r] /\ req'[r] = req[r]
  BY StepFrame DEF Answered, Ended
<1>2. \A q \in Procs : Searched(q) => Searched(q)'
  BY <1>1 DEF Searched
<1>3. \A q \in Procs, k \in Kinds, m \in Memory : Returned(q, k, m) => Returned(q, k, m)'
  BY <1>1 DEF Returned
<1>4. ASSUME NEW c \in Calls, pc[c] # "idle", Backed(c) PROVE Backed(c)'
  <2>1. proc'[c] = proc[c] /\ req'[c] = req[c] /\ proc[c] \in Procs
    BY <1>4, StepFrame DEF Control, Started
  <2>2. req[c].kind \in Kinds /\ req[c].ids \subseteq Memory
    BY DEF TypeOK, Request
  <2>3. QED
    BY <1>2, <1>3, <1>4, <2>1, <2>2 DEF Backed
<1>5. QED
  BY <1>2, <1>3, <1>4

\* A step that leaves the token rows alone, and lets no call through to a
\* commit that was not on its way there, keeps the evidence.
LEMMA EvidenceFrame ==
  ASSUME TypeOK, Control, Evidence, [Next]_vars,
         UNCHANGED <<minted, results, reads>>,
         \A c \in Calls : (Bound(c, {"commit"}) \/ c \in Written)'
                          => /\ pc[c] # "idle"
                             /\ Bound(c, {"commit"}) \/ c \in Written \/ Backed(c)
  PROVE  Evidence'
<1>1. \A t \in minted : t \in Calls /\ proc[t] \in Procs /\ proc'[t] = proc[t]
  BY StepFrame DEF TypeOK, Control, MemoOwned, Started
<1>2. FreshTokensEmpty'
  BY DEF Evidence, FreshTokensEmpty
<1>3. BucketsReturned'
  <2>1. \A t \in minted : \A k \in Kinds : results[t][k] \subseteq Memory
    BY <1>1 DEF TypeOK
  <2>2. QED
    BY <1>1, <2>1, EvidenceStays DEF Evidence, BucketsReturned
<1>4. CountsSearched'
  BY <1>1, EvidenceStays DEF Evidence, CountsSearched
<1>5. WritesBacked'
  BY EvidenceStays DEF Evidence, WritesBacked
<1>6. QED
  BY <1>2, <1>3, <1>4, <1>5 DEF Evidence
\* Every step keeps the evidence: a read brings its own, a check verifies it.
LEMMA EvidenceStep == TypeOK /\ Control /\ Evidence /\ [Next]_vars => Evidence'
<1> SUFFICES ASSUME TypeOK, Control, Evidence, [Next]_vars PROVE Evidence'
  OBVIOUS
<1> USE DEF Bound, Written, Goto, server, token, memory, journal
<1>0. /\ \A c \in Calls : Bound(c, {"commit"}) \/ c \in Written => pc[c] # "idle"
      /\ \A t \in minted : t \in Calls /\ proc[t] \in Procs /\ proc'[t] = proc[t]
  BY StepFrame DEF TypeOK, Control, MemoOwned, Started, Rooted
<1>1. ASSUME NEW c \in Calls, NEW p \in Procs, NEW r \in Requests, Start(c, p, r)
      PROVE  Evidence'
  <2>1. Bound(c, {"commit"})' => Backed(c)'
    BY <1>1, RequestsTyped DEF Start, Ensure, Entry, Backed, TypeOK, Request
  <2>2. \A d \in Calls : d # c => pc'[d] = pc[d] /\ after'[d] = after[d]
    BY <1>1 DEF Start, Ensure, TypeOK
  <2>3. UNCHANGED <<minted, results, reads, home>>
    BY <1>1 DEF Start
  <2>4. c \notin Written
    BY <1>0, <1>1 DEF Start
  <2>5. WritesBacked'
    BY <1>0, <2>1, <2>2, <2>3, <2>4, EvidenceStays DEF Evidence, WritesBacked
  <2>6. FreshTokensEmpty'
    BY <2>3 DEF Evidence, FreshTokensEmpty
  <2>7. BucketsReturned'
    <3>1. \A t \in minted : \A k \in Kinds : results[t][k] \subseteq Memory
      BY <1>0 DEF TypeOK
    <3>2. QED
      BY <1>0, <2>3, <3>1, EvidenceStays DEF Evidence, BucketsReturned
  <2>8. CountsSearched'
    BY <1>0, <2>3, EvidenceStays DEF Evidence, CountsSearched
  <2>9. QED
    BY <2>5, <2>6, <2>7, <2>8 DEF Evidence
<1>2. ASSUME NEW c \in Calls, UseMemo(c) PROVE Evidence'
  BY <1>0, <1>2, EvidenceFrame DEF UseMemo, Ensure, TypeOK
<1>3. ASSUME NEW c \in Calls, Mint(c) PROVE Evidence'
  <2>1. pc[c] = "mint" /\ minted' = minted \cup {c} /\ UNCHANGED <<results, reads, home>>
    BY <1>3 DEF Mint
  <2>2. FreshTokensEmpty'
    BY <2>1 DEF Evidence, FreshTokensEmpty
  <2>3. \A t \in minted' : t \in minted \/ (reads[t] = 0 /\ \A k \in Kinds : results[t][k] = {})
    BY <2>1 DEF Evidence, FreshTokensEmpty
  <2>4. BucketsReturned'
    <3>1. \A t \in minted : \A k \in Kinds : results[t][k] \subseteq Memory
      BY <1>0 DEF TypeOK
    <3>2. QED
      BY <1>0, <2>1, <2>3, <3>1, EvidenceStays DEF Evidence, BucketsReturned
  <2>5. CountsSearched'
    BY <1>0, <2>1, <2>3, EvidenceStays DEF Evidence, CountsSearched
  <2>6. WritesBacked'
    BY <1>0, <1>3, <2>1, EvidenceStays DEF Mint, Evidence, WritesBacked, TypeOK
  <2>7. QED
    BY <2>2, <2>4, <2>5, <2>6 DEF Evidence
<1>4. ASSUME NEW c \in Calls, Surface(c) PROVE Evidence'
  BY <1>0, <1>4, EvidenceFrame DEF Surface, TypeOK
<1>5. ASSUME NEW c \in Calls, RecordRead(c) PROVE Evidence'
  <2> DEFINE t == tok[c]  k == req[c].kind
  <2>1. t \in minted /\ proc[t] = proc[c] /\ req[c].op = "read" /\ k \in Kinds
        /\ req[c].ids \subseteq Memory /\ pc[c] # "idle"
    BY <1>5 DEF RecordRead, Control, TokenOwned, OwnLane, Holding, Reading, TypeOK, Request
  <2>2. Answered(c)' /\ proc' = proc /\ req' = req /\ tok' = tok
    BY <1>5, <2>1 DEF RecordRead, Answered, TypeOK
  <2>3. Searched(proc[t])' /\ \A m \in req[c].ids : Returned(proc[t], k, m)'
    BY <2>1, <2>2 DEF Searched, Returned
  <2>4. /\ minted' = minted /\ home' = home
        /\ results' = [results EXCEPT ![t][k] = @ \cup req[c].ids]
        /\ reads' = [reads EXCEPT ![t] = @ + 1]
    BY <1>5 DEF RecordRead
  <2>5. FreshTokensEmpty'
    BY <2>1, <2>4 DEF Evidence, FreshTokensEmpty, TypeOK
  <2>6. BucketsReturned'
    <3> SUFFICES ASSUME NEW s \in minted, NEW j \in Kinds, NEW m \in results'[s][j]
                 PROVE  Returned(proc[s], j, m)'
      BY <2>2, <2>4 DEF BucketsReturned
    <3>1. results[s][j] \subseteq Memory /\ proc[s] \in Procs /\ s \in Calls
      BY <1>0 DEF TypeOK
    <3>2. CASE m \in results[s][j]
      BY <2>2, <3>1, <3>2, EvidenceStays DEF Evidence, BucketsReturned
    <3>3. CASE m \notin results[s][j]
      <4>1. s = t /\ j = k /\ m \in req[c].ids
        BY <2>1, <2>4, <3>1, <3>3 DEF TypeOK
      <4>2. QED
        BY <2>2, <2>3, <4>1
    <3>4. QED
      BY <3>2, <3>3
  <2>7. CountsSearched'
    <3> SUFFICES ASSUME NEW s \in minted, reads'[s] > 0
                 PROVE  Searched(proc[s])'
      BY <2>2, <2>4 DEF CountsSearched
    <3>1. CASE s = t
      BY <2>2, <2>3, <3>1
    <3>2. CASE s # t
      <4>1. reads[s] > 0
        BY <1>0, <2>4, <3>2 DEF TypeOK
      <4>2. QED
        BY <1>0, <4>1, EvidenceStays DEF Evidence, CountsSearched
    <3>3. QED
      BY <3>1, <3>2
  <2>8. WritesBacked'
    BY <1>0, <1>5, <2>4, EvidenceStays DEF RecordRead, Evidence, WritesBacked, TypeOK
  <2>9. QED
    BY <2>5, <2>6, <2>7, <2>8 DEF Evidence
<1>6. ASSUME NEW c \in Calls, Check(c) PROVE Evidence'
  <2>1. tok[c] \in minted /\ proc[tok[c]] = proc[c] /\ req[c].kind \in Kinds
        /\ req[c] \in Requests /\ req[c].op # "read" /\ pc[c] # "idle"
    BY <1>6 DEF Check, Control, TokenOwned, OwnLane, Started, Holding, Writing, TypeOK, Request
  <2>2. Admits(c) => Backed(c)
    <3>1. SUFFICES ASSUME Admits(c), req[c].op = "add" PROVE Backed(c)
      BY DEF Backed
    <3>2. CASE req[c].cite = "novel"
      <4>1. req[c].ids = {}
        BY <2>1, <3>2, RequestsTyped
      <4>2. Searched(proc[c])
        <5>1. CASE reads[tok[c]] > 0
          BY <2>1, <5>1 DEF Evidence, CountsSearched
        <5>2. CASE results[tok[c]][req[c].kind] # {}
          BY <2>1, <5>2 DEF Evidence, BucketsReturned, Returned, Searched
        <5>3. QED
          BY <3>1, <3>2, <5>1, <5>2 DEF Admits
      <4>3. QED
        BY <4>1, <4>2 DEF Backed
    <3>3. CASE req[c].cite # "novel"
      <4>1. req[c].ids \subseteq results[tok[c]][req[c].kind]
        BY <3>1, <3>3 DEF Admits
      <4>2. QED
        BY <2>1, <3>3, <4>1 DEF Backed, Evidence, BucketsReturned
    <3>4. QED
      BY <3>2, <3>3
  <2>3. /\ \/ Backed(c) /\ pc' = [pc EXCEPT ![c] = "commit"] /\ after' = after
           \/ pc' = [pc EXCEPT ![c] = "token"] /\ after' = [after EXCEPT ![c] = "violation"]
        /\ UNCHANGED <<minted, results, reads, home>>
    BY <1>6, <2>2 DEF Check, EnsureLater
  <2>4. QED
    BY <1>0, <2>1, <2>3, EvidenceFrame DEF TypeOK
<1>7. ASSUME NEW c \in Calls, Commit(c) PROVE Evidence'
  <2>1. /\ UNCHANGED <<minted, results, reads>>
        /\ pc[c] = "commit" /\ pc' = [pc EXCEPT ![c] = "token"]
        /\ after' = [after EXCEPT ![c] = "count"]
    BY <1>7 DEF Commit, EnsureLater
  <2>2. \A d \in Calls : home'[d] # None => d = c \/ home[d] # None
    BY <1>7 DEF Commit, TypeOK
  <2>3. QED
    BY <1>0, <2>1, <2>2, EvidenceFrame DEF TypeOK
<1>8. ASSUME NEW c \in Calls, Abort(c) PROVE Evidence'
  BY <1>0, <1>8, EvidenceFrame DEF Abort, TypeOK
<1>9. ASSUME NEW c \in Calls, CountSuccess(c) PROVE Evidence'
  BY <1>0, <1>9, EvidenceFrame DEF CountSuccess, TypeOK
<1>10. ASSUME NEW c \in Calls, CloseViolation(c) PROVE Evidence'
  BY <1>0, <1>10, EvidenceFrame DEF CloseViolation, TypeOK
<1>11. ASSUME NEW c \in Calls, LogViolation(c) PROVE Evidence'
  BY <1>0, <1>11, EvidenceFrame DEF LogViolation, TypeOK
<1>12. ASSUME NEW c \in Calls, TallyRejection(c) PROVE Evidence'
  BY <1>0, <1>12, EvidenceFrame DEF TallyRejection, TypeOK
<1>13. ASSUME NEW p \in Procs, Crash(p) PROVE Evidence'
  BY <1>0, <1>13, EvidenceFrame DEF Crash, TypeOK
<1>14. ASSUME UNCHANGED vars PROVE Evidence'
  BY <1>0, <1>14, EvidenceFrame DEF vars
<1>15. QED
  BY <1>1, <1>2, <1>3, <1>4, <1>5, <1>6, <1>7, <1>8, <1>9, <1>10, <1>11,
     <1>12, <1>13, <1>14 DEF Next, Step
----------------------------------------------------------------------------
\* The variables always have the types declared for them.
THEOREM TypeCorrect == Spec => []TypeOK
<1>1. Init => TypeOK /\ Control
  <2> SUFFICES ASSUME Init PROVE TypeOK /\ Control
    OBVIOUS
  <2>1. TypeOK
    BY DEF Init, TypeOK, Request, Labels, Kinds, Memory, Citation
  <2>2. Control
    BY NoneIsFresh DEF Init, Control, Started, Waiting, MemoOwned, TokenOwned, OwnLane,
       Rooted, Bound, Written, Holding, Reading, Writing
  <2>3. QED
    BY <2>1, <2>2
<1>2. TypeOK /\ Control /\ [Next]_vars => (TypeOK /\ Control)'
  BY TypeStep, ControlStep
<1>3. QED
  BY <1>1, <1>2, PTL DEF Spec

\* The inductive invariant of the gate.
LEMMA GateInvariant == Spec => [](TypeOK /\ Control /\ Evidence)
<1>1. Init => TypeOK /\ Control /\ Evidence
  <2> SUFFICES ASSUME Init PROVE TypeOK /\ Control /\ Evidence
    OBVIOUS
  <2>1. TypeOK
    BY DEF Init, TypeOK, Request, Labels, Kinds, Memory, Citation
  <2>2. Control
    BY NoneIsFresh DEF Init, Control, Started, Waiting, MemoOwned, TokenOwned, OwnLane,
       Rooted, Bound, Written, Holding, Reading, Writing
  <2>3. Evidence
    BY DEF Init, Evidence, FreshTokensEmpty, BucketsReturned, CountsSearched,
       WritesBacked, Bound, Written
  <2>4. QED
    BY <2>1, <2>2, <2>3
<1>2. TypeOK /\ Control /\ Evidence /\ [Next]_vars => (TypeOK /\ Control /\ Evidence)'
  BY TypeStep, ControlStep, EvidenceStep
<1>3. QED
  BY <1>1, <1>2, PTL DEF Spec

\* Every citation the database holds names a memory that a finished read of the
\* same process and bucket returned, for any number of processes and calls, and
\* although two calls of a process may mint two tokens.
THEOREM CitationsWereRead == Spec => []CitationWasRead
<1>1. TypeOK /\ Control /\ Evidence => CitationWasRead
  <2> SUFFICES ASSUME TypeOK, Control, Evidence, NEW x \in citations
               PROVE  \E r \in Calls : /\ Answered(r)
                                       /\ proc[r] = proc[x.call]
                                       /\ req[r].kind = req[x.call].kind
                                       /\ x.cited \in req[r].ids
    BY DEF CitationWasRead
  <2>1. x.call \in Written /\ x.call \in Calls /\ x.cited \in req[x.call].ids
        /\ req[x.call].op = "add"
    BY DEF Control, Rooted, Written
  <2>2. Backed(x.call) /\ req[x.call] \in Requests /\ pc[x.call] # "idle"
    BY <2>1 DEF Evidence, WritesBacked, Control, Started, Rooted
  <2>3. QED
    BY <2>1, <2>2 DEF Backed, Returned
<1>2. QED
  BY <1>1, GateInvariant, PTL

\* A memory written as novel follows a search of its own process.
THEOREM NovelWritesWereSearched == Spec => []NovelWasSearched
<1>1. TypeOK /\ Control /\ Evidence => NovelWasSearched
  BY DEF NovelWasSearched, Evidence, WritesBacked, Backed, Searched, Written
<1>2. QED
  BY <1>1, GateInvariant, PTL
----------------------------------------------------------------------------
(***************************************************************************)
(* The accounts kept beside the gate: buckets and surfaced counts, tallies,   *)
(* violations and citation rows.                                             *)
(***************************************************************************)

\* Calls with a violation row.
Logged == {v \in Calls : violation[v] # None}

Recorded ==
  \A r \in Calls :
    Answered(r) => tok[r] \in Calls /\ req[r].ids \subseteq results[tok[r]][req[r].kind]

\* The ids of a read are counted before they join the bucket.
SurfacedFirst ==
  \A c \in Calls : pc[c] = "record" => \A m \in req[c].ids : surfaced[m] > 0

\* What a call has persisted at each of its labels.
Persisted ==
  \A c \in Calls :
    /\ Bound(c, {"idle", "check", "commit", "violation"}) => c \notin Written \cup Logged
    /\ Bound(c, {"count"}) => c \in Written
    /\ pc[c] = "tally" => violation[c] = tok[c]

\* Violations are told apart by age.
Ordered ==
  /\ \A v \in Calls : older[v] \subseteq Written \cup Logged
  /\ \A v, w \in Logged : v # w => ~(v \in older[w] /\ w \in older[v])
  /\ \A v \in Calls : closedBy[v] # None => v \in Logged

\* Violations of token t that are followed up, calls about to follow one up, calls
\* that have counted their rejection and those that have counted their success.
Closed(t) == {v \in Calls : violation[v] = t /\ closedBy[v] # None}
Closing(t) == {c \in Calls : pc[c] = "close" /\ tok[c] = t}
Refused(t) == {v \in Calls : violation[v] = t /\ pc[v] = "rejected"}
Counted(t) == {c \in Written : tok[c] = t /\ pc[c] \in {"close", "done", "crashed"}}

Tallied ==
  \A t \in Calls :
    /\ attempted[t] = succeeded[t] + rejected[t]
    /\ rejected[t] <= Cardinality(Refused(t))
    /\ Cardinality(Closed(t)) + Cardinality(Closing(t)) <= succeeded[t]
    /\ succeeded[t] <= Cardinality(Counted(t))

Gate == TypeOK /\ Control /\ Evidence

Books == /\ Recorded /\ SurfacedFirst /\ CitableWasSurfaced
         /\ Persisted /\ Ordered /\ Tallied

----------------------------------------------------------------------------
\* Each account has one step that writes it.
LEMMA Accounts ==
  ASSUME Gate, [Next]_vars
  PROVE  /\ results' = results \/ \E c \in Calls : RecordRead(c)
         /\ surfaced' = surfaced \/ \E c \in Calls : Surface(c)
         /\ UNCHANGED <<home, citations>> \/ \E c \in Calls : Commit(c)
         /\ succeeded' = succeeded \/ \E c \in Calls : CountSuccess(c)
         /\ rejected' = rejected \/ \E c \in Calls : TallyRejection(c)
         /\ \/ attempted' = attempted
            \/ \E c \in Calls : CountSuccess(c) \/ TallyRejection(c)
         /\ closedBy' = closedBy \/ \E c \in Calls : CloseViolation(c)
         /\ UNCHANGED <<violation, older>> \/ \E c \in Calls : LogViolation(c)
<1> USE DEF server, token, memory, journal, local
<1>1. ASSUME NEW c \in Calls, NEW p \in Procs, NEW r \in Requests, Start(c, p, r)
      PROVE  UNCHANGED <<results, surfaced, home, citations, cited, succeeded, rejected,
                         attempted, closedBy, violation, older>>
  BY <1>1 DEF Start
<1>2. ASSUME NEW p \in Procs, Crash(p)
      PROVE  UNCHANGED <<results, surfaced, home, citations, cited, succeeded, rejected,
                         attempted, closedBy, violation, older>>
  BY <1>2 DEF Crash
<1>3. ASSUME NEW c \in Calls, UseMemo(c) \/ Mint(c) \/ Check(c) \/ Abort(c)
      PROVE  UNCHANGED <<results, surfaced, home, citations, cited, succeeded, rejected,
                         attempted, closedBy, violation, older>>
  BY <1>3 DEF UseMemo, Mint, Check, Abort
<1>4. ASSUME NEW c \in Calls, Surface(c)
      PROVE  UNCHANGED <<results, home, citations, cited, succeeded, rejected,
                         attempted, closedBy, violation, older>>
  BY <1>4 DEF Surface
<1>5. ASSUME NEW c \in Calls, RecordRead(c)
      PROVE  UNCHANGED <<surfaced, home, citations, cited, succeeded, rejected,
                         attempted, closedBy, violation, older>>
  BY <1>5 DEF RecordRead
<1>6. ASSUME NEW c \in Calls, Commit(c)
      PROVE  UNCHANGED <<results, surfaced, succeeded, rejected,
                         attempted, closedBy, violation, older>>
  BY <1>6 DEF Commit
<1>7. ASSUME NEW c \in Calls, CountSuccess(c)
      PROVE  UNCHANGED <<results, surfaced, home, citations, cited, rejected,
                         closedBy, violation, older>>
  BY <1>7 DEF CountSuccess
<1>8. ASSUME NEW c \in Calls, CloseViolation(c)
      PROVE  UNCHANGED <<results, surfaced, home, citations, cited, succeeded, rejected,
                         attempted, violation, older>>
  BY <1>8 DEF CloseViolation
<1>9. ASSUME NEW c \in Calls, LogViolation(c)
      PROVE  UNCHANGED <<results, surfaced, home, citations, cited, succeeded, rejected,
                         attempted, closedBy>>
  BY <1>9 DEF LogViolation
<1>10. ASSUME NEW c \in Calls, TallyRejection(c)
       PROVE  UNCHANGED <<results, surfaced, home, citations, cited, succeeded,
                          closedBy, violation, older>>
  BY <1>10 DEF TallyRejection
<1>11. CASE UNCHANGED vars
  BY <1>11 DEF vars
<1> QED
  BY <1>1, <1>2, <1>3, <1>4, <1>5, <1>6, <1>7, <1>8, <1>9, <1>10, <1>11 DEF Next, Step

\* How a call comes to a label that the accounts speak of.
Came(c) ==
  /\ pc[c] \notin {"idle", "token", "mint"} => tok'[c] = tok[c]
  /\ pc'[c] = "record" => pc[c] = "record" \/ Surface(c)
  /\ pc'[c] = "done" => pc[c] = "done" \/ RecordRead(c) \/ CloseViolation(c)
  /\ pc'[c] = "close" => pc[c] = "close" \/ CountSuccess(c)
  /\ pc'[c] = "tally" => pc[c] = "tally" \/ LogViolation(c)
  /\ Bound(c, {"idle", "check", "commit", "violation"})'
       => Bound(c, {"idle", "check", "commit", "violation"})
  /\ Bound(c, {"count"})' => Bound(c, {"count"}) \/ Commit(c)
  /\ pc[c] = "close" => pc'[c] \in {"close", "done", "crashed"}

\* Every step of a call comes from the label before it.
LEMMA Comings ==
  ASSUME Gate, [Next]_vars, NEW c \in Calls
  PROVE  Came(c)
<1> USE DEF Gate, TypeOK, Goto, Bound, Came, EnsureLater
<1>0. pc[c] \in {"token", "mint"} => after[c] \in Awaited
  BY DEF Control, Waiting
<1>1. ASSUME NEW d \in Calls, NEW p \in Procs, NEW r \in Requests, Start(d, p, r) PROVE Came(c)
  <2>1. Entry(r) \in {"surface", "check", "commit", "violation"}
    BY DEF Entry
  <2>2. /\ pc[d] = "idle"
        /\ \/ pc' = [pc EXCEPT ![d] = "mint"] /\ after' = [after EXCEPT ![d] = Entry(r)]
              /\ tok' = tok
           \/ /\ pc' = [pc EXCEPT ![d] = Entry(r)] /\ after' = [after EXCEPT ![d] = "idle"]
              /\ tok' = [tok EXCEPT ![d] = memo[p]]
    BY <1>1 DEF Start, Ensure
  <2> HIDE DEF Gate
  <2> QED
    BY <2>1, <2>2 DEF Gate
<1>2. ASSUME NEW p \in Procs, Crash(p) PROVE Came(c)
  BY <1>0, <1>2 DEF Crash, local, Ended, Awaited
<1>3. ASSUME NEW d \in Calls, UseMemo(d) PROVE Came(c)
  BY <1>0, <1>3 DEF UseMemo, Ensure, Awaited
<1>4. ASSUME NEW d \in Calls, Mint(d) PROVE Came(c)
  BY <1>0, <1>4 DEF Mint, Awaited
<1>5. ASSUME NEW d \in Calls, Surface(d) PROVE Came(c)
  BY <1>5 DEF Surface
<1>6. ASSUME NEW d \in Calls, RecordRead(d) PROVE Came(c)
  BY <1>6 DEF RecordRead
<1>7. ASSUME NEW d \in Calls, Check(d) PROVE Came(c)
  BY <1>7 DEF Check
<1>8. ASSUME NEW d \in Calls, Commit(d) PROVE Came(c)
  BY <1>8 DEF Commit
<1>9. ASSUME NEW d \in Calls, Abort(d) PROVE Came(c)
  BY <1>9 DEF Abort
<1>10. ASSUME NEW d \in Calls, CountSuccess(d) PROVE Came(c)
  BY <1>10 DEF CountSuccess
<1>11. ASSUME NEW d \in Calls, CloseViolation(d) PROVE Came(c)
  BY <1>11 DEF CloseViolation
<1>12. ASSUME NEW d \in Calls, LogViolation(d) PROVE Came(c)
  BY <1>12 DEF LogViolation
<1>13. ASSUME NEW d \in Calls, TallyRejection(d) PROVE Came(c)
  BY <1>13 DEF TallyRejection
<1>14. CASE UNCHANGED vars
  BY <1>14 DEF vars
<1> QED
  BY <1>1, <1>2, <1>3, <1>4, <1>5, <1>6, <1>7, <1>8, <1>9, <1>10, <1>11, <1>12, <1>13, <1>14
     DEF Next, Step

\* A bucket keeps what it has.
LEMMA BucketsGrow ==
  ASSUME Gate, [Next]_vars, NEW t \in Calls, NEW k \in Kinds
  PROVE  results[t][k] \subseteq results'[t][k]
<1>1. CASE results' = results
  BY <1>1
<1>2. ASSUME NEW c \in Calls, RecordRead(c) PROVE results[t][k] \subseteq results'[t][k]
  <2>1. results' = [results EXCEPT ![tok[c]][req[c].kind] = @ \cup req[c].ids]
    BY <1>2 DEF RecordRead
  <2>2. results \in [Calls -> [Kinds -> SUBSET Memory]]
    BY DEF Gate, TypeOK
  <2> QED
    BY <2>1, <2>2
<1> QED
  BY <1>1, <1>2, Accounts

\* What is persisted stays so.
LEMMA RowsStay ==
  ASSUME Gate, Persisted, [Next]_vars
  PROVE  /\ Written \subseteq Written'
         /\ \A v \in Logged : violation'[v] = violation[v] /\ older'[v] = older[v]
         /\ Logged \subseteq Logged'
<1>1. ASSUME NEW c \in Calls, Commit(c) PROVE Written \subseteq Written'
  <2>1. PICK m \in Memory : home' = [home EXCEPT ![c] = m]
    BY <1>1 DEF Commit, Rows, Memory
  <2>2. m # None
    BY <2>1, NoneIsFresh DEF Memory
  <2> QED
    BY <2>1, <2>2 DEF Gate, TypeOK, Written
<1>2. Written \subseteq Written'
  BY <1>1, Accounts DEF Written
<1>3. ASSUME NEW c \in Calls, LogViolation(c), NEW v \in Logged
      PROVE  violation'[v] = violation[v] /\ older'[v] = older[v]
  <2>1. v # c /\ v \in Calls
    BY <1>3 DEF LogViolation, Persisted, Bound, Logged
  <2> QED
    BY <1>3, <2>1 DEF LogViolation, Gate, TypeOK
<1>4. \A v \in Logged : violation'[v] = violation[v] /\ older'[v] = older[v]
  BY <1>3, Accounts
<1> QED
  BY <1>2, <1>4 DEF Logged

\* A finished read has its ids in the bucket.
LEMMA RecordedStep ==
  ASSUME Gate, Recorded, [Next]_vars
  PROVE  Recorded'
<1> SUFFICES ASSUME NEW r \in Calls, Answered(r)'
             PROVE  tok'[r] \in Calls /\ req'[r].ids \subseteq results'[tok'[r]][req'[r].kind]
  BY DEF Recorded
<1>1. req \in [Calls -> Request] /\ Control
  BY DEF Gate, TypeOK
<1>2. pc[r] # "idle" /\ Came(r)
  <2>1. Came(r)
    BY Comings
  <2>2. pc[r] = "done" \/ RecordRead(r) \/ CloseViolation(r)
    BY <2>1 DEF Came, Answered
  <2> QED
    BY <2>1, <2>2 DEF RecordRead, CloseViolation
<1>3. req'[r] = req[r] /\ req[r].kind \in Kinds /\ tok'[r] \in {tok[r], tok'[r]}
  BY <1>1, <1>2, StepFrame DEF Gate, Request
<1>4. CASE Answered(r)
  <2>1. tok'[r] = tok[r]
    BY <1>2, <1>4 DEF Came, Answered
  <2> QED
    BY <1>3, <1>4, <2>1, BucketsGrow DEF Recorded
<1>5. CASE RecordRead(r)
  <2>1. tok[r] \in minted /\ minted \subseteq Calls
    BY <1>1, <1>5 DEF RecordRead, Control, TokenOwned, Holding, Gate, TypeOK
  <2>2. /\ results' = [results EXCEPT ![tok[r]][req[r].kind] = @ \cup req[r].ids]
        /\ tok' = tok
    BY <1>5 DEF RecordRead
  <2>3. results \in [Calls -> [Kinds -> SUBSET Memory]]
    BY DEF Gate, TypeOK
  <2> QED
    BY <1>3, <2>1, <2>2, <2>3
<1>6. CASE CloseViolation(r)
  BY <1>1, <1>3, <1>6 DEF CloseViolation, Control, OwnLane, Bound, Writing, Answered
<1> QED
  BY <1>2, <1>3, <1>4, <1>5, <1>6 DEF Came, Answered

\* Ids are counted as surfaced before they join a bucket.
LEMMA SurfacedStep ==
  ASSUME Gate, SurfacedFirst, CitableWasSurfaced, [Next]_vars
  PROVE  SurfacedFirst' /\ CitableWasSurfaced'
<1>1. /\ surfaced \in [Memory -> Nat] /\ results \in [Calls -> [Kinds -> SUBSET Memory]]
      /\ req \in [Calls -> Request] /\ minted \subseteq Calls
  BY DEF Gate, TypeOK
<1>2. ASSUME NEW m \in Memory, surfaced[m] > 0 PROVE surfaced'[m] > 0
  <2>1. ASSUME NEW c \in Calls, Surface(c) PROVE surfaced'[m] > 0
    <3>1. surfaced'[m] \in {surfaced[m], surfaced[m] + 1}
      BY <2>1 DEF Surface
    <3> QED
      BY <1>1, <1>2, <3>1
  <2> QED
    BY <1>2, <2>1, Accounts
<1>3. ASSUME NEW c \in Calls, pc'[c] = "record", NEW m \in req'[c].ids
      PROVE  surfaced'[m] > 0
  <2>1. Came(c) /\ pc[c] # "idle"
    BY <1>3, Comings DEF Came, Surface
  <2>2. req'[c] = req[c] /\ m \in Memory
    BY <1>1, <1>3, <2>1, StepFrame DEF Gate, Request
  <2>3. CASE pc[c] = "record"
    BY <1>2, <1>3, <2>2, <2>3 DEF SurfacedFirst
  <2>4. CASE Surface(c)
    <3>1. surfaced'[m] = surfaced[m] + 1
      BY <1>3, <2>2, <2>4 DEF Surface
    <3> QED
      BY <1>1, <2>2, <3>1
  <2> QED
    BY <1>3, <2>1, <2>3, <2>4 DEF Came
<1>4. ASSUME NEW t \in minted', NEW k \in Kinds, NEW m \in results'[t][k]
      PROVE  surfaced'[m] > 0
  <2>1. \A s \in Calls \ minted : results[s][k] = {}
    BY DEF Gate, Evidence, FreshTokensEmpty
  <2>2. t \in Calls
    BY <1>4, TypeStep DEF Gate, TypeOK
  <2>3. CASE m \in results[t][k]
    <3>1. m \in Memory
      BY <1>1, <2>2, <2>3
    <3>2. surfaced[m] > 0
      BY <2>1, <2>2, <2>3 DEF CitableWasSurfaced
    <3> QED
      BY <1>2, <3>1, <3>2
  <2>4. CASE m \notin results[t][k]
    <3>1. PICK c \in Calls : RecordRead(c)
      BY <1>4, <2>4, Accounts
    <3>2. /\ results' = [results EXCEPT ![tok[c]][req[c].kind] = @ \cup req[c].ids]
          /\ pc[c] = "record"
      BY <3>1 DEF RecordRead
    <3>3. m \in req[c].ids
      BY <1>1, <1>4, <2>2, <2>4, <3>2
    <3>4. m \in Memory /\ surfaced[m] > 0
      BY <1>1, <3>2, <3>3 DEF SurfacedFirst, Request
    <3> QED
      BY <1>2, <3>4
  <2> QED
    BY <2>3, <2>4
<1> QED
  BY <1>3, <1>4 DEF SurfacedFirst, CitableWasSurfaced

\* What is persisted goes with the labels.
LEMMA PersistedStep ==
  ASSUME Gate, Persisted, [Next]_vars
  PROVE  Persisted'
<1> SUFFICES ASSUME NEW c \in Calls
             PROVE  /\ Bound(c, {"idle", "check", "commit", "violation"})'
                         => c \notin (Written \cup Logged)'
                    /\ Bound(c, {"count"})' => c \in Written'
                    /\ pc'[c] = "tally" => violation'[c] = tok'[c]
  BY DEF Persisted
<1> DEFINE Early == {"idle", "check", "commit", "violation"}
<1>1. /\ Came(c) /\ home \in [Calls -> Memory \cup {None}] /\ pc \in [Calls -> Labels]
      /\ violation \in [Calls -> Calls \cup {None}] /\ after \in [Calls -> Labels]
  BY Comings DEF Gate, TypeOK
<1>2. ASSUME Bound(c, Early)' PROVE c \notin (Written \cup Logged)'
  <2>1. Bound(c, Early) /\ c \notin Written \cup Logged
    BY <1>1, <1>2 DEF Came, Persisted
  <2>2. home'[c] = home[c]
    <3>1. ASSUME NEW d \in Calls, Commit(d) PROVE home'[c] = home[c]
      <4>1. d # c
        BY <1>1, <1>2, <3>1 DEF Commit, EnsureLater, Goto, Bound
      <4>2. PICK m : home' = [home EXCEPT ![d] = m]
        BY <3>1 DEF Commit
      <4> QED
        BY <1>1, <4>1, <4>2
    <3> QED
      BY <3>1, Accounts
  <2>3. violation'[c] = violation[c]
    <3>1. ASSUME NEW d \in Calls, LogViolation(d) PROVE violation'[c] = violation[c]
      <4>1. d # c
        BY <1>1, <1>2, <3>1 DEF LogViolation, Goto, Bound
      <4> QED
        BY <1>1, <3>1, <4>1 DEF LogViolation
    <3> QED
      BY <3>1, Accounts
  <2> QED
    BY <2>1, <2>2, <2>3 DEF Written, Logged
<1>3. ASSUME Bound(c, {"count"})' PROVE c \in Written'
  <2>1. CASE Bound(c, {"count"})
    BY <2>1, RowsStay DEF Persisted
  <2>2. CASE Commit(c)
    <3>1. PICK m \in Memory : home' = [home EXCEPT ![c] = m]
      BY <2>2 DEF Commit, Rows, Memory
    <3>2. m # None
      BY <3>1, NoneIsFresh DEF Memory
    <3> QED
      BY <1>1, <3>1, <3>2 DEF Written
  <2> QED
    BY <1>1, <1>3, <2>1, <2>2 DEF Came
<1>4. ASSUME pc'[c] = "tally" PROVE violation'[c] = tok'[c]
  <2>1. CASE pc[c] = "tally"
    <3>1. violation[c] = tok[c] /\ tok'[c] = tok[c]
      BY <1>1, <2>1 DEF Came, Persisted
    <3>2. tok[c] \in Calls
      BY <2>1 DEF Gate, Control, TokenOwned, TypeOK, Holding
    <3>3. c \in Logged
      BY <3>1, <3>2, NoneIsFresh DEF Logged
    <3> QED
      BY <3>1, <3>3, RowsStay
  <2>2. CASE LogViolation(c)
    BY <1>1, <2>2 DEF LogViolation
  <2> QED
    BY <1>1, <1>4, <2>1, <2>2 DEF Came
<1> QED
  BY <1>2, <1>3, <1>4

\* Of two violations at most one is older than the other, through every step.
LEMMA OrderedStep ==
  ASSUME Gate, Persisted, Ordered, [Next]_vars
  PROVE  Ordered'
<1>1. /\ Written \subseteq Written' /\ Logged \subseteq Logged'
      /\ \A v \in Logged : violation'[v] = violation[v] /\ older'[v] = older[v]
  BY RowsStay
<1>2. ASSUME NEW v \in Calls, closedBy'[v] # None PROVE v \in Logged'
  <2>1. CASE closedBy[v] # None
    BY <1>1, <2>1 DEF Ordered
  <2>2. CASE closedBy[v] = None
    <3>1. PICK c \in Calls : CloseViolation(c)
      BY <1>2, <2>2, Accounts
    <3>2. violation[v] = tok[c]
      BY <1>2, <2>2, <3>1 DEF CloseViolation, Newest, Open
    <3>3. tok[c] \in Calls
      BY <3>1 DEF CloseViolation, Gate, Control, TokenOwned, TypeOK, Holding
    <3> QED
      BY <1>1, <3>2, <3>3, NoneIsFresh DEF Logged
  <2> QED
    BY <2>1, <2>2
<1>3. CASE UNCHANGED <<violation, older>>
  BY <1>1, <1>2, <1>3 DEF Ordered, Logged
<1>4. ASSUME NEW c \in Calls, LogViolation(c) PROVE Ordered'
  <2>1. c \notin Written \cup Logged
    BY <1>4 DEF LogViolation, Persisted, Bound
  <2>2. /\ violation' = [violation EXCEPT ![c] = tok[c]]
        /\ older' = [older EXCEPT ![c] = Written \cup Logged]
        /\ violation \in [Calls -> Calls \cup {None}] /\ older \in [Calls -> SUBSET Calls]
    BY <1>4 DEF LogViolation, Logged, Gate, TypeOK
  <2>3. Logged' \subseteq Logged \cup {c}
    BY <2>2 DEF Logged
  <2>4. \A v \in Calls : older'[v] \subseteq Written \cup Logged
    BY <2>2 DEF Ordered
  <2>5. ASSUME NEW v \in Logged', NEW w \in Logged', v # w
        PROVE  ~(v \in older'[w] /\ w \in older'[v])
    <3>1. \A u \in Logged : c \notin older[u] /\ older'[u] = older[u]
      BY <1>1, <2>1 DEF Ordered, Logged
    <3>2. (v \in Logged /\ w \in Logged) \/ (v = c /\ w \in Logged) \/ (w = c /\ v \in Logged)
      BY <2>3, <2>5
    <3> QED
      BY <2>5, <3>1, <3>2 DEF Ordered
  <2> QED
    BY <1>1, <1>2, <2>4, <2>5 DEF Ordered
<1> QED
  BY <1>3, <1>4, Accounts

\* The sizes of sets of calls.
LEMMA Sizes ==
  ASSUME NEW S \in (SUBSET Calls), NEW T \in (SUBSET Calls)
  PROVE  /\ Cardinality(S) \in Nat /\ Cardinality(T) \in Nat
         /\ S \subseteq T => Cardinality(S) <= Cardinality(T)
         /\ \A c \in Calls \ S : S \cup {c} \subseteq T => Cardinality(S) + 1 <= Cardinality(T)
         /\ \A c \in Calls : T \subseteq S \cup {c} => Cardinality(T) <= Cardinality(S) + 1
<1>1. IsFiniteSet(S) /\ IsFiniteSet(T)
  BY CallsFinite, FS_Subset
<1>2. Cardinality(S) \in Nat /\ Cardinality(T) \in Nat
  BY <1>1, FS_CardinalityType
<1>3. S \subseteq T => Cardinality(S) <= Cardinality(T)
  BY <1>1, FS_Subset
<1>4. ASSUME NEW c \in Calls \ S, S \cup {c} \subseteq T
      PROVE  Cardinality(S) + 1 <= Cardinality(T)
  <2>1. Cardinality(S \cup {c}) = Cardinality(S) + 1
    BY <1>1, <1>4, FS_AddElement
  <2> QED
    BY <1>1, <1>4, <2>1, FS_Subset
<1>5. ASSUME NEW c \in Calls, T \subseteq S \cup {c}
      PROVE  Cardinality(T) <= Cardinality(S) + 1
  <2>0. /\ IsFiniteSet(S \cup {c})
        /\ Cardinality(S \cup {c}) = IF c \in S THEN Cardinality(S) ELSE Cardinality(S) + 1
    BY <1>1, FS_AddElement
  <2>1. IsFiniteSet(S \cup {c}) /\ Cardinality(S \cup {c}) <= Cardinality(S) + 1
    <3>1. CASE c \in S
      <4>1. Cardinality(S \cup {c}) = Cardinality(S)
        BY <2>0, <3>1
      <4> QED
        BY <1>2, <2>0, <4>1
    <3>2. CASE c \notin S
      <4>1. Cardinality(S \cup {c}) = Cardinality(S) + 1
        BY <2>0, <3>2
      <4> QED
        BY <1>2, <2>0, <4>1
    <3> QED
      BY <3>1, <3>2
  <2>2. Cardinality(T) <= Cardinality(S \cup {c})
    BY <1>5, <2>1, FS_Subset
  <2>3. Cardinality(S \cup {c}) \in Nat
    BY <2>1, FS_CardinalityType
  <2> QED
    BY <1>2, <2>1, <2>2, <2>3
<1> QED
  BY <1>2, <1>3, <1>4, <1>5

\* How the sets behind the tallies move: refused and counted calls stay, and a
\* set that closes or is closed grows by the step that is named for it alone.
LEMMA TallySets ==
  ASSUME Gate, Persisted, Ordered, [Next]_vars, NEW t \in Calls
  PROVE  /\ Refused(t) \subseteq Refused(t)'
         /\ Counted(t) \subseteq Counted(t)'
         /\ closedBy' = closedBy => Closed(t)' \subseteq Closed(t)
         /\ (~ \E c \in Calls : CountSuccess(c)) => Closing(t)' \subseteq Closing(t)
<1>0. Written \subseteq Written' /\ (\A v \in Logged : violation'[v] = violation[v])
  BY RowsStay
<1>1. Refused(t) \subseteq Refused(t)'
  <2> SUFFICES ASSUME NEW v \in Refused(t) PROVE v \in Refused(t)'
    OBVIOUS
  <2>1. v \in Calls /\ violation[v] = t /\ pc[v] = "rejected" /\ v \in Logged
    BY NoneIsFresh DEF Refused, Logged
  <2>2. pc'[v] = pc[v]
    BY <2>1, StepFrame DEF Gate, Ended
  <2> QED
    BY <1>0, <2>1, <2>2 DEF Refused
<1>2. Counted(t) \subseteq Counted(t)'
  <2> SUFFICES ASSUME NEW c \in Counted(t) PROVE c \in Counted(t)'
    OBVIOUS
  <2>1. c \in Written /\ c \in Calls /\ tok[c] = t /\ pc[c] \in {"close", "done", "crashed"}
    BY DEF Counted, Written
  <2>2. tok'[c] = t
    BY <2>1, Comings DEF Came
  <2>3. pc'[c] \in {"close", "done", "crashed"}
    <3>1. CASE pc[c] = "close"
      BY <2>1, <3>1, Comings DEF Came
    <3>2. CASE pc[c] # "close"
      BY <2>1, <3>2, StepFrame DEF Gate, Ended
    <3> QED
      BY <3>1, <3>2
  <2> QED
    BY <1>0, <2>1, <2>2, <2>3 DEF Counted
<1>3. ASSUME closedBy' = closedBy PROVE Closed(t)' \subseteq Closed(t)
  BY <1>0, <1>3 DEF Closed, Ordered
<1>4. ASSUME ~ \E c \in Calls : CountSuccess(c) PROVE Closing(t)' \subseteq Closing(t)
  <2> SUFFICES ASSUME NEW c \in Closing(t)' PROVE c \in Closing(t)
    OBVIOUS
  <2>1. c \in Calls /\ pc'[c] = "close" /\ tok'[c] = t
    BY DEF Closing
  <2>2. Came(c)
    BY <2>1, Comings
  <2>3. pc[c] = "close"
    BY <1>4, <2>1, <2>2 DEF Came
  <2> QED
    BY <2>1, <2>2, <2>3 DEF Came, Closing
<1> QED
  BY <1>1, <1>2, <1>3, <1>4

\* A success closes one violation at most.
LEMMA NewestIsOne ==
  ASSUME Ordered, NEW t \in Calls
  PROVE  \A v, w \in Newest(Open(t)) : v = w
<1> SUFFICES ASSUME NEW v \in Newest(Open(t)), NEW w \in Newest(Open(t)), v # w PROVE FALSE
  OBVIOUS
<1>1. v \in Open(t) /\ w \in Open(t) /\ w \in older[v] /\ v \in older[w]
  BY DEF Newest
<1>2. v \in Logged /\ w \in Logged
  BY <1>1, NoneIsFresh DEF Open, Logged
<1> QED
  BY <1>1, <1>2 DEF Ordered

\* The tallies move with the sets they count.
LEMMA TalliedStep ==
  ASSUME Gate, Persisted, Ordered, Tallied, [Next]_vars
  PROVE  Tallied'
<1> SUFFICES ASSUME NEW t \in Calls
             PROVE  /\ attempted'[t] = succeeded'[t] + rejected'[t]
                    /\ rejected'[t] <= Cardinality(Refused(t)')
                    /\ Cardinality(Closed(t)') + Cardinality(Closing(t)') <= succeeded'[t]
                    /\ succeeded'[t] <= Cardinality(Counted(t)')
  BY DEF Tallied
<1> DEFINE r0 == Refused(t)  r1 == Refused(t)'
           d0 == Closed(t)   d1 == Closed(t)'
           g0 == Closing(t)  g1 == Closing(t)'
           k0 == Counted(t)  k1 == Counted(t)'
<1>1. /\ r0 \in SUBSET Calls /\ r1 \in SUBSET Calls /\ d0 \in SUBSET Calls /\ d1 \in SUBSET Calls
      /\ g0 \in SUBSET Calls /\ g1 \in SUBSET Calls /\ k0 \in SUBSET Calls /\ k1 \in SUBSET Calls
  BY DEF Refused, Closed, Closing, Counted, Written
<1>2. /\ attempted \in [Calls -> Nat] /\ succeeded \in [Calls -> Nat] /\ rejected \in [Calls -> Nat]
      /\ \A c \in Calls : pc[c] \in Holding => tok[c] \in Calls
  BY DEF Gate, TypeOK, Control, TokenOwned
<1>3. /\ attempted[t] = succeeded[t] + rejected[t]
      /\ rejected[t] <= Cardinality(r0)
      /\ Cardinality(d0) + Cardinality(g0) <= succeeded[t]
      /\ succeeded[t] <= Cardinality(k0)
  BY DEF Tallied
<1>4. /\ r0 \subseteq r1 /\ k0 \subseteq k1
      /\ closedBy' = closedBy => d1 \subseteq d0
      /\ (~ \E c \in Calls : CountSuccess(c)) => g1 \subseteq g0
  BY TallySets
<1>5. /\ Cardinality(r0) \in Nat /\ Cardinality(r1) \in Nat /\ Cardinality(r0) <= Cardinality(r1)
      /\ Cardinality(k0) \in Nat /\ Cardinality(k1) \in Nat /\ Cardinality(k0) <= Cardinality(k1)
      /\ Cardinality(d0) \in Nat /\ Cardinality(d1) \in Nat
      /\ Cardinality(g0) \in Nat /\ Cardinality(g1) \in Nat
  BY <1>1, <1>4, Sizes
<1>6. /\ d1 \subseteq d0 => Cardinality(d1) <= Cardinality(d0)
      /\ g1 \subseteq g0 => Cardinality(g1) <= Cardinality(g0)
  BY <1>1, Sizes
<1>7. /\ \A c \in Calls \ r0 : r0 \cup {c} \subseteq r1 => Cardinality(r0) + 1 <= Cardinality(r1)
      /\ \A c \in Calls \ k0 : k0 \cup {c} \subseteq k1 => Cardinality(k0) + 1 <= Cardinality(k1)
      /\ \A c \in Calls \ g1 : g1 \cup {c} \subseteq g0 => Cardinality(g1) + 1 <= Cardinality(g0)
      /\ \A c \in Calls : g1 \subseteq g0 \cup {c} => Cardinality(g1) <= Cardinality(g0) + 1
      /\ \A c \in Calls : d1 \subseteq d0 \cup {c} => Cardinality(d1) <= Cardinality(d0) + 1
  BY <1>1, Sizes
<1>8. ASSUME NEW c \in Calls, CountSuccess(c)
      PROVE  /\ attempted'[t] = succeeded'[t] + rejected'[t]
             /\ rejected'[t] <= Cardinality(r1)
             /\ Cardinality(d1) + Cardinality(g1) <= succeeded'[t]
             /\ succeeded'[t] <= Cardinality(k1)
  <2>1. /\ attempted' = [attempted EXCEPT ![tok[c]] = @ + 1]
        /\ succeeded' = [succeeded EXCEPT ![tok[c]] = @ + 1]
        /\ rejected' = rejected /\ closedBy' = closedBy /\ tok' = tok /\ home' = home
        /\ pc[c] = "count" /\ pc' = [pc EXCEPT ![c] = "close"]
    BY <1>8 DEF CountSuccess, Goto, memory, journal
  <2>2. tok[c] \in Calls
    BY <1>2, <2>1 DEF Holding
  <2>3. pc \in [Calls -> Labels] /\ c \in Written
    BY <2>1 DEF Gate, TypeOK, Persisted, Bound
  <2>4. CASE t = tok[c]
    <3>1. attempted'[t] = attempted[t] + 1 /\ succeeded'[t] = succeeded[t] + 1
      BY <1>2, <2>1, <2>4
    <3>2. c \notin k0 /\ k0 \cup {c} \subseteq k1
      BY <1>4, <2>1, <2>3, <2>4 DEF Counted, Written
    <3>3. g1 \subseteq g0 \cup {c}
      BY <2>1, <2>3 DEF Closing
    <3>4. Cardinality(k0) + 1 <= Cardinality(k1) /\ Cardinality(g1) <= Cardinality(g0) + 1
      BY <1>7, <3>2, <3>3
    <3>5. Cardinality(d1) <= Cardinality(d0)
      BY <1>4, <1>6, <2>1
    <3> HIDE DEF r0, r1, d0, d1, g0, g1, k0, k1
    <3> QED
      BY <1>2, <1>3, <1>5, <2>1, <3>1, <3>4, <3>5
  <2>5. CASE t # tok[c]
    <3>1. attempted'[t] = attempted[t] /\ succeeded'[t] = succeeded[t]
      BY <1>2, <2>1, <2>5
    <3>2. g1 \subseteq g0
      BY <2>1, <2>3, <2>5 DEF Closing
    <3>3. Cardinality(d1) <= Cardinality(d0) /\ Cardinality(g1) <= Cardinality(g0)
      BY <1>4, <1>6, <2>1, <3>2
    <3> HIDE DEF r0, r1, d0, d1, g0, g1, k0, k1
    <3> QED
      BY <1>2, <1>3, <1>5, <2>1, <3>1, <3>3
  <2> QED
    BY <2>4, <2>5
<1>9. ASSUME NEW c \in Calls, TallyRejection(c)
      PROVE  /\ attempted'[t] = succeeded'[t] + rejected'[t]
             /\ rejected'[t] <= Cardinality(r1)
             /\ Cardinality(d1) + Cardinality(g1) <= succeeded'[t]
             /\ succeeded'[t] <= Cardinality(k1)
  <2>1. /\ attempted' = [attempted EXCEPT ![tok[c]] = @ + 1]
        /\ rejected' = [rejected EXCEPT ![tok[c]] = @ + 1]
        /\ succeeded' = succeeded /\ closedBy' = closedBy /\ tok' = tok
        /\ violation' = violation
        /\ pc[c] = "tally" /\ pc' = [pc EXCEPT ![c] = "rejected"]
    BY <1>9 DEF TallyRejection, Goto, memory, journal
  <2>2. tok[c] \in Calls /\ violation[c] = tok[c]
    BY <1>2, <2>1 DEF Holding, Persisted
  <2>3. pc \in [Calls -> Labels]
    BY DEF Gate, TypeOK
  <2>4. g1 \subseteq g0
    BY <2>1, <2>3 DEF Closing
  <2>5. Cardinality(d1) <= Cardinality(d0) /\ Cardinality(g1) <= Cardinality(g0)
    BY <1>4, <1>6, <2>1, <2>4
  <2>6. CASE t = tok[c]
    <3>1. attempted'[t] = attempted[t] + 1 /\ rejected'[t] = rejected[t] + 1
      BY <1>2, <2>1, <2>6
    <3>2. c \notin r0 /\ r0 \cup {c} \subseteq r1
      BY <1>4, <2>1, <2>2, <2>3, <2>6 DEF Refused
    <3>3. Cardinality(r0) + 1 <= Cardinality(r1)
      BY <1>7, <3>2
    <3> HIDE DEF r0, r1, d0, d1, g0, g1, k0, k1
    <3> QED
      BY <1>2, <1>3, <1>5, <2>1, <2>5, <3>1, <3>3
  <2>7. CASE t # tok[c]
    <3>1. attempted'[t] = attempted[t] /\ rejected'[t] = rejected[t]
      BY <1>2, <2>1, <2>7
    <3> HIDE DEF r0, r1, d0, d1, g0, g1, k0, k1
    <3> QED
      BY <1>2, <1>3, <1>5, <2>1, <2>5, <3>1
  <2> QED
    BY <2>6, <2>7
<1>10. ASSUME NEW c \in Calls, CloseViolation(c)
       PROVE  /\ attempted'[t] = succeeded'[t] + rejected'[t]
              /\ rejected'[t] <= Cardinality(r1)
              /\ Cardinality(d1) + Cardinality(g1) <= succeeded'[t]
              /\ succeeded'[t] <= Cardinality(k1)
  <2>1. /\ UNCHANGED <<attempted, succeeded, rejected, violation, tok>>
        /\ closedBy' = [v \in Calls |-> IF v \in Newest(Open(tok[c])) THEN c ELSE closedBy[v]]
        /\ pc[c] = "close" /\ pc' = [pc EXCEPT ![c] = "done"]
    BY <1>10 DEF CloseViolation, Goto, token
  <2>2. pc \in [Calls -> Labels] /\ tok[c] \in Calls
    BY <1>2, <2>1 DEF Gate, TypeOK, Holding
  <2>3. g1 \subseteq g0
    BY <2>1, <2>2 DEF Closing
  <2>4. Cardinality(d1) + Cardinality(g1) <= Cardinality(d0) + Cardinality(g0)
    <3>1. CASE t = tok[c]
      <4>1. c \notin g1 /\ g1 \cup {c} \subseteq g0
        BY <2>1, <2>2, <2>3, <3>1 DEF Closing
      <4>2. \E v \in Calls : d1 \subseteq d0 \cup {v}
        <5>1. d1 \subseteq d0 \cup Newest(Open(t))
          BY <2>1, <3>1 DEF Closed
        <5>2. Newest(Open(t)) \subseteq Calls
          BY DEF Newest, Open
        <5> QED
          BY <5>1, <5>2, NewestIsOne
      <4>3. Cardinality(g1) + 1 <= Cardinality(g0) /\ Cardinality(d1) <= Cardinality(d0) + 1
        BY <1>7, <4>1, <4>2
      <4> HIDE DEF d0, d1, g0, g1
      <4> QED
        BY <1>5, <4>3
    <3>2. CASE t # tok[c]
      <4>1. d1 \subseteq d0
        BY <2>1, <3>2 DEF Closed, Newest, Open
      <4>2. Cardinality(d1) <= Cardinality(d0) /\ Cardinality(g1) <= Cardinality(g0)
        BY <1>6, <2>3, <4>1
      <4> HIDE DEF d0, d1, g0, g1
      <4> QED
        BY <1>5, <4>2
    <3> QED
      BY <3>1, <3>2
  <2> HIDE DEF r0, r1, d0, d1, g0, g1, k0, k1
  <2> QED
    BY <1>2, <1>3, <1>5, <2>1, <2>4
<1>11. ASSUME ~ \E c \in Calls : CountSuccess(c) \/ TallyRejection(c) \/ CloseViolation(c)
       PROVE  /\ attempted'[t] = succeeded'[t] + rejected'[t]
              /\ rejected'[t] <= Cardinality(r1)
              /\ Cardinality(d1) + Cardinality(g1) <= succeeded'[t]
              /\ succeeded'[t] <= Cardinality(k1)
  <2>1. UNCHANGED <<attempted, succeeded, rejected, closedBy>>
    BY <1>11, Accounts
  <2>2. Cardinality(d1) <= Cardinality(d0) /\ Cardinality(g1) <= Cardinality(g0)
    BY <1>4, <1>6, <1>11, <2>1
  <2> HIDE DEF r0, r1, d0, d1, g0, g1, k0, k1
  <2> QED
    BY <1>2, <1>3, <1>5, <2>1, <2>2
<1> QED
  BY <1>8, <1>9, <1>10, <1>11

\* The accounts are kept along with the gate.
LEMMA BooksInvariant == Spec => [](Gate /\ Books)
<1>1. Init => Gate /\ Books
  <2> SUFFICES ASSUME Init PROVE Gate /\ Books
    OBVIOUS
  <2>1. Gate
    <3>1. TypeOK
      BY DEF Init, TypeOK, Request, Labels, Kinds, Memory, Citation
    <3>2. Control
      BY NoneIsFresh DEF Init, Control, Started, Waiting, MemoOwned, TokenOwned, OwnLane,
         Rooted, Bound, Written, Holding, Reading, Writing
    <3>3. Evidence
      BY DEF Init, Evidence, FreshTokensEmpty, BucketsReturned, CountsSearched,
         WritesBacked, Bound, Written
    <3> QED
      BY <3>1, <3>2, <3>3 DEF Gate
  <2>2. Recorded /\ SurfacedFirst /\ CitableWasSurfaced
    BY DEF Init, Recorded, Answered, SurfacedFirst, CitableWasSurfaced
  <2>3. Persisted /\ Ordered
    BY DEF Init, Persisted, Ordered, Bound, Written, Logged
  <2>4. Tallied
    <3> SUFFICES ASSUME NEW t \in Calls
                 PROVE  /\ attempted[t] = succeeded[t] + rejected[t]
                        /\ rejected[t] <= Cardinality(Refused(t))
                        /\ Cardinality(Closed(t)) + Cardinality(Closing(t)) <= succeeded[t]
                        /\ succeeded[t] <= Cardinality(Counted(t))
      BY DEF Tallied
    <3>1. Refused(t) = {} /\ Closed(t) = {} /\ Closing(t) = {} /\ Counted(t) = {}
      BY DEF Init, Refused, Closed, Closing, Counted, Written
    <3>2. attempted[t] = 0 /\ succeeded[t] = 0 /\ rejected[t] = 0
      BY DEF Init
    <3> QED
      BY <3>1, <3>2, FS_EmptySet
  <2> QED
    BY <2>1, <2>2, <2>3, <2>4 DEF Books
<1>2. Gate /\ Books /\ [Next]_vars => (Gate /\ Books)'
  <2> SUFFICES ASSUME Gate, Books, [Next]_vars PROVE Gate' /\ Books'
    OBVIOUS
  <2>1. Gate'
    BY TypeStep, ControlStep, EvidenceStep DEF Gate
  <2>2. /\ Recorded' /\ SurfacedFirst' /\ CitableWasSurfaced'
        /\ Persisted' /\ Ordered' /\ Tallied'
    BY RecordedStep, SurfacedStep, PersistedStep, OrderedStep, TalliedStep DEF Books
  <2> QED
    BY <2>1, <2>2 DEF Books
<1> QED
  BY <1>1, <1>2, PTL DEF Spec

\* What a finished read returned stays in the bucket of its token, however many
\* reads and processes record at once.
THEOREM ReadsStay == Spec => []ReadsStayCitable
<1>1. Books => ReadsStayCitable
  BY DEF Books, Recorded, ReadsStayCitable
<1> QED
  BY <1>1, BooksInvariant, PTL

\* An id that can be cited was counted as surfaced first, crashes included.
THEOREM CitableAreSurfaced == Spec => []CitableWasSurfaced
<1>1. Books => CitableWasSurfaced
  BY DEF Books
<1> QED
  BY <1>1, BooksInvariant, PTL

\* The tallies of every token agree with its violations, whatever its calls and
\* crashes leave half done.
THEOREM TalliesAgree == Spec => []TalliesAddUp
<1>1. Gate /\ Books => TalliesAddUp
  <2> SUFFICES ASSUME Gate, Books, NEW t \in minted
               PROVE  /\ attempted[t] = succeeded[t] + rejected[t]
                      /\ rejected[t] <= Cardinality({v \in Calls : violation[v] = t})
                      /\ Cardinality({v \in Calls : violation[v] = t /\ closedBy[v] # None})
                           <= succeeded[t]
    BY DEF TalliesAddUp
  <2> DEFINE rows == {v \in Calls : violation[v] = t}
  <2>1. /\ t \in Calls /\ succeeded[t] \in Nat /\ rejected[t] \in Nat
        /\ Refused(t) \in SUBSET Calls /\ Closed(t) \in SUBSET Calls
        /\ Closing(t) \in SUBSET Calls /\ rows \in SUBSET Calls /\ Refused(t) \subseteq rows
    BY DEF Gate, TypeOK, Refused, Closed, Closing
  <2>2. /\ attempted[t] = succeeded[t] + rejected[t]
        /\ rejected[t] <= Cardinality(Refused(t))
        /\ Cardinality(Closed(t)) + Cardinality(Closing(t)) <= succeeded[t]
    BY <2>1 DEF Books, Tallied
  <2>3. /\ Cardinality(Refused(t)) <= Cardinality(rows)
        /\ Cardinality(Refused(t)) \in Nat /\ Cardinality(rows) \in Nat
        /\ Cardinality(Closed(t)) \in Nat /\ Cardinality(Closing(t)) \in Nat
    BY <2>1, Sizes
  <2>4. rejected[t] <= Cardinality(rows) /\ Cardinality(Closed(t)) <= succeeded[t]
    BY <2>1, <2>2, <2>3
  <2> QED
    BY <2>2, <2>4 DEF Closed
<1> QED
  BY <1>1, BooksInvariant, PTL

\* A token never counts more successes than its calls have persisted writes.
THEOREM SuccessesAreWritten == Spec => []SuccessesWereWritten
<1>1. Gate /\ Books => SuccessesWereWritten
  <2> SUFFICES ASSUME Gate, Books, NEW t \in minted
               PROVE  succeeded[t] <= Cardinality({c \in Written : tok[c] = t})
    BY DEF SuccessesWereWritten
  <2> DEFINE writes == {c \in Written : tok[c] = t}
  <2>1. /\ t \in Calls /\ succeeded[t] \in Nat
        /\ Counted(t) \in SUBSET Calls /\ writes \in SUBSET Calls /\ Counted(t) \subseteq writes
    BY DEF Gate, TypeOK, Counted, Written
  <2>2. succeeded[t] <= Cardinality(Counted(t))
    BY <2>1 DEF Books, Tallied
  <2>3. /\ Cardinality(Counted(t)) <= Cardinality(writes)
        /\ Cardinality(Counted(t)) \in Nat /\ Cardinality(writes) \in Nat
    BY <2>1, Sizes
  <2> QED
    BY <2>1, <2>2, <2>3
<1> QED
  BY <1>1, BooksInvariant, PTL
----------------------------------------------------------------------------
(***************************************************************************)
(* Where the two claims that the runs refute come from: a server that let    *)
(* one tool call end before it took the next would keep both.  Several       *)
(* processes on one database, and crashes, are harmless to them.             *)
(***************************************************************************)

Runs(c) == pc[c] \notin Ended \cup {"idle"}

OneAtATime == \A c, d \in Calls : Runs(c) /\ Runs(d) /\ proc[c] = proc[d] => c = d

\* The memo names the one token of its process, and is empty while it is minted.
Single ==
  /\ \A t \in minted : memo[proc[t]] = t
  /\ \A c \in Calls : pc[c] = "mint" => memo[proc[c]] = None

\* A violation is logged under a token of its own process, and what still runs
\* there is not older than it.
Dated ==
  /\ \A v \in Logged : violation[v] \in minted /\ proc[violation[v]] = proc[v]
  /\ \A v \in Logged, c \in Calls : Runs(c) /\ proc[c] = proc[v] => c \notin older[v]

\* A token row and the memo are written together; a call that runs on ran
\* before or starts with this step, and one comes to mint with no memo in sight.
LEMMA Minting ==
  ASSUME Gate, [Next]_vars
  PROVE  /\ UNCHANGED <<minted, memo>> \/ \E c \in Calls : Mint(c)
         /\ \A c \in Calls : Runs(c)' => Runs(c) \/ pc[c] = "idle"
         /\ \A c \in Calls : pc'[c] = "mint" /\ pc[c] # "mint" => memo'[proc'[c]] = None
<1> USE DEF server, token, local, Goto, EnsureLater
<1>0. /\ pc \in [Calls -> Labels] /\ proc \in [Calls -> Procs \cup {None}]
      /\ after \in [Calls -> Labels]
      /\ \A c \in Calls : pc[c] \in {"token", "mint"} => after[c] # "mint"
  BY DEF Gate, TypeOK, Control, Waiting, Awaited
<1>1. \A c \in Calls : Runs(c)' => Runs(c) \/ pc[c] = "idle"
  BY StepFrame DEF Gate, Runs, Ended
<1>2. ASSUME NEW c \in Calls, NEW p \in Procs, NEW r \in Requests, Start(c, p, r)
      PROVE  /\ UNCHANGED <<minted, memo>>
             /\ \A d \in Calls : pc'[d] = "mint" /\ pc[d] # "mint" => memo'[proc'[d]] = None
  <2>1. Entry(r) # "mint"
    BY DEF Entry
  <2>2. /\ UNCHANGED <<minted, memo>>
        /\ proc' = [proc EXCEPT ![c] = p]
        /\ \/ memo[p] = None /\ pc' = [pc EXCEPT ![c] = "mint"]
           \/ pc' = [pc EXCEPT ![c] = Entry(r)]
    BY <1>2 DEF Start, Ensure
  <2> QED
    BY <1>0, <2>1, <2>2
<1>3. ASSUME NEW c \in Calls, UseMemo(c)
      PROVE  /\ UNCHANGED <<minted, memo>>
             /\ \A d \in Calls : pc'[d] = "mint" /\ pc[d] # "mint" => memo'[proc'[d]] = None
  <2>1. /\ UNCHANGED <<minted, memo, proc>> /\ pc[c] = "token"
        /\ \/ memo[proc[c]] = None /\ pc' = [pc EXCEPT ![c] = "mint"]
           \/ pc' = [pc EXCEPT ![c] = after[c]]
    BY <1>3 DEF UseMemo, Ensure
  <2> QED
    BY <1>0, <2>1
<1>4. ASSUME NEW c \in Calls, Mint(c)
      PROVE  \A d \in Calls : pc'[d] = "mint" => pc[d] = "mint"
  BY <1>0, <1>4 DEF Mint
<1>5. ASSUME NEW c \in Calls,
             \/ Surface(c) \/ RecordRead(c) \/ Check(c) \/ Commit(c) \/ Abort(c)
             \/ CountSuccess(c) \/ CloseViolation(c) \/ LogViolation(c) \/ TallyRejection(c)
      PROVE  UNCHANGED <<minted, memo>> /\ \A d \in Calls : pc'[d] = "mint" => pc[d] = "mint"
  BY <1>0, <1>5 DEF Surface, RecordRead, Check, Commit, Abort, CountSuccess, CloseViolation,
                    LogViolation, TallyRejection
<1>6. ASSUME NEW p \in Procs, Crash(p)
      PROVE  UNCHANGED <<minted, memo>> /\ \A d \in Calls : pc'[d] = "mint" => pc[d] = "mint"
  BY <1>6 DEF Crash
<1>7. CASE UNCHANGED vars
  BY <1>1, <1>7 DEF vars
<1> QED
  BY <1>1, <1>2, <1>3, <1>4, <1>5, <1>6, <1>7 DEF Next, Step

\* With one call at a time nothing is minted twice for a process.
LEMMA SingleStep ==
  ASSUME Gate, Single, OneAtATime, [Next]_vars
  PROVE  Single'
<1>0. /\ minted \subseteq Calls /\ memo \in [Procs -> Calls \cup {None}] /\ None \notin Calls
      /\ proc \in [Calls -> Procs \cup {None}] /\ pc \in [Calls -> Labels]
      /\ after \in [Calls -> Labels]
  BY NoneIsFresh DEF Gate, TypeOK
<1>1. \A c \in Calls : pc[c] # "idle" => proc'[c] = proc[c] /\ proc[c] \in Procs
  BY StepFrame DEF Gate, Control, Started
<1>2. \A t \in minted : proc'[t] = proc[t]
  BY <1>0, <1>1 DEF Gate, Control, MemoOwned
<1>3. CASE UNCHANGED <<minted, memo>>
  <2>1. \A t \in minted' : memo'[proc'[t]] = t
    BY <1>2, <1>3 DEF Single
  <2>2. \A c \in Calls : pc'[c] = "mint" => memo'[proc'[c]] = None
    BY <1>1, <1>3, Minting DEF Single
  <2> QED
    BY <2>1, <2>2 DEF Single
<1>4. ASSUME NEW c \in Calls, Mint(c) PROVE Single'
  <2>1. /\ minted' = minted \cup {c} /\ memo' = [memo EXCEPT ![proc[c]] = c]
        /\ pc[c] = "mint" /\ pc' = [pc EXCEPT ![c] = after[c]] /\ proc' = proc
    BY <1>4 DEF Mint, Goto
  <2>2. proc[c] \in Procs /\ after[c] # "mint" /\ memo[proc[c]] = None
    BY <1>1, <2>1 DEF Single, Gate, Control, Waiting, Awaited
  <2>3. \A t \in minted : proc[t] # proc[c] /\ memo[proc[t]] = t
    BY <1>0, <2>2 DEF Single
  <2>4. \A t \in minted : proc[t] \in Procs
    BY <1>0, <1>1 DEF Gate, Control, MemoOwned
  <2>5. \A t \in minted' : memo'[proc'[t]] = t
    BY <1>0, <2>1, <2>2, <2>3, <2>4
  <2>6. ASSUME NEW d \in Calls, pc'[d] = "mint" PROVE memo'[proc'[d]] = None
    <3>1. d # c /\ pc[d] = "mint" /\ memo[proc[d]] = None /\ proc[d] \in Procs
      BY <1>0, <1>1, <2>1, <2>2, <2>6 DEF Single
    <3>2. proc[d] # proc[c]
      BY <2>1, <3>1 DEF OneAtATime, Runs, Ended
    <3> QED
      BY <1>0, <2>1, <3>1, <3>2
  <2> QED
    BY <2>5, <2>6 DEF Single
<1> QED
  BY <1>3, <1>4, Minting

\* With one call at a time whatever runs when a violation is logged, or starts
\* later, persists after it.
LEMMA DatedStep ==
  ASSUME Gate, Persisted, Ordered, Dated, RecoveredByLaterWrite, OneAtATime, [Next]_vars
  PROVE  Dated' /\ RecoveredByLaterWrite'
<1>0. /\ older \in [Calls -> SUBSET Calls] /\ pc \in [Calls -> Labels] /\ None \notin Calls
      /\ violation \in [Calls -> Calls \cup {None}] /\ minted \subseteq Calls
  BY NoneIsFresh DEF Gate, TypeOK
<1>1. /\ \A c \in Calls : pc[c] # "idle" => proc'[c] = proc[c]
      /\ \A c \in Calls : pc[c] = "idle" => c \notin Written \cup Logged
      /\ \A c \in Calls : Runs(c)' => Runs(c) \/ pc[c] = "idle"
  BY StepFrame, Minting DEF Gate, Persisted, Bound
<1>2. minted \subseteq minted' /\ \A t \in minted : proc'[t] = proc[t]
  <2>1. minted \subseteq minted'
    BY Minting DEF Mint
  <2> QED
    BY <1>0, <1>1, <2>1 DEF Gate, Control, MemoOwned
<1>3. \A v \in Logged : /\ v \in Calls /\ proc'[v] = proc[v]
                       /\ violation'[v] = violation[v] /\ older'[v] = older[v]
  BY <1>1, RowsStay DEF Logged
<1>4. ASSUME NEW v \in Logged' \ Logged
      PROVE  /\ LogViolation(v) /\ proc'[v] = proc[v]
             /\ violation'[v] = tok[v] /\ older'[v] = Written \cup Logged
  <2>1. v \in Calls /\ violation[v] = None /\ violation'[v] # None
    BY DEF Logged
  <2>2. PICK c \in Calls : LogViolation(c)
    BY <2>1, Accounts
  <2>3. /\ violation' = [violation EXCEPT ![c] = tok[c]] /\ UNCHANGED server
        /\ older' = [older EXCEPT ![c] = Written \cup Logged]
    BY <2>2 DEF LogViolation, Logged
  <2>4. v = c
    BY <1>0, <2>1, <2>3
  <2> QED
    BY <1>0, <2>2, <2>3, <2>4 DEF server
<1>5. ASSUME NEW v \in Logged'
      PROVE  violation'[v] \in minted' /\ proc'[violation'[v]] = proc'[v]
  <2>1. CASE v \in Logged
    BY <1>2, <1>3, <2>1 DEF Dated
  <2>2. CASE v \notin Logged
    <3>1. pc[v] = "violation" /\ v \in Calls
      BY <1>4, <2>2 DEF LogViolation, Logged
    <3>2. tok[v] \in minted /\ proc[tok[v]] = proc[v]
      BY <3>1 DEF Gate, Control, TokenOwned, Holding
    <3> QED
      BY <1>2, <1>4, <2>2, <3>2
  <2> QED
    BY <2>1, <2>2
<1>6. ASSUME NEW v \in Logged', NEW c \in Calls, Runs(c)', proc'[c] = proc'[v]
      PROVE  c \notin older'[v]
  <2>1. older'[v] \subseteq Written \cup Logged
    BY <1>3, <1>4 DEF Ordered
  <2>2. CASE pc[c] = "idle"
    BY <1>1, <2>1, <2>2
  <2>3. CASE Runs(c) /\ v \in Logged
    <3>1. proc[c] = proc[v]
      BY <1>1, <1>3, <1>6, <2>3 DEF Runs
    <3> QED
      BY <1>3, <2>3, <3>1 DEF Dated
  <2>4. CASE Runs(c) /\ v \notin Logged
    <3>1. v \in Calls /\ pc[v] = "violation"
      BY <1>4, <2>4 DEF LogViolation, Logged
    <3>2. proc[c] = proc[v] /\ Runs(v)
      BY <1>1, <1>4, <1>6, <2>4, <3>1 DEF Runs, Ended
    <3>3. c = v
      BY <2>4, <3>1, <3>2 DEF OneAtATime
    <3>4. v \notin Written \cup Logged
      BY <3>1 DEF Persisted, Bound
    <3> QED
      BY <2>1, <3>3, <3>4
  <2> QED
    BY <1>1, <1>6, <2>2, <2>3, <2>4
<1>7. ASSUME NEW v \in Calls, closedBy'[v] # None PROVE closedBy'[v] \notin older'[v]
  <2>1. CASE closedBy'[v] = closedBy[v]
    <3>1. v \in Logged
      BY <1>7, <2>1 DEF Ordered
    <3> QED
      BY <1>3, <1>7, <2>1, <3>1 DEF RecoveredByLaterWrite
  <2>2. CASE closedBy'[v] # closedBy[v]
    <3>1. PICK c \in Calls : CloseViolation(c)
      BY <2>2, Accounts
    <3>2. /\ closedBy'[v] = c /\ violation[v] = tok[c] /\ pc[c] = "close"
      BY <2>2, <3>1 DEF CloseViolation, Newest, Open
    <3>3. tok[c] \in Calls /\ proc[tok[c]] = proc[c]
      BY <1>0, <3>2 DEF Gate, Control, TokenOwned, Holding
    <3>4. v \in Logged
      BY <1>0, <3>2, <3>3 DEF Logged
    <3>5. Runs(c) /\ proc[c] = proc[v]
      BY <3>2, <3>3, <3>4 DEF Dated, Runs, Ended
    <3> QED
      BY <1>3, <3>2, <3>4, <3>5 DEF Dated
  <2> QED
    BY <2>1, <2>2
<1> QED
  BY <1>5, <1>6, <1>7 DEF Dated, RecoveredByLaterWrite

\* One token row per process, as the comment on ensureSessionToken has it, in
\* every behaviour in which no two calls of a process overlap: the run that
\* refutes it without this premise needs two, both past the test of the memo.
THEOREM OneTokenIfOneAtATime == Spec /\ []OneAtATime => []OneTokenPerProcess
<1>1. Init => Single
  BY DEF Init, Single
<1>2. Gate /\ Single /\ OneAtATime /\ [Next]_vars => Single'
  BY SingleStep
<1>3. Single => OneTokenPerProcess
  BY DEF Single, OneTokenPerProcess
<1> QED
  BY <1>1, <1>2, <1>3, BooksInvariant, PTL DEF Spec

\* A violation is marked recovered by a write that came after it, in every
\* behaviour in which no two calls of a process overlap.  The newest open
\* violation may belong to a call that was logged while the write went on, and
\* nothing else makes the report wrong.
THEOREM RecoveredLaterIfOneAtATime == Spec /\ []OneAtATime => []RecoveredByLaterWrite
<1>1. Init => Dated /\ RecoveredByLaterWrite
  BY DEF Init, Dated, Logged, RecoveredByLaterWrite
<1>2. Gate /\ Books /\ Dated /\ RecoveredByLaterWrite /\ OneAtATime /\ [Next]_vars
        => Dated' /\ RecoveredByLaterWrite'
  BY DatedStep DEF Books
<1> QED
  BY <1>1, <1>2, BooksInvariant, PTL DEF Spec

=============================================================================
