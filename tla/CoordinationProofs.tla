--------------------------- MODULE CoordinationProofs ---------------------------
(***************************************************************************)
(* Proofs about what operators change while others do: Shares,               *)
(* OperatorTasks and Ideas, for any requests and bounds; and about the whole   *)
(* of MCCoordination, with what BoardProofs, PlansProofs and CaptureProofs      *)
(* prove of its other components: a step of the sum is a step of one of them    *)
(* and none of the others (CoordinationSteps).                                *)
(*                                                                          *)
(* Shares.  A request holds no project, the first or both, so that one that   *)
(* waits for the second is waited for only at the first (Held): there is no   *)
(* circle, and a transaction past its locks is alone.  What it has read of    *)
(* earlier shares and of the artifact is then so until it commits (Grants),    *)
(* which makes the audit trail right (Trail).                                 *)
(*                                                                          *)
(* OperatorTasks.  A row is locked by one request and nobody else changes it   *)
(* (RowsHeld), so what a removal has compared under its locks is what it       *)
(* removes.                                                                   *)
(*                                                                          *)
(* Ideas.  A band is locked by one request (BandsApart), and a write changes   *)
(* no band it has not locked.  So what a request has found in the bands it    *)
(* holds is still so when it writes: where the idea is (Fits), that its place  *)
(* is free, and that the column is the one the operator was shown (Judged).    *)
(* A request that waits for a row holds its bands and is waited for by nobody  *)
(* who waits for a row; one that waits for a band holds a smaller one, or none. *)
(***************************************************************************)
EXTENDS MCCoordination, BoardProofs, PlansProofs, CaptureProofs, FiniteSetTheorems,
        WellFoundedInduction, TLAPS

Share == [source : Projects, copy : 0 .. MaxTexts, active : BOOLEAN]
Events == {<<"grant">>, <<"regrant">>, <<"grant", "revoke">>, <<"regrant", "revoke">>}

ShareCallType ==
  [at : {"idle", "lock", "snapshot", "prior", "insert", "revoke"},
   kind : {"none", "grant", "revoke"}, source : Projects, share : 0 .. MaxShares,
   held : SUBSET Projects, copy : 0 .. MaxTexts, regrant : BOOLEAN]

SharesTables ==
  /\ shares \in [DOMAIN shares -> Share]
  /\ events \in [DOMAIN shares -> Events]
  /\ shareCall \in [ShareCalls -> ShareCallType]

Late == {"snapshot", "prior", "insert", "revoke"}

\* Locks are taken in the order of the projects and kept to the end.
Held ==
  /\ \A c \in ShareCalls :
       /\ shareCall[c].at = "idle" => shareCall[c].held = {}
       /\ shareCall[c].at = "lock" => shareCall[c].held \in {{}, {1}}
       /\ shareCall[c].at \in Late => shareCall[c].held = Projects
  /\ \A c, d \in ShareCalls, p \in Projects :
       p \in shareCall[c].held /\ p \in shareCall[d].held => c = d

\* What a grant has read, and what share a request is about.
Grants ==
  /\ \A c \in ShareCalls :
       /\ shareCall[c].at \in {"snapshot", "prior", "insert"} => shareCall[c].kind = "grant"
       /\ shareCall[c].kind = "grant" => shareCall[c].share \in (1 .. grants) \ DOMAIN shares
       /\ shareCall[c].at \in {"prior", "insert"} =>
            /\ ~artifacts[shareCall[c].source].gone
            /\ shareCall[c].copy = artifacts[shareCall[c].source].text
       /\ shareCall[c].at = "insert" =>
            (shareCall[c].regrant <=> \E s \in SharesFrom(shareCall[c].source) : ~shares[s].active)
  /\ \A c, d \in ShareCalls :
       /\ shareCall[c].kind = "grant" /\ shareCall[d].kind = "grant"
       /\ shareCall[c].share = shareCall[d].share
       => c = d

\* The trail, project by project: one first grant, and it is there if any is.
Trail ==
  /\ \A s \in DOMAIN shares : shares[s].active <=> Len(events[s]) = 1
  /\ \A p \in Projects :
       /\ \A s, t \in SharesFrom(p) : events[s][1] = "grant" /\ events[t][1] = "grant" => s = t
       /\ SharesFrom(p) # {} => \E s \in SharesFrom(p) : events[s][1] = "grant"

SharesInv == SharesTypeOK /\ SharesTables /\ Held /\ Grants /\ Trail

----------------------------------------------------------------------------
TaskType == [status : {"none", "pending", "done"}, updated : 0 .. MaxClicks, gone : BOOLEAN]

TaskCallType ==
  [at : {"idle", "sync", "remove", "update"}, shown : SUBSET (Keys \X (0 .. MaxClicks)),
   whole : BOOLEAN, rows : SUBSET Keys, item : 0 .. Checklist]

\* Rows have one holder, and a removal's are as it found them.
RowsHeld ==
  /\ \A c, d \in TaskCalls : c # d => taskCall[c].rows \cap taskCall[d].rows = {}
  /\ \A c \in TaskCalls :
       /\ taskCall[c].at \in {"idle", "remove"} => taskCall[c].rows = {}
       /\ taskCall[c].at = "update" =>
            /\ taskCall[c].rows \subseteq Finished
            /\ taskCall[c].whole => Snapshot(taskCall[c].rows) = taskCall[c].shown

TasksInv == TasksTypeOK /\ taskCall \in [TaskCalls -> TaskCallType] /\ RowsHeld

----------------------------------------------------------------------------
\* The facts about numbers and rows the action lemmas share.
LEMMA ShareFacts ==
  ASSUME SharesInv
  PROVE  /\ grants \in Nat /\ MaxShares \in Nat /\ MaxTexts \in Nat /\ grants <= MaxShares
         /\ DOMAIN shares \subseteq 1 .. grants
         /\ DOMAIN events = DOMAIN shares
         /\ shares \in [DOMAIN shares -> Share]
         /\ events \in [DOMAIN shares -> Events]
         /\ artifacts \in [Projects -> [text : 0 .. MaxTexts, gone : BOOLEAN]]
         /\ shareCall \in [ShareCalls -> ShareCallType]
         /\ \A c \in ShareCalls : shareCall[c] \in ShareCallType
BY ShareBounds DEF SharesInv, SharesTypeOK, SharesTables

\* What an event of a share can be.
LEMMA EventFacts ==
  ASSUME NEW e \in Events
  PROVE  /\ Len(e) \in {1, 2} /\ e[1] \in {"grant", "regrant"}
         /\ <<e[1], "revoke">> \in Events /\ Len(<<e[1], "revoke">>) = 2
         /\ <<e[1], "revoke">>[1] = e[1]
BY DEF Events

\* The invariant at the start.
LEMMA SharesInitInv == SharesInit => SharesInv
<1> SUFFICES ASSUME SharesInit PROVE SharesInv
  OBVIOUS
<1>1. NoShareCall \in ShareCallType
  BY ShareBounds DEF NoShareCall, ShareCallType, Projects
<1>2. SharesTypeOK
  BY ShareBounds DEF SharesInit, SharesTypeOK, Projects, NoShareCall
<1>3. SharesTables
  BY <1>1 DEF SharesInit, SharesTables
<1>4. Held /\ Grants /\ Trail
  BY DEF SharesInit, Held, Grants, Trail, NoShareCall, Late, SharesFrom
<1> QED
  BY <1>2, <1>3, <1>4 DEF SharesInv

\* What the record of a request must be for the invariant to go on.
ShareFits(c, R) ==
  /\ R \in ShareCallType
  /\ R.at = "idle" => R.held = {}
  /\ R.at = "lock" => R.held \in {{}, {1}}
  /\ R.at \in Late => R.held = Projects
  /\ \A p \in R.held : p \in shareCall[c].held \/ ProjectHolders(p) = {}
  /\ R.at \in {"snapshot", "prior", "insert"} => R.kind = "grant"
  /\ R.kind = "grant" =>
       /\ R.share \in (1 .. grants') \ DOMAIN shares
       /\ \A d \in ShareCalls \ {c} : shareCall[d].kind = "grant" => shareCall[d].share # R.share
  /\ R.at \in {"prior", "insert"} => /\ ~artifacts[R.source].gone
                                     /\ R.copy = artifacts[R.source].text
  /\ R.at = "insert" => (R.regrant <=> \E s \in SharesFrom(R.source) : ~shares[s].active)

\* A step of one request that changes no table.
LEMMA RequestMoves ==
  ASSUME SharesInv, NEW c \in ShareCalls, NEW R, ShareFits(c, R),
         shareCall' = [shareCall EXCEPT ![c] = R],
         shares' = shares, events' = events, artifacts' = artifacts,
         grants' \in {grants, grants + 1}, grants' <= MaxShares
  PROVE  SharesInv'
<1>1. \A d \in ShareCalls : shareCall'[d] = IF d = c THEN R ELSE shareCall[d]
  BY ShareFacts
<1>2. SharesTables' /\ Trail'
  BY ShareFacts DEF ShareFits, SharesInv, SharesTables, Trail, SharesFrom
<1>3. SharesTypeOK'
  <2>1. grants' \in 0 .. MaxShares /\ DOMAIN shares \subseteq 1 .. grants'
    BY ShareFacts
  <2>2. /\ R.at \in {"idle", "lock", "snapshot", "prior", "insert", "revoke"}
        /\ R.held \subseteq Projects
    BY DEF ShareFits, ShareCallType
  <2> QED
    BY <1>1, <2>1, <2>2 DEF SharesInv, SharesTypeOK
<1>4. Held'
  BY <1>1 DEF ShareFits, SharesInv, Held, ProjectHolders
<1>5. Grants'
  <2>1. \A p : SharesFrom(p)' = SharesFrom(p)
    BY DEF SharesFrom
  <2>2. \A d \in ShareCalls : d # c /\ shareCall[d].kind = "grant" =>
          shareCall[d].share \in (1 .. grants') \ DOMAIN shares
    BY ShareFacts DEF SharesInv, Grants
  <2> QED
    BY <1>1, <2>1, <2>2 DEF ShareFits, SharesInv, Grants
<1> QED
  BY <1>2, <1>3, <1>4, <1>5 DEF SharesInv

\* No request.
LEMMA NoShareCallType == NoShareCall \in ShareCallType
BY ShareBounds DEF NoShareCall, ShareCallType, Projects

\* A request that is undone has no locks.
LEMMA UndoShareCallInv ==
  ASSUME SharesInv, NEW c \in ShareCalls, UndoShareCall(c)
  PROVE  SharesInv'
<1>1. ShareFits(c, NoShareCall)
  BY NoShareCallType DEF ShareFits, NoShareCall, Late
<1> QED
  BY <1>1, ShareFacts, RequestMoves DEF UndoShareCall

\* A grant begins with no lock.
LEMMA BeginGrantInv ==
  ASSUME SharesInv, NEW c \in ShareCalls, BeginGrant(c)
  PROVE  SharesInv'
<1>1. grants' = grants + 1 /\ grants' <= MaxShares /\ grants' \in 0 .. MaxShares
  BY ShareFacts DEF BeginGrant
<1>2. PICK p \in Projects :
        shareCall' = [shareCall EXCEPT ![c] = [NoShareCall EXCEPT !.at = "lock", !.kind = "grant",
                                                 !.source = p, !.share = grants']]
  BY DEF BeginGrant
<1> DEFINE R == [NoShareCall EXCEPT !.at = "lock", !.kind = "grant", !.source = p, !.share = grants']
<1>3. R \in ShareCallType
  BY <1>1, NoShareCallType DEF ShareCallType
<1>4. R.at = "lock" /\ R.kind = "grant" /\ R.share = grants' /\ R.held = {}
  BY DEF NoShareCall
<1> HIDE DEF R
<1>5. grants' \in (1 .. grants') \ DOMAIN shares
  BY <1>1, ShareFacts
<1>6. \A d \in ShareCalls : shareCall[d].kind = "grant" => shareCall[d].share # grants'
  BY <1>1, ShareFacts DEF SharesInv, Grants
<1>7. ShareFits(c, R)
  BY <1>3, <1>4, <1>5, <1>6 DEF ShareFits, Late
<1>8. shareCall' = [shareCall EXCEPT ![c] = R]
  BY <1>2 DEF R
<1> QED
  BY <1>1, <1>7, <1>8, RequestMoves DEF BeginGrant

\* A revocation begins with no lock.
LEMMA BeginRevokeInv ==
  ASSUME SharesInv, NEW c \in ShareCalls, BeginRevoke(c)
  PROVE  SharesInv'
<1>1. PICK s \in Active :
        shareCall' = [shareCall EXCEPT ![c] = [NoShareCall EXCEPT !.at = "lock", !.kind = "revoke",
                                                 !.source = shares[s].source, !.share = s]]
  BY DEF BeginRevoke
<1> DEFINE R == [NoShareCall EXCEPT !.at = "lock", !.kind = "revoke",
                   !.source = shares[s].source, !.share = s]
<1>2. s \in 0 .. MaxShares /\ shares[s].source \in Projects
  BY ShareFacts DEF Active, Share
<1>3. R \in ShareCallType
  BY <1>2, NoShareCallType DEF ShareCallType
<1>4. R.at = "lock" /\ R.kind = "revoke" /\ R.held = {}
  BY DEF NoShareCall
<1> HIDE DEF R
<1>5. ShareFits(c, R)
  BY <1>3, <1>4 DEF ShareFits, Late
<1>6. shareCall' = [shareCall EXCEPT ![c] = R]
  BY <1>1 DEF R
<1> QED
  BY <1>5, <1>6, ShareFacts, RequestMoves DEF BeginRevoke

\* The next project to lock is the first, and then the second.
LEMMA NextProjectIs ==
  ASSUME SharesInv, NEW c \in ShareCalls, shareCall[c].at = "lock"
  PROVE  /\ shareCall[c].held \in {{}, {1}}
         /\ shareCall[c].held = {} => NextProject(c) = 1
         /\ shareCall[c].held = {1} => NextProject(c) = 2
<1>1. Projects \ {} = {1, 2} /\ Projects \ {1} = {2}
  BY DEF Projects
<1>2. Min({1, 2}) = 1 /\ Min({2}) = 2
  BY DEF Min
<1> QED
  BY <1>1, <1>2 DEF NextProject, SharesInv, Held

\* A request takes the projects one by one; with the second it goes on.
LEMMA LockProjectInv ==
  ASSUME SharesInv, NEW c \in ShareCalls, LockProject(c)
  PROVE  SharesInv'
<1> DEFINE held == shareCall[c].held \cup {NextProject(c)}
           at == IF shareCall[c].held = {} THEN "lock"
                 ELSE IF shareCall[c].kind = "grant" THEN "snapshot" ELSE "revoke"
           R == [shareCall[c] EXCEPT !.held = held, !.at = at]
<1>1. shareCall[c].at = "lock" /\ ProjectHolders(NextProject(c)) = {}
  BY DEF LockProject
<1>2. /\ shareCall[c].held = {} => held = {1}
      /\ shareCall[c].held = {1} => held = Projects
      /\ shareCall[c].held \in {{}, {1}}
  BY <1>1, NextProjectIs DEF Projects
<1>3. /\ at \in {"lock", "snapshot", "revoke"}
      /\ at = "lock" => held = {1}
      /\ at # "lock" => held = Projects
      /\ at = "snapshot" => shareCall[c].kind = "grant"
  BY <1>2
<1>4. held \subseteq Projects
  BY <1>2 DEF Projects
<1>5. \A p \in held : p \in shareCall[c].held \/ ProjectHolders(p) = {}
  BY <1>1
<1>6. shareCall' = [shareCall EXCEPT ![c] = R]
  <2>1. shareCall' = [shareCall EXCEPT ![c].held = held, ![c].at = at]
    BY DEF LockProject
  <2> HIDE DEF held, at
  <2> QED
    BY <2>1
<1> HIDE DEF held, at
<1>7. /\ R \in ShareCallType
      /\ R.at = at /\ R.held = held /\ R.kind = shareCall[c].kind /\ R.share = shareCall[c].share
  BY <1>3, <1>4, ShareFacts DEF ShareCallType
<1> HIDE DEF R
<1>8. ShareFits(c, R)
  BY <1>3, <1>5, <1>7 DEF ShareFits, Late, SharesInv, Grants, LockProject
<1> QED
  BY <1>6, <1>8, ShareFacts, RequestMoves DEF LockProject

\* A grant copies the artifact while it holds its row.
LEMMA CopyArtifactInv ==
  ASSUME SharesInv, NEW c \in ShareCalls, CopyArtifact(c)
  PROVE  SharesInv'
<1> DEFINE copy == artifacts[shareCall[c].source].text
           R == [shareCall[c] EXCEPT !.at = "prior", !.copy = copy]
<1>1. copy \in 0 .. MaxTexts /\ shareCall[c] \in ShareCallType
  BY ShareFacts DEF ShareCallType
<1>2. shareCall' = [shareCall EXCEPT ![c] = R]
  BY DEF CopyArtifact
<1>3. /\ R \in ShareCallType
      /\ R.at = "prior" /\ R.held = shareCall[c].held /\ R.kind = shareCall[c].kind
      /\ R.share = shareCall[c].share /\ R.copy = copy /\ R.source = shareCall[c].source
  <2> HIDE DEF copy
  <2> QED
    BY <1>1 DEF ShareCallType
<1> HIDE DEF R
<1>4. ShareFits(c, R)
  BY <1>3 DEF ShareFits, Late, CopyArtifact, SharesInv, Held, Grants
<1> QED
  BY <1>2, <1>4, ShareFacts, RequestMoves DEF CopyArtifact

\* A grant reads whether there was one before while it holds the projects.
LEMMA ReadPriorInv ==
  ASSUME SharesInv, NEW c \in ShareCalls, ReadPrior(c)
  PROVE  SharesInv'
<1> DEFINE regrant == \E s \in SharesFrom(shareCall[c].source) : ~shares[s].active
           R == [shareCall[c] EXCEPT !.at = "insert", !.regrant = regrant]
<1>1. regrant \in BOOLEAN /\ shareCall[c] \in ShareCallType
  BY ShareFacts
<1>2. shareCall' = [shareCall EXCEPT ![c] = R]
  BY DEF ReadPrior
<1>3. /\ R \in ShareCallType
      /\ R.at = "insert" /\ R.held = shareCall[c].held /\ R.kind = shareCall[c].kind
      /\ R.share = shareCall[c].share /\ R.copy = shareCall[c].copy
      /\ R.source = shareCall[c].source /\ R.regrant = regrant
  <2> HIDE DEF regrant
  <2> QED
    BY <1>1 DEF ShareCallType
<1>4. R.regrant <=> \E s \in SharesFrom(R.source) : ~shares[s].active
  <2>1. R.regrant = regrant /\ R.source = shareCall[c].source
    BY <1>3
  <2> HIDE DEF R
  <2> QED
    BY <2>1
<1> HIDE DEF R
<1>5. ShareFits(c, R)
  <2> HIDE DEF regrant
  <2> QED
    BY <1>3, <1>4 DEF ShareFits, Late, ReadPrior, SharesInv, Held, Grants
<1> QED
  BY <1>2, <1>5, ShareFacts, RequestMoves DEF ReadPrior

----------------------------------------------------------------------------
\* A transaction past its locks is alone.
LEMMA LateAlone ==
  ASSUME SharesInv, NEW c \in ShareCalls, shareCall[c].at \in Late,
         NEW d \in ShareCalls, d # c
  PROVE  shareCall[d].at \notin Late
<1>1. 1 \in Projects
  BY DEF Projects
<1> QED
  BY <1>1 DEF SharesInv, Held

\* The call that commits leaves, the others stay as they are.
LEMMA ShareCallEnds ==
  ASSUME SharesInv, NEW c \in ShareCalls, shareCall[c].at \in Late,
         shareCall' = [shareCall EXCEPT ![c] = NoShareCall]
  PROVE  /\ shareCall' \in [ShareCalls -> ShareCallType]
         /\ Held'
         /\ \A d \in ShareCalls :
              /\ shareCall'[d] = IF d = c THEN NoShareCall ELSE shareCall[d]
              /\ shareCall'[d].at \notin Late
              /\ shareCall'[d].kind = "grant" => d # c /\ shareCall[d].kind = "grant"
<1>1. \A d \in ShareCalls : shareCall'[d] = IF d = c THEN NoShareCall ELSE shareCall[d]
  BY ShareFacts
<1>2. shareCall' \in [ShareCalls -> ShareCallType]
  BY NoShareCallType, ShareFacts
<1>3. Held'
  BY <1>1 DEF SharesInv, Held, NoShareCall, Late
<1>4. \A d \in ShareCalls : shareCall'[d].at \notin Late
  BY <1>1, LateAlone DEF NoShareCall, Late
<1> QED
  BY <1>1, <1>2, <1>3, <1>4 DEF NoShareCall

\* A grant adds one active share: a first one, or one after others that are all
\* revoked.
LEMMA InsertShareInv ==
  ASSUME SharesInv, NEW c \in ShareCalls, InsertShare(c)
  PROVE  SharesInv'
<1> DEFINE id == shareCall[c].share
           source == shareCall[c].source
           event == IF shareCall[c].regrant THEN "regrant" ELSE "grant"
           row == [source |-> source, copy |-> shareCall[c].copy, active |-> TRUE]
<1>1. /\ shareCall[c].at = "insert" /\ shareCall[c].kind = "grant" /\ shareCall[c].at \in Late
      /\ SharesFrom(source) \cap Active = {}
      /\ shareCall' = [shareCall EXCEPT ![c] = NoShareCall]
      /\ grants' = grants /\ artifacts' = artifacts
  BY DEF InsertShare, SharesInv, Grants, Late
<1>2. /\ id \in (1 .. grants) \ DOMAIN shares /\ source \in Projects
      /\ row \in Share /\ <<event>> \in Events /\ event \in {"grant", "regrant"}
  BY <1>1, ShareFacts DEF SharesInv, Grants, ShareCallType, Share, Events
<1>3. /\ shares' = [s \in DOMAIN shares \cup {id} |-> IF s = id THEN row ELSE shares[s]]
      /\ events' = [s \in DOMAIN shares \cup {id} |-> IF s = id THEN <<event>> ELSE events[s]]
  BY DEF InsertShare
<1>4. event = "regrant" <=> SharesFrom(source) # {}
  <2>1. shareCall[c].regrant <=> \E s \in SharesFrom(source) : ~shares[s].active
    BY <1>1 DEF SharesInv, Grants
  <2>2. \A s \in SharesFrom(source) : ~shares[s].active
    BY <1>1 DEF Active, SharesFrom
  <2> QED
    BY <2>1, <2>2
<1>5. row.source = source /\ row.active = TRUE /\ <<event>>[1] = event /\ Len(<<event>>) = 1
  OBVIOUS
<1> HIDE DEF row, event
<1>6. /\ DOMAIN shares' = DOMAIN shares \cup {id} /\ DOMAIN events' = DOMAIN shares \cup {id}
      /\ shares' \in [DOMAIN shares' -> Share] /\ events' \in [DOMAIN shares' -> Events]
      /\ shares'[id].source = source /\ shares'[id].active = TRUE
      /\ events'[id][1] = event /\ Len(events'[id]) = 1
      /\ \A s \in DOMAIN shares : shares'[s] = shares[s] /\ events'[s] = events[s]
  BY <1>2, <1>3, <1>5, ShareFacts
<1> HIDE DEF id, source
<1>7. \A p \in Projects : SharesFrom(p)' = IF p = source THEN SharesFrom(p) \cup {id} ELSE SharesFrom(p)
  BY <1>2, <1>6 DEF SharesFrom
<1>8. SharesTables'
  BY <1>1, <1>6, ShareCallEnds DEF SharesTables
<1>9. SharesTypeOK'
  <2>1. \A s \in DOMAIN shares' : shares'[s] \in Share /\ events'[s] \in Events
    BY <1>6
  <2>2. \A d \in ShareCalls : shareCall'[d] \in ShareCallType
    BY <1>1, ShareCallEnds
  <2> QED
    BY <1>1, <1>2, <1>6, <2>1, <2>2, ShareFacts
       DEF SharesInv, SharesTypeOK, Share, Events, ShareCallType
<1>10. Grants'
  <2>1. \A d \in ShareCalls : d # c /\ shareCall[d].kind = "grant" => shareCall[d].share # id
    BY <1>1 DEF SharesInv, Grants, id
  <2>2. /\ \A d \in ShareCalls : shareCall'[d].at \notin {"snapshot", "prior", "insert"}
        /\ \A d \in ShareCalls :
             shareCall'[d].kind = "grant" =>
               d # c /\ shareCall[d].kind = "grant" /\ shareCall'[d] = shareCall[d]
    BY <1>1, ShareCallEnds DEF Late
  <2>3. ASSUME NEW d \in ShareCalls, shareCall'[d].kind = "grant"
        PROVE  shareCall'[d].share \in (1 .. grants') \ DOMAIN shares'
    BY <1>1, <1>6, <2>1, <2>2, <2>3 DEF SharesInv, Grants
  <2>4. ASSUME NEW d \in ShareCalls, NEW e \in ShareCalls,
               shareCall'[d].kind = "grant", shareCall'[e].kind = "grant",
               shareCall'[d].share = shareCall'[e].share
        PROVE  d = e
    BY <2>2, <2>4 DEF SharesInv, Grants
  <2> QED
    BY <2>2, <2>3, <2>4 DEF Grants
<1>11. Trail'
  <2>1. \A s \in DOMAIN shares' : shares'[s].active <=> Len(events'[s]) = 1
    BY <1>6 DEF SharesInv, Trail
  <2>2. ASSUME NEW p \in Projects, NEW s \in SharesFrom(p)', NEW t \in SharesFrom(p)',
               events'[s][1] = "grant", events'[t][1] = "grant"
        PROVE  s = t
    <3>1. (s \in SharesFrom(p) \/ (p = source /\ s = id)) /\ (t \in SharesFrom(p) \/ (p = source /\ t = id))
      BY <1>7, <2>2
    <3>2. \A q \in SharesFrom(p) : q \in DOMAIN shares
      BY DEF SharesFrom
    <3> QED
      BY <1>4, <1>6, <2>2, <3>1, <3>2 DEF SharesInv, Trail
  <2>3. ASSUME NEW p \in Projects, SharesFrom(p)' # {}
        PROVE  \E s \in SharesFrom(p)' : events'[s][1] = "grant"
    <3>1. CASE SharesFrom(p) # {}
      <4>1. PICK s \in SharesFrom(p) : events[s][1] = "grant"
        BY <3>1 DEF SharesInv, Trail
      <4>2. s \in DOMAIN shares
        BY DEF SharesFrom
      <4> QED
        BY <1>6, <1>7, <4>1, <4>2
    <3>2. CASE SharesFrom(p) = {}
      <4>1. p = source /\ event # "regrant"
        BY <1>4, <1>7, <2>3, <3>2
      <4> QED
        BY <1>2, <1>6, <1>7, <4>1
    <3> QED
      BY <3>1, <3>2
  <2> QED
    BY <2>1, <2>2, <2>3 DEF Trail
<1>12. Held'
  BY <1>1, ShareCallEnds
<1> QED
  BY <1>8, <1>9, <1>10, <1>11, <1>12 DEF SharesInv

\* A revocation ends a share that stands.
LEMMA CommitRevokeInv ==
  ASSUME SharesInv, NEW c \in ShareCalls, CommitRevoke(c)
  PROVE  SharesInv'
<1> DEFINE id == shareCall[c].share
<1>1. /\ shareCall[c].at \in Late /\ id \in Active /\ id \in DOMAIN shares
      /\ shareCall' = [shareCall EXCEPT ![c] = NoShareCall]
      /\ grants' = grants /\ artifacts' = artifacts
      /\ shares' = [shares EXCEPT ![id].active = FALSE]
      /\ events' = [events EXCEPT ![id] = <<events[id][1], "revoke">>]
  BY DEF CommitRevoke, Late, Active
<1>2. /\ <<events[id][1], "revoke">> \in Events /\ Len(<<events[id][1], "revoke">>) = 2
      /\ <<events[id][1], "revoke">>[1] = events[id][1]
  BY <1>1, ShareFacts, EventFacts
<1> HIDE DEF id
<1>3. [shares[id] EXCEPT !.active = FALSE] \in Share
  BY <1>1, ShareFacts DEF Share
<1>4. /\ DOMAIN shares' = DOMAIN shares /\ DOMAIN events' = DOMAIN shares
      /\ shares' \in [DOMAIN shares' -> Share] /\ events' \in [DOMAIN shares' -> Events]
      /\ \A s \in DOMAIN shares : /\ shares'[s].source = shares[s].source
                                  /\ events'[s][1] = events[s][1]
                                  /\ s # id => shares'[s] = shares[s] /\ events'[s] = events[s]
      /\ shares'[id].active = FALSE /\ Len(events'[id]) = 2
  BY <1>1, <1>2, <1>3, ShareFacts DEF Share
<1>5. \A p \in Projects : SharesFrom(p)' = SharesFrom(p)
  BY <1>4 DEF SharesFrom
<1>6. SharesTables'
  BY <1>1, <1>4, ShareCallEnds DEF SharesTables
<1>7. SharesTypeOK'
  <2>1. \A s \in DOMAIN shares' : shares'[s] \in Share /\ events'[s] \in Events
    BY <1>4
  <2>2. \A d \in ShareCalls : shareCall'[d] \in ShareCallType
    BY <1>1, ShareCallEnds
  <2> QED
    BY <1>1, <1>4, <2>1, <2>2, ShareFacts
       DEF SharesInv, SharesTypeOK, Share, Events, ShareCallType
<1>8. Grants'
  <2>1. \A d \in ShareCalls : /\ shareCall'[d].at \notin Late
                              /\ shareCall'[d].kind = "grant" =>
                                   d # c /\ shareCall[d].kind = "grant" /\ shareCall'[d] = shareCall[d]
    BY <1>1, ShareCallEnds
  <2> QED
    BY <1>1, <1>4, <2>1 DEF SharesInv, Grants, Late
<1>9. Trail'
  <2>1. ASSUME NEW s \in DOMAIN shares'
        PROVE  shares'[s].active <=> Len(events'[s]) = 1
    <3>1. CASE s = id
      <4>1. shares'[id].active = FALSE /\ Len(events'[id]) = 2
        BY <1>4
      <4> QED
        BY <3>1, <4>1
    <3>2. CASE s # id
      BY <1>4, <3>2 DEF SharesInv, Trail
    <3> QED
      BY <3>1, <3>2
  <2>2. \A p \in Projects : \A s \in SharesFrom(p) : s \in DOMAIN shares
    BY DEF SharesFrom
  <2> QED
    BY <1>4, <1>5, <2>1, <2>2 DEF SharesInv, Trail
<1>10. Held'
  BY <1>1, ShareCallEnds
<1> QED
  BY <1>6, <1>7, <1>8, <1>9, <1>10 DEF SharesInv

\* An artifact changes while no grant holds its row.
LEMMA TouchInv ==
  ASSUME SharesInv, NEW p \in Projects, Touch(p)
  PROVE  SharesInv'
<1>1. /\ ArtifactFree(p)
      /\ UNCHANGED <<grants, shares, events, shareCall>>
      /\ artifacts' \in [Projects -> [text : 0 .. MaxTexts, gone : BOOLEAN]]
      /\ \A q \in Projects : q # p => artifacts'[q] = artifacts[q]
  <2>1. artifacts[p] \in [text : 0 .. MaxTexts, gone : BOOLEAN]
    BY ShareFacts
  <2>2. artifacts[p].text < MaxTexts =>
          [artifacts[p] EXCEPT !.text = @ + 1] \in [text : 0 .. MaxTexts, gone : BOOLEAN]
    BY <2>1, ShareFacts
  <2>3. [artifacts[p] EXCEPT !.gone = TRUE] \in [text : 0 .. MaxTexts, gone : BOOLEAN]
    BY <2>1
  <2> QED
    BY <2>2, <2>3, ShareFacts DEF Touch
<1>2. SharesTypeOK'
  BY <1>1 DEF SharesInv, SharesTypeOK
<1>3. SharesTables' /\ Held'
  BY <1>1 DEF SharesInv, SharesTables, Held
<1>4. Trail'
  <2>1. \A q : SharesFrom(q)' = SharesFrom(q)
    BY <1>1 DEF SharesFrom
  <2> QED
    BY <1>1, <2>1 DEF SharesInv, Trail
<1>5. Grants'
  <2>1. \A c \in ShareCalls : shareCall[c].at \in {"prior", "insert"} =>
          shareCall[c].source # p /\ shareCall[c].source \in Projects
    BY <1>1, ShareFacts DEF ArtifactFree, ShareCallType
  <2> QED
    BY <1>1, <2>1 DEF SharesInv, Grants, SharesFrom
<1> QED
  BY <1>2, <1>3, <1>4, <1>5 DEF SharesInv

----------------------------------------------------------------------------
\* Requests, shares, events and artifacts fit together in every state.
THEOREM SharesInvariant == SharesSpec => []SharesInv
<1>1. SharesInv /\ [SharesNext]_shareVars => SharesInv'
  <2> SUFFICES ASSUME SharesInv, [SharesNext]_shareVars
               PROVE  SharesInv'
    OBVIOUS
  <2>1. ASSUME NEW c \in ShareCalls, BeginGrant(c) \/ BeginRevoke(c)
        PROVE  SharesInv'
    BY <2>1, BeginGrantInv, BeginRevokeInv
  <2>2. ASSUME NEW c \in ShareCalls, LockProject(c) \/ CopyArtifact(c) \/ ReadPrior(c)
        PROVE  SharesInv'
    BY <2>2, LockProjectInv, CopyArtifactInv, ReadPriorInv
  <2>3. ASSUME NEW c \in ShareCalls, InsertShare(c) \/ CommitRevoke(c) \/ UndoShareCall(c)
        PROVE  SharesInv'
    BY <2>3, InsertShareInv, CommitRevokeInv, UndoShareCallInv
  <2>4. ASSUME NEW p \in Projects, Touch(p)
        PROVE  SharesInv'
    BY <2>4, TouchInv
  <2>5. CASE UNCHANGED shareVars
    <3>1. \A q : SharesFrom(q)' = SharesFrom(q)
      BY <2>5 DEF shareVars, SharesFrom
    <3>2. SharesTypeOK' /\ SharesTables' /\ Held' /\ Trail'
      BY <2>5, <3>1 DEF shareVars, SharesInv, SharesTypeOK, SharesTables, Held, Trail
    <3>3. Grants'
      BY <2>5, <3>1 DEF shareVars, SharesInv, Grants
    <3> QED
      BY <3>2, <3>3 DEF SharesInv
  <2> QED
    BY <2>1, <2>2, <2>3, <2>4, <2>5 DEF SharesNext
<1> QED
  BY <1>1, SharesInitInv, PTL DEF SharesSpec

(* The shares, their events, the artifacts and the requests have their types. *)
THEOREM SharesTypes == SharesSpec => []SharesTypeOK
<1>1. SharesInv => SharesTypeOK
  BY DEF SharesInv
<1> QED
  BY <1>1, SharesInvariant, PTL

\* The shares of a project are finitely many.
LEMMA SharesFinite ==
  ASSUME SharesInv, NEW p \in Projects
  PROVE  IsFiniteSet(SharesFrom(p))
<1>1. IsFiniteSet(1 .. grants)
  <2>1. grants \in Nat
    BY ShareFacts
  <2> QED
    BY <2>1, FS_Interval
<1>2. SharesFrom(p) \subseteq 1 .. grants
  BY ShareFacts DEF SharesFrom
<1> QED
  BY <1>1, <1>2, FS_Subset

(* The audit trail tells the history of the grants, however grants and          *)
(* revocations run against each other (shareCreate, shareRevoke).              *)
THEOREM TrailIsRight == SharesSpec => []TrailTellsGrants
<1>1. SharesInv => TrailTellsGrants
  <2> SUFFICES ASSUME SharesInv, NEW s \in DOMAIN shares
               PROVE  /\ shares[s].active <=> Len(events[s]) = 1
                      /\ events[s][1] = "regrant" => Cardinality(SharesFrom(shares[s].source)) > 1
                      /\ Cardinality({t \in SharesFrom(shares[s].source) : events[t][1] = "grant"}) = 1
    BY DEF TrailTellsGrants
  <2> DEFINE p == shares[s].source
             First == {t \in SharesFrom(p) : events[t][1] = "grant"}
  <2>1. p \in Projects /\ s \in SharesFrom(p)
    BY ShareFacts DEF Share, SharesFrom
  <2>2. PICK f \in SharesFrom(p) : First = {f} /\ events[f][1] = "grant"
    BY <2>1 DEF SharesInv, Trail
  <2>3. Cardinality(First) = 1
    <3> HIDE DEF First
    <3> QED
      BY <2>2, FS_Singleton
  <2>4. ASSUME events[s][1] = "regrant"
        PROVE  Cardinality(SharesFrom(p)) > 1
    <3>1. s # f
      BY <2>2, <2>4
    <3>2. IsFiniteSet(SharesFrom(p)) /\ {s, f} \subseteq SharesFrom(p)
      BY <2>1, <2>2, SharesFinite
    <3>3. /\ Cardinality({s, f}) <= Cardinality(SharesFrom(p))
          /\ Cardinality(SharesFrom(p)) \in Nat
      BY <3>2, FS_Subset, FS_CardinalityType
    <3>4. Cardinality({s, f}) = 2
      <4>1. IsFiniteSet({f}) /\ Cardinality({f}) = 1
        BY FS_Singleton
      <4>2. Cardinality({f} \cup {s}) = 2
        BY <3>1, <4>1, FS_AddElement
      <4>3. {s, f} = {f} \cup {s}
        OBVIOUS
      <4> QED
        BY <4>2, <4>3
    <3> QED
      BY <3>3, <3>4
  <2>5. shares[s].active <=> Len(events[s]) = 1
    BY DEF SharesInv, Trail
  <2> QED
    BY <2>3, <2>4, <2>5
<1> QED
  BY <1>1, SharesInvariant, PTL

(* A grant copies the artifact as it is when the grant commits, and never a     *)
(* retracted one (the row locks of buildSnapshot).                             *)
THEOREM GrantsCopyWhatStands == SharesSpec => CopiesWhatStands
<1> DEFINE Copied == \A s \in DOMAIN shares' \ DOMAIN shares :
                       LET artifact == artifacts[shares'[s].source]
                       IN ~artifact.gone /\ shares'[s].copy = artifact.text
<1>1. SharesInv /\ [SharesNext]_shareVars => [Copied]_shareVars
  <2> SUFFICES ASSUME SharesInv, SharesNext
               PROVE  Copied
    OBVIOUS
  <2>1. ASSUME NEW c \in ShareCalls, InsertShare(c)
        PROVE  Copied
    <3> DEFINE id == shareCall[c].share
               row == [source |-> shareCall[c].source, copy |-> shareCall[c].copy, active |-> TRUE]
    <3>1. \A s \in DOMAIN shares' \ DOMAIN shares : shares'[s] = row
      BY <2>1 DEF InsertShare
    <3>2. /\ ~artifacts[shareCall[c].source].gone
          /\ shareCall[c].copy = artifacts[shareCall[c].source].text
      BY <2>1 DEF InsertShare, SharesInv, Grants
    <3>3. row.source = shareCall[c].source /\ row.copy = shareCall[c].copy
      OBVIOUS
    <3> HIDE DEF row
    <3> QED
      BY <3>1, <3>2, <3>3
  <2>2. CASE DOMAIN shares' = DOMAIN shares
    BY <2>2
  <2>3. ASSUME NEW c \in ShareCalls, CommitRevoke(c)
        PROVE  DOMAIN shares' = DOMAIN shares
    BY <2>3 DEF CommitRevoke
  <2> QED
    BY <2>1, <2>2, <2>3 DEF SharesNext, BeginGrant, BeginRevoke, LockProject, CopyArtifact,
                            ReadPrior, UndoShareCall, Touch
<1> QED
  BY <1>1, SharesInvariant, PTL DEF SharesSpec, CopiesWhatStands

(* Grants and revocations in both directions between two projects never wait   *)
(* in a circle.                                                              *)
THEOREM SharesDoNotDeadlock == SharesSpec => []NoCircleOfShares
<1>1. SharesInv => NoCircleOfShares
  <2> SUFFICES ASSUME SharesInv, NEW S \in (SUBSET ShareCalls) \ {{}},
                      \A c \in S : ShareWaits(c) \cap S # {}
               PROVE  FALSE
    BY DEF NoCircleOfShares
  <2>1. \A c \in S : shareCall[c].at = "lock"
    BY DEF ShareWaits
  <2>2. \A c \in S : 2 \notin shareCall[c].held
    BY <2>1 DEF SharesInv, Held
  <2>3. PICK c \in ShareCalls : c \in S
    <3>1. S # {} /\ S \subseteq ShareCalls
      OBVIOUS
    <3> QED
      BY <3>1
  <2>4. PICK d \in S : NextProject(c) \in shareCall[d].held
    BY <2>1, <2>3 DEF ShareWaits, ProjectHolders
  <2>5. NextProject(c) = 1 /\ shareCall[d].held = {1}
    BY <2>1, <2>2, <2>4, NextProjectIs DEF SharesInv, Held
  <2>6. PICK e \in S : NextProject(d) \in shareCall[e].held
    BY <2>1 DEF ShareWaits, ProjectHolders
  <2>7. NextProject(d) = 2
    BY <2>1, <2>5, NextProjectIs
  <2> QED
    BY <2>2, <2>6, <2>7
<1> QED
  BY <1>1, SharesInvariant, PTL

----------------------------------------------------------------------------
\* The facts about the tables of tasks the action lemmas share.
LEMMA TaskFacts ==
  ASSUME TasksInv
  PROVE  /\ tasks \in [Keys -> TaskType]
         /\ taskCall \in [TaskCalls -> TaskCallType]
         /\ clicks \in 0 .. MaxClicks /\ MaxClicks \in Nat /\ Checklist \in Nat
BY TaskBounds DEF TasksInv, TasksTypeOK, TaskType

\* The invariant at the start.
LEMMA TasksInitInv == TasksInit => TasksInv
<1> SUFFICES ASSUME TasksInit PROVE TasksInv
  OBVIOUS
<1>1. NoTaskCall \in TaskCallType /\ Absent \in TaskType
  BY TaskBounds DEF NoTaskCall, TaskCallType, Absent, TaskType
<1>2. taskCall \in [TaskCalls -> TaskCallType] /\ tasks \in [Keys -> TaskType]
  BY <1>1 DEF TasksInit
<1>3. TasksTypeOK
  BY <1>2, TaskBounds DEF TasksInit, TasksTypeOK, TaskType, TaskCallType
<1>4. RowsHeld
  BY DEF TasksInit, RowsHeld, NoTaskCall
<1> QED
  BY <1>2, <1>3, <1>4 DEF TasksInv

\* A step of one request that changes no task.
LEMMA TaskRequestMoves ==
  ASSUME TasksInv, NEW c \in TaskCalls, NEW R \in TaskCallType,
         taskCall' = [taskCall EXCEPT ![c] = R], tasks' = tasks, clicks' = clicks,
         \A d \in TaskCalls \ {c} : R.rows \cap taskCall[d].rows = {},
         R.at \in {"idle", "remove"} => R.rows = {},
         R.at = "update" => /\ R.rows \subseteq Finished
                            /\ R.whole => Snapshot(R.rows) = R.shown
  PROVE  TasksInv'
<1>1. \A d \in TaskCalls : taskCall'[d] = IF d = c THEN R ELSE taskCall[d]
  BY TaskFacts
<1>2. taskCall' \in [TaskCalls -> TaskCallType]
  BY TaskFacts
<1>3. TasksTypeOK'
  BY <1>2, TaskFacts DEF TasksInv, TasksTypeOK, TaskCallType
<1>4. Finished' = Finished /\ \A S : Snapshot(S)' = Snapshot(S)
  BY DEF Finished, Snapshot
<1>5. RowsHeld'
  BY <1>1, <1>4 DEF TasksInv, RowsHeld
<1> QED
  BY <1>2, <1>3, <1>5 DEF TasksInv

\* A request begins, or is undone.
LEMMA TaskCallBegins ==
  ASSUME TasksInv, NEW c \in TaskCalls, BeginSync(c) \/ AskRemoval(c) \/ UndoTaskCall(c)
  PROVE  TasksInv'
<1>1. NoTaskCall \in TaskCallType /\ NoTaskCall.rows = {} /\ NoTaskCall.at = "idle"
  BY TaskBounds DEF NoTaskCall, TaskCallType
<1>2. CASE BeginSync(c)
  <2> DEFINE R == [NoTaskCall EXCEPT !.at = "sync"]
  <2>1. R \in TaskCallType /\ R.at = "sync" /\ R.rows = {}
    BY <1>1 DEF TaskCallType
  <2> HIDE DEF R
  <2>2. taskCall' = [taskCall EXCEPT ![c] = R] /\ tasks' = tasks /\ clicks' = clicks
    BY <1>2 DEF BeginSync, R
  <2> QED
    BY <2>1, <2>2, TaskRequestMoves
<1>3. CASE AskRemoval(c)
  <2>1. PICK S \in SUBSET Finished, whole \in BOOLEAN :
          taskCall' = [taskCall EXCEPT ![c] = [NoTaskCall EXCEPT !.at = "remove",
                                                 !.shown = Snapshot(S), !.whole = whole]]
    BY <1>3 DEF AskRemoval
  <2> DEFINE R == [NoTaskCall EXCEPT !.at = "remove", !.shown = Snapshot(S), !.whole = whole]
  <2>2. Snapshot(S) \in SUBSET (Keys \X (0 .. MaxClicks))
    BY TaskFacts DEF Snapshot, Finished, TaskType
  <2>3. R \in TaskCallType /\ R.at = "remove" /\ R.rows = {}
    BY <1>1, <2>2 DEF TaskCallType
  <2> HIDE DEF R
  <2>4. taskCall' = [taskCall EXCEPT ![c] = R] /\ tasks' = tasks /\ clicks' = clicks
    BY <1>3, <2>1 DEF AskRemoval, R
  <2> QED
    BY <2>3, <2>4, TaskRequestMoves
<1>4. CASE UndoTaskCall(c)
  BY <1>1, <1>4, TaskRequestMoves DEF UndoTaskCall
<1> QED
  BY <1>2, <1>3, <1>4

\* A synchronisation goes through the checklist.
LEMMA SyncItemInv ==
  ASSUME TasksInv, NEW c \in TaskCalls, SyncItem(c)
  PROVE  TasksInv'
<1> DEFINE item == taskCall[c].item + 1
           locked == taskCall[c].rows \cup {item}
           R == [taskCall[c] EXCEPT !.item = item, !.rows = locked]
<1>1. /\ taskCall[c] \in TaskCallType /\ taskCall[c].at = "sync"
      /\ TasksFree(c, {item}) /\ item \in 0 .. Checklist /\ item \in Keys
  BY TaskFacts DEF SyncItem, TaskCallType, Keys
<1>2. taskCall' = [taskCall EXCEPT ![c] = R] /\ tasks' = tasks /\ clicks' = clicks
  BY DEF SyncItem
<1>3. locked \in SUBSET Keys
  BY <1>1 DEF TaskCallType
<1>4. \A d \in TaskCalls \ {c} : locked \cap taskCall[d].rows = {}
  BY <1>1 DEF TasksFree, TasksInv, RowsHeld
<1> HIDE DEF item, locked
<1>5. R \in TaskCallType /\ R.at = "sync" /\ R.rows = locked
  BY <1>1, <1>3 DEF TaskCallType
<1> HIDE DEF R
<1> QED
  BY <1>2, <1>4, <1>5, TaskRequestMoves

\* A removal locks the rows it finds and compares what it was shown.
LEMMA SelectRowsInv ==
  ASSUME TasksInv, NEW c \in TaskCalls, SelectRows(c)
  PROVE  TasksInv'
<1> DEFINE S == IF taskCall[c].whole THEN Finished ELSE Asked(c)
           R == [taskCall[c] EXCEPT !.at = "update", !.rows = S]
<1>1. /\ TasksFree(c, S) /\ S \subseteq Finished
      /\ taskCall[c].whole => Snapshot(S) = taskCall[c].shown
      /\ taskCall' = [taskCall EXCEPT ![c] = R] /\ tasks' = tasks /\ clicks' = clicks
  BY DEF SelectRows
<1>2. S \in SUBSET Keys
  BY <1>1 DEF Finished
<1>3. \A d \in TaskCalls \ {c} : S \cap taskCall[d].rows = {}
  BY <1>1 DEF TasksFree
<1> HIDE DEF S
<1>4. /\ R \in TaskCallType /\ R.at = "update" /\ R.rows = S
      /\ R.whole = taskCall[c].whole /\ R.shown = taskCall[c].shown
  BY <1>2, TaskFacts DEF TaskCallType
<1> HIDE DEF R
<1> QED
  BY <1>1, <1>3, <1>4, TaskRequestMoves

\* A step that changes tasks nobody has locked, or that it has locked itself.
LEMMA TasksChange ==
  ASSUME TasksInv, tasks' \in [Keys -> TaskType], clicks' \in 0 .. MaxClicks,
         taskCall' \in [TaskCalls -> TaskCallType],
         \A d \in TaskCalls : \/ taskCall'[d] = NoTaskCall
                              \/ /\ taskCall'[d] = taskCall[d]
                                 /\ \A k \in taskCall[d].rows :
                                      taskCall[d].at = "update" => tasks'[k] = tasks[k]
  PROVE  TasksInv'
<1>1. TasksTypeOK'
  BY DEF TasksTypeOK, TaskType, TaskCallType
<1>2. /\ NoTaskCall.rows = {} /\ NoTaskCall.at = "idle"
      /\ \A d \in TaskCalls : taskCall'[d] = NoTaskCall \/ taskCall'[d] = taskCall[d]
  BY DEF NoTaskCall
<1>3. ASSUME NEW d \in TaskCalls, taskCall'[d].at = "update"
      PROVE  /\ taskCall'[d].rows \subseteq Finished'
             /\ taskCall'[d].whole => Snapshot(taskCall[d].rows)' = taskCall'[d].shown
  <2>1. taskCall'[d] = taskCall[d] /\ taskCall[d].at = "update"
    BY <1>2, <1>3
  <2>2. \A k \in taskCall[d].rows : tasks'[k] = tasks[k]
    BY <1>2, <1>3
  <2>3. /\ taskCall[d].rows \subseteq Finished
        /\ taskCall[d].whole => Snapshot(taskCall[d].rows) = taskCall[d].shown
    BY <2>1 DEF TasksInv, RowsHeld
  <2>4. taskCall'[d].rows \subseteq Finished'
    BY <2>1, <2>2, <2>3 DEF Finished
  <2>5. Snapshot(taskCall[d].rows)' = Snapshot(taskCall[d].rows)
    BY <2>1, <2>2 DEF Snapshot
  <2> QED
    BY <2>1, <2>3, <2>4, <2>5
<1>4. \A c, d \in TaskCalls : c # d => taskCall'[c].rows \cap taskCall'[d].rows = {}
  BY <1>2 DEF TasksInv, RowsHeld
<1>5. \A c \in TaskCalls : taskCall'[c].at \in {"idle", "remove"} => taskCall'[c].rows = {}
  BY <1>2 DEF TasksInv, RowsHeld
<1>6. RowsHeld'
  BY <1>3, <1>4, <1>5 DEF RowsHeld
<1> QED
  BY <1>1, <1>6 DEF TasksInv

\* A synchronisation writes the rows.
LEMMA CommitSyncInv ==
  ASSUME TasksInv, NEW c \in TaskCalls, CommitSync(c)
  PROVE  TasksInv'
<1>1. NoTaskCall \in TaskCallType /\ [Absent EXCEPT !.status = "pending"] \in TaskType
  <2>1. NoTaskCall \in TaskCallType
    BY TaskBounds DEF NoTaskCall, TaskCallType
  <2>2. Absent \in TaskType
    BY TaskBounds DEF Absent, TaskType
  <2> QED
    BY <2>1, <2>2 DEF TaskType
<1>2. /\ tasks' = [k \in Keys |-> IF tasks[k] = Absent THEN [Absent EXCEPT !.status = "pending"]
                                  ELSE tasks[k]]
      /\ taskCall' = [taskCall EXCEPT ![c] = NoTaskCall] /\ clicks' = clicks
  BY DEF CommitSync
<1>3. \A d \in TaskCalls : \A k \in taskCall[d].rows :
        taskCall[d].at = "update" => k \in Keys /\ tasks[k] # Absent
  BY DEF TasksInv, RowsHeld, Finished, Absent
<1>4. tasks' \in [Keys -> TaskType]
  BY <1>1, <1>2, TaskFacts
<1> QED
  BY <1>1, <1>2, <1>3, <1>4, TaskFacts, TasksChange

\* A click changes a row nobody has locked.
LEMMA ClickInv ==
  ASSUME TasksInv, NEW k \in Keys, Click(k)
  PROVE  TasksInv'
<1>1. /\ clicks' = clicks + 1 /\ clicks < MaxClicks /\ taskCall' = taskCall
      /\ \A c \in TaskCalls : k \notin taskCall[c].rows
  BY DEF Click
<1>2. clicks + 1 \in 0 .. MaxClicks
  BY <1>1, TaskFacts
<1>3. /\ tasks' \in [Keys -> TaskType]
      /\ \A j \in Keys : j # k => tasks'[j] = tasks[j]
  <2>1. tasks[k] \in TaskType
    BY TaskFacts
  <2>2. \A st \in {"done", "pending"} :
          [tasks[k] EXCEPT !.status = st, !.updated = clicks + 1] \in TaskType
    BY <1>2, <2>1 DEF TaskType
  <2>3. PICK st \in {"done", "pending"} :
          tasks' = [tasks EXCEPT ![k] = [tasks[k] EXCEPT !.status = st, !.updated = clicks + 1]]
    BY TaskFacts DEF Click
  <2> QED
    BY <2>2, <2>3, TaskFacts
<1>4. \A d \in TaskCalls : \A j \in taskCall[d].rows : j \in Keys /\ tasks'[j] = tasks[j]
  BY <1>1, <1>3, TaskFacts DEF TaskCallType
<1> QED
  BY <1>1, <1>2, <1>3, <1>4, TaskFacts, TasksChange

\* A removal writes the rows it holds.
LEMMA RemoveRowsInv ==
  ASSUME TasksInv, NEW c \in TaskCalls, RemoveRows(c)
  PROVE  TasksInv'
<1>1. NoTaskCall \in TaskCallType
  BY TaskBounds DEF NoTaskCall, TaskCallType
<1>2. /\ taskCall[c].at = "update"
      /\ tasks' = [k \in Keys |-> IF k \in taskCall[c].rows THEN [tasks[k] EXCEPT !.gone = TRUE]
                                  ELSE tasks[k]]
      /\ taskCall' = [taskCall EXCEPT ![c] = NoTaskCall] /\ clicks' = clicks
  BY DEF RemoveRows
<1>3. tasks' \in [Keys -> TaskType]
  <2>1. \A k \in Keys : [tasks[k] EXCEPT !.gone = TRUE] \in TaskType
    BY TaskFacts DEF TaskType
  <2> QED
    BY <1>2, <2>1, TaskFacts
<1>4. \A d \in TaskCalls : d # c =>
        \A k \in taskCall[d].rows : k \in Keys /\ k \notin taskCall[c].rows
  BY TaskFacts DEF TasksInv, RowsHeld, TaskCallType
<1> QED
  BY <1>1, <1>2, <1>3, <1>4, TaskFacts, TasksChange

\* Tasks, locks and selections fit together in every state.
THEOREM TasksInvariant == TasksSpec => []TasksInv
<1>1. TasksInv /\ [TasksNext]_taskVars => TasksInv'
  <2> SUFFICES ASSUME TasksInv, [TasksNext]_taskVars
               PROVE  TasksInv'
    OBVIOUS
  <2>1. ASSUME NEW c \in TaskCalls, BeginSync(c) \/ AskRemoval(c) \/ UndoTaskCall(c)
        PROVE  TasksInv'
    BY <2>1, TaskCallBegins
  <2>2. ASSUME NEW c \in TaskCalls, SyncItem(c) \/ SelectRows(c)
        PROVE  TasksInv'
    BY <2>2, SyncItemInv, SelectRowsInv
  <2>3. ASSUME NEW c \in TaskCalls, CommitSync(c) \/ RemoveRows(c)
        PROVE  TasksInv'
    BY <2>3, CommitSyncInv, RemoveRowsInv
  <2>4. ASSUME NEW k \in Keys, Click(k)
        PROVE  TasksInv'
    BY <2>4, ClickInv
  <2>5. CASE UNCHANGED taskVars
    BY <2>5, TaskFacts, TasksChange DEF taskVars
  <2> QED
    BY <2>1, <2>2, <2>3, <2>4, <2>5 DEF TasksNext
<1> QED
  BY <1>1, TasksInitInv, PTL DEF TasksSpec

(* The tasks and the requests have their types. *)
THEOREM TasksTypes == TasksSpec => []TasksTypeOK
<1>1. TasksInv => TasksTypeOK
  BY DEF TasksInv
<1> QED
  BY <1>1, TasksInvariant, PTL

(* A group removal takes away the rows the operator was shown, in the state     *)
(* they were shown in, and no others, whatever is clicked, removed or           *)
(* synchronised in between (removeOperatorTaskGroup).                          *)
THEOREM RemovalsTakeWhatWasShown == TasksSpec => RemovesWhatWasShown
<1> DEFINE Shown == \A c \in TaskCalls :
              /\ taskCall[c].at = "update" /\ taskCall[c].whole
              /\ taskCall'[c].at = "idle" /\ tasks' # tasks
              => Snapshot({k \in Keys : tasks'[k].gone /\ ~tasks[k].gone}) = taskCall[c].shown
<1>1. TasksInv /\ [TasksNext]_taskVars => [Shown]_taskVars
  <2> SUFFICES ASSUME TasksInv, TasksNext, NEW c \in TaskCalls,
                      taskCall[c].at = "update", taskCall[c].whole,
                      taskCall'[c].at = "idle", tasks' # tasks
               PROVE  Snapshot({k \in Keys : tasks'[k].gone /\ ~tasks[k].gone}) = taskCall[c].shown
    OBVIOUS
  <2>1. \A d \in TaskCalls : d # c => taskCall' # [taskCall EXCEPT ![d] = NoTaskCall]
    BY TaskFacts
  <2>2. RemoveRows(c)
    BY <2>1 DEF TasksNext, BeginSync, SyncItem, CommitSync, AskRemoval, SelectRows, RemoveRows,
                UndoTaskCall, Click
  <2>3. taskCall[c].rows \subseteq Finished /\ Snapshot(taskCall[c].rows) = taskCall[c].shown
    BY DEF TasksInv, RowsHeld
  <2>4. \A k \in Keys : tasks'[k].gone /\ ~tasks[k].gone <=> k \in taskCall[c].rows
    BY <2>2, <2>3, TaskFacts DEF RemoveRows, Finished, TaskType
  <2>5. {k \in Keys : tasks'[k].gone /\ ~tasks[k].gone} = taskCall[c].rows
    BY <2>3, <2>4 DEF Finished
  <2> QED
    BY <2>3, <2>5
<1> QED
  BY <1>1, TasksInvariant, PTL DEF TasksSpec, RemovesWhatWasShown

----------------------------------------------------------------------------
\* Ideas: the roadmap's bands.
Count == Cardinality(DOMAIN ideas)

IdeaType == [band : Bands, rank : Int, given : BOOLEAN]

Orders == {<<>>} \cup UNION {[S -> Nat] : S \in SUBSET Ids}

IdeaCallType ==
  [at : {"idle", "read", "lock", "row", "target", "write"},
   kind : {"none", "add", "agent", "operator", "reorder"},
   idea : 0 .. MaxIdeas, from : Bands \cup {0}, to : Bands \cup {0}, rank : Int,
   given : BOOLEAN, seen : SUBSET (Ids \X Ids), order : Orders, tries : 0 .. 2,
   held : SUBSET Bands, rows : SUBSET Ids]

IdeasTables ==
  /\ Count \in 0 .. MaxIdeas
  /\ DOMAIN ideas = 1 .. Count
  /\ ideas \in [DOMAIN ideas -> IdeaType]
  /\ ideaCall \in [IdeaCalls -> IdeaCallType]
  /\ ideaWrites \in 0 .. MaxIdeaWrites

\* A write goes one beyond the ranks there are at most.
RankFits(R) ==
  /\ -ideaWrites <= R.rank /\ R.rank <= Count + 1
  /\ R.kind # "add" => R.rank <= Count
  /\ R.at # "idle" => MaxIdeaWrites > 0

RanksBounded ==
  /\ \A i \in DOMAIN ideas : 1 - ideaWrites <= ideas[i].rank /\ ideas[i].rank <= Count
  /\ \A c \in IdeaCalls : RankFits(ideaCall[c])

\* What a request has at a stage of it: bands from the lock of the last one, the idea
\* in the band it was read in from the lock of its row.
Fits(R) ==
  /\ R.at # "idle" =>
       /\ R.kind # "none" /\ R.to \in Bands
       /\ R.kind # "add" => R.idea \in DOMAIN ideas
  /\ R.kind = "add" => R.from = R.to /\ R.idea = 0 /\ R.at \notin {"idle", "read", "row"}
  /\ R.kind = "reorder" =>
       /\ R.order \in Injection(DOMAIN R.order, 1 .. Cardinality(DOMAIN R.order))
       /\ DOMAIN R.order \subseteq DOMAIN ideas
  /\ R.at \in {"idle", "read"} => R.held = {}
  /\ R.at = "lock" =>
       /\ R.from \in Bands
       /\ \/ R.held = {}
          \/ R.held = {R.from} /\ R.from < R.to
          \/ R.held = {R.to} /\ R.to < R.from
  /\ R.at \in {"row", "target", "write"} => R.from \in Bands /\ R.held = {R.from, R.to}
  /\ R.at \in {"target", "write"} /\ R.kind # "add" => ideas[R.idea].band = R.from
  /\ R.at \notin {"target", "write"} => R.rows = {}
  /\ R.at = "target" => R.rows \subseteq {R.idea}
  /\ R.rows \subseteq DOMAIN ideas

\* A request that writes next: the column is the one shown, or the place is free.
Judged(R) ==
  R.at = "write" =>
    /\ R.kind = "reorder" =>
         /\ InOrder(R.to) = R.seen
         /\ DOMAIN R.order = IdeasIn(R.to) \cup {R.idea}
    /\ R.kind # "reorder" /\ ~R.given =>
         \A j \in IdeasIn(R.to) \ {R.idea} : ideas[j].rank = R.rank => ideas[j].given

BandsApart ==
  \A c, d \in IdeaCalls : ideaCall[c].held \cap ideaCall[d].held # {} => c = d

IdeasInv ==
  /\ IdeasTables /\ RanksBounded /\ BandsApart /\ RanksDistinct
  /\ \A c \in IdeaCalls : Fits(ideaCall[c]) /\ Judged(ideaCall[c])

----------------------------------------------------------------------------
\* What every proof below takes from the tables, and from the constants.
LEMMA IdeaFacts ==
  ASSUME IdeasInv
  PROVE  /\ Count \in 0 .. MaxIdeas /\ Count \in Int /\ DOMAIN ideas = 1 .. Count
         /\ DOMAIN ideas \subseteq Ids
         /\ ideas \in [DOMAIN ideas -> IdeaType]
         /\ ideaCall \in [IdeaCalls -> IdeaCallType]
         /\ ideaWrites \in 0 .. MaxIdeaWrites /\ ideaWrites \in Int
         /\ MaxIdeas \in Nat /\ MaxIdeaWrites \in Nat
BY IdeaBounds DEF IdeasInv, IdeasTables, Ids

\* Bands are numbered.
LEMMA BandFacts == Bands \subseteq Nat \ {0} /\ Inbox \in Bands
<1>1. Bands = 1 .. Len(Columns) /\ Len(Columns) \in Nat
  BY ColumnsTyped DEF Bands
<1>2. \E b \in Bands : Columns[b] = "idea"
  BY ColumnsTyped DEF Bands
<1>3. Inbox \in Bands
  BY <1>2 DEF Inbox
<1> QED
  BY <1>1, <1>3

\* No request.
LEMMA NoCallTyped ==
  /\ NoCall \in IdeaCallType
  /\ NoCall.at = "idle" /\ NoCall.held = {} /\ NoCall.rows = {} /\ NoCall.kind = "none"
  /\ NoCall.rank = 0 /\ NoCall.given = FALSE /\ NoCall.idea = 0
<1>1. <<>> \in Orders
  BY DEF Orders
<1>2. {} \in SUBSET (Ids \X Ids) /\ {} \in SUBSET Ids /\ {} \in SUBSET Bands
  OBVIOUS
<1> QED
  BY <1>1, <1>2, IdeaBounds DEF NoCall, IdeaCallType

\* A set of ideas is finite and no larger than the set of all ideas.
LEMMA IdeasFinite ==
  ASSUME IdeasInv, NEW S \in SUBSET DOMAIN ideas
  PROVE  IsFiniteSet(S) /\ Cardinality(S) \in Nat /\ Cardinality(S) <= Count
<1>1. IsFiniteSet(DOMAIN ideas)
  <2>1. 1 \in Int /\ Count \in Int /\ DOMAIN ideas = 1 .. Count
    BY IdeaFacts
  <2> QED
    BY <2>1, FS_Interval
<1>2. IsFiniteSet(S) /\ Cardinality(S) <= Cardinality(DOMAIN ideas)
  BY <1>1, FS_Subset
<1> QED
  BY <1>2, FS_CardinalityType DEF Count

\* The smaller of two bands.
LEMMA MinOfPair ==
  ASSUME NEW a \in Int, NEW b \in Int
  PROVE  /\ Min({a}) = a
         /\ a < b => Min({a, b}) = a
         /\ ~(a < b) => Min({a, b}) = b
BY DEF Min

\* A set within an interval, if not empty, has a least and a greatest number.
LEMMA EndsExist ==
  ASSUME NEW lo \in Int, NEW hi \in Int, NEW T \in SUBSET (lo .. hi), T # {}
  PROVE  /\ Min(T) \in T /\ \A y \in T : Min(T) <= y
         /\ Max(T) \in T /\ \A y \in T : y <= Max(T)
<1> DEFINE Up == {t - lo : t \in T}
           Down == {hi - t : t \in T}
<1>1. Up \in SUBSET Nat /\ Up # {}
  <2>1. \A t \in T : t - lo \in Nat
    OBVIOUS
  <2>2. PICK t \in T : TRUE
    OBVIOUS
  <2>3. t - lo \in Up
    BY <2>2
  <2> QED
    BY <2>1, <2>3
<1>2. Down \in SUBSET Nat /\ Down # {}
  <2>1. \A t \in T : hi - t \in Nat
    OBVIOUS
  <2>2. PICK t \in T : TRUE
    OBVIOUS
  <2>3. hi - t \in Down
    BY <2>2
  <2> QED
    BY <2>1, <2>3
<1>3. PICK x \in T : \A y \in T : x - lo <= y - lo
  <2> HIDE DEF Up
  <2>1. PICK u \in Up : \A v \in Up : u <= v
    BY <1>1, LeastExists
  <2> QED
    BY <2>1 DEF Up
<1>4. PICK z \in T : \A y \in T : hi - z <= hi - y
  <2> HIDE DEF Down
  <2>1. PICK u \in Down : \A v \in Down : u <= v
    BY <1>2, LeastExists
  <2> QED
    BY <2>1 DEF Down
<1>5. \A y \in T : x <= y
  BY <1>3
<1>6. \A y \in T : z >= y
  BY <1>4
<1>7. Min(T) \in T /\ \A y \in T : Min(T) <= y
  BY <1>5 DEF Min
<1>8. Max(T) \in T /\ \A y \in T : Max(T) >= y
  BY <1>6 DEF Max
<1> QED
  BY <1>7, <1>8

\* A step of one request that writes nothing.
LEMMA IdeaCallMoves ==
  ASSUME IdeasInv, NEW c \in IdeaCalls, NEW R \in IdeaCallType,
         ideaCall' = [ideaCall EXCEPT ![c] = R], UNCHANGED <<ideas, ideaWrites>>,
         Fits(R), Judged(R), RankFits(R),
         \A b \in R.held \ ideaCall[c].held : BandHolders(b) = {}
  PROVE  IdeasInv'
<1>1. \A d \in IdeaCalls : ideaCall'[d] = IF d = c THEN R ELSE ideaCall[d]
  BY IdeaFacts
<1>2. IdeasTables'
  BY IdeaFacts DEF IdeasInv, IdeasTables, Count, IdeaType, IdeaCallType
<1>3. \A d \in IdeaCalls : Fits(ideaCall'[d]) /\ Judged(ideaCall'[d]) /\ RankFits(ideaCall'[d])
  BY <1>1 DEF IdeasInv, RanksBounded
<1>4. \A d \in IdeaCalls : Fits(ideaCall[d])' /\ Judged(ideaCall[d])'
  BY <1>3 DEF Fits, Judged, InOrder, IdeasIn, Before
<1>5. \A d \in IdeaCalls : RankFits(ideaCall[d])'
  BY <1>3 DEF RankFits, Count
<1>6. RanksBounded'
  BY <1>5 DEF IdeasInv, RanksBounded, Count
<1>7. RanksDistinct'
  BY DEF IdeasInv, RanksDistinct
<1>8. \A d \in IdeaCalls \ {c} : R.held \cap ideaCall[d].held = {}
  BY DEF IdeasInv, BandsApart, BandHolders
<1>9. BandsApart'
  BY <1>1, <1>8 DEF IdeasInv, BandsApart
<1> QED
  BY <1>2, <1>4, <1>6, <1>7, <1>9 DEF IdeasInv

\* A move as it is asked for.
LEMMA MoveTyped ==
  ASSUME NEW R \in IdeaCallType, NEW i \in 0 .. MaxIdeas, NEW kind \in {"agent", "operator"},
         NEW from \in Bands, NEW to \in Bands, NEW given \in BOOLEAN, NEW rank \in Int
  PROVE  [R EXCEPT !.at = "lock", !.kind = kind, !.idea = i, !.from = from, !.to = to,
                   !.given = given, !.rank = rank] \in IdeaCallType
BY DEF IdeaCallType

\* Additions and moves that are asked for.
LEMMA AskInv ==
  ASSUME IdeasInv, NEW c \in IdeaCalls, AskAdd(c) \/ AskMove(c)
  PROVE  IdeasInv'
<1>1. CASE AskAdd(c)
  <2> DEFINE R == [NoCall EXCEPT !.at = "lock", !.kind = "add", !.from = Inbox, !.to = Inbox]
  <2>1. /\ R \in IdeaCallType /\ R.at = "lock" /\ R.kind = "add" /\ R.from = Inbox /\ R.to = Inbox
        /\ R.held = {} /\ R.rows = {} /\ R.idea = 0 /\ R.rank = 0
    BY BandFacts, NoCallTyped DEF IdeaCallType
  <2> HIDE DEF R
  <2>2. Fits(R) /\ Judged(R)
    BY <2>1, BandFacts DEF Fits, Judged
  <2>3. RankFits(R)
    BY <1>1, <2>1, IdeaFacts DEF RankFits, AskAdd
  <2>4. ideaCall' = [ideaCall EXCEPT ![c] = R] /\ UNCHANGED <<ideas, ideaWrites>>
    BY <1>1 DEF AskAdd, R
  <2> QED
    BY <2>1, <2>2, <2>3, <2>4, IdeaCallMoves
<1>2. CASE AskMove(c)
  <2>1. PICK i \in DOMAIN ideas, b \in Bands, kind \in {"agent", "operator"}, g \in BOOLEAN :
          ideaCall' = [ideaCall EXCEPT ![c] = Move(i, b, kind, g)]
    BY <1>2 DEF AskMove
  <2> DEFINE R == Move(i, b, kind, g)
             rank == IF g THEN 1 ELSE 0
  <2>2. ideas[i].band \in Bands /\ i \in 0 .. MaxIdeas /\ i \in 1 .. Count
    BY IdeaFacts DEF IdeaType, Ids
  <2>3. rank \in {0, 1}
    OBVIOUS
  <2>4. R = [NoCall EXCEPT !.at = "lock", !.kind = kind, !.idea = i, !.from = ideas[i].band,
                           !.to = b, !.given = g, !.rank = rank]
    BY DEF Move
  <2> HIDE DEF R, rank
  <2>5. R \in IdeaCallType
    <3>1. rank \in Int /\ NoCall \in IdeaCallType
      BY <2>3, NoCallTyped
    <3>2. [NoCall EXCEPT !.at = "lock", !.kind = kind, !.idea = i, !.from = ideas[i].band,
                         !.to = b, !.given = g, !.rank = rank] \in IdeaCallType
      BY <2>2, <3>1, MoveTyped
    <3> QED
      BY <2>4, <3>2
  <2>6. /\ R.at = "lock" /\ R.kind = kind /\ R.from = ideas[i].band /\ R.to = b
        /\ R.held = {} /\ R.rows = {} /\ R.idea = i /\ R.rank = rank
    BY <2>4, NoCallTyped DEF IdeaCallType
  <2>7. Fits(R) /\ Judged(R)
    BY <2>2, <2>6 DEF Fits, Judged
  <2>8. RankFits(R)
    <3>1. -ideaWrites <= 0 /\ 1 <= Count
      BY <2>2, IdeaFacts
    <3>2. ideaWrites < MaxIdeaWrites
      BY <1>2 DEF AskMove
    <3> QED
      BY <2>3, <2>6, <3>1, <3>2, IdeaFacts DEF RankFits
  <2>9. ideaCall' = [ideaCall EXCEPT ![c] = R] /\ UNCHANGED <<ideas, ideaWrites>>
    BY <1>2, <2>1 DEF AskMove, R
  <2> QED
    BY <2>5, <2>6, <2>7, <2>8, <2>9, IdeaCallMoves
<1> QED
  BY <1>1, <1>2

\* A reorder that is asked for names the ideas of a band once each.
LEMMA AskReorderInv ==
  ASSUME IdeasInv, NEW c \in IdeaCalls, AskReorder(c)
  PROVE  IdeasInv'
<1>1. PICK S \in SUBSET DOMAIN ideas, b \in Bands : \E i \in S :
        \E order \in Bijection(S, 1 .. Cardinality(S)) :
          ideaCall' = [ideaCall EXCEPT ![c] =
            [NoCall EXCEPT !.at = "read", !.kind = "reorder", !.idea = i, !.to = b,
                           !.seen = InOrder(b), !.order = order]]
  BY DEF AskReorder
<1>2. PICK i \in S, order \in Bijection(S, 1 .. Cardinality(S)) :
        ideaCall' = [ideaCall EXCEPT ![c] =
          [NoCall EXCEPT !.at = "read", !.kind = "reorder", !.idea = i, !.to = b,
                         !.seen = InOrder(b), !.order = order]]
  BY <1>1
<1> DEFINE R == [NoCall EXCEPT !.at = "read", !.kind = "reorder", !.idea = i, !.to = b,
                               !.seen = InOrder(b), !.order = order]
<1>3. /\ i \in DOMAIN ideas /\ i \in 0 .. MaxIdeas /\ i \in 1 .. Count
      /\ S \in SUBSET Ids
  BY IdeaFacts DEF Ids
<1>4. order \in Orders
  <2>2. Cardinality(S) \in Nat
    BY IdeasFinite
  <2>3. order \in [S -> 1 .. Cardinality(S)]
    BY DEF Bijection, Injection
  <2>4. order \in [S -> Nat]
    BY <2>2, <2>3
  <2> QED
    BY <1>3, <2>4 DEF Orders
<1>5. InOrder(b) \in SUBSET (Ids \X Ids)
  BY IdeaFacts DEF InOrder, IdeasIn
<1>6. DOMAIN order = S /\ order \in Injection(S, 1 .. Cardinality(S))
  BY DEF Bijection, Injection
<1>7. /\ R \in IdeaCallType /\ R.at = "read" /\ R.kind = "reorder" /\ R.to = b
      /\ R.held = {} /\ R.rows = {} /\ R.idea = i /\ R.rank = 0 /\ R.order = order
  <2> HIDE DEF InOrder
  <2> QED
    BY <1>3, <1>4, <1>5, NoCallTyped DEF IdeaCallType
<1> HIDE DEF R
<1>8. Fits(R) /\ Judged(R)
  BY <1>3, <1>6, <1>7 DEF Fits, Judged
<1>9. RankFits(R)
  BY <1>3, <1>7, IdeaFacts DEF RankFits, AskReorder
<1>10. ideaCall' = [ideaCall EXCEPT ![c] = R] /\ UNCHANGED <<ideas, ideaWrites>>
  BY <1>2 DEF AskReorder, R
<1> QED
  BY <1>7, <1>8, <1>9, <1>10, IdeaCallMoves

\* A request reads its idea and has the bands it will lock.
LEMMA ReadIdeaInv ==
  ASSUME IdeasInv, NEW c \in IdeaCalls, ReadIdea(c)
  PROVE  IdeasInv'
<1> DEFINE from == ideas[ideaCall[c].idea].band
           R == [ideaCall[c] EXCEPT !.at = "lock", !.from = from]
<1>1. ideaCall[c] \in IdeaCallType /\ ideaCall[c].at = "read" /\ Fits(ideaCall[c])
      /\ RankFits(ideaCall[c])
  BY IdeaFacts DEF ReadIdea, IdeasInv, RanksBounded
<1>2. from \in Bands
  BY <1>1, IdeaFacts DEF Fits, IdeaType
<1> HIDE DEF from
<1>3. /\ R \in IdeaCallType /\ R.at = "lock" /\ R.kind = ideaCall[c].kind /\ R.from = from
      /\ R.to = ideaCall[c].to /\ R.held = ideaCall[c].held /\ R.rows = ideaCall[c].rows
      /\ R.idea = ideaCall[c].idea /\ R.rank = ideaCall[c].rank /\ R.order = ideaCall[c].order
  BY <1>1, <1>2 DEF IdeaCallType
<1>4. ideaCall' = [ideaCall EXCEPT ![c] = R] /\ UNCHANGED <<ideas, ideaWrites>>
  BY DEF ReadIdea, from
<1> HIDE DEF R
<1>5. Fits(R) /\ Judged(R)
  BY <1>1, <1>2, <1>3 DEF Fits, Judged
<1>6. RankFits(R)
  BY <1>1, <1>3 DEF RankFits
<1> QED
  BY <1>1, <1>3, <1>4, <1>5, <1>6, IdeaCallMoves

\* The next band to lock is the smaller one that is not locked.
LEMMA NextBandIs ==
  ASSUME IdeasInv, NEW c \in IdeaCalls, ideaCall[c].at = "lock"
  PROVE  /\ ideaCall[c].from \in Bands /\ ideaCall[c].to \in Bands
         /\ NextBand(c) \in {ideaCall[c].from, ideaCall[c].to} \ ideaCall[c].held
         /\ \A b \in ideaCall[c].held :
              /\ b \in Bands /\ b < NextBand(c)
              /\ {ideaCall[c].from, ideaCall[c].to} = {b, NextBand(c)}
         /\ ideaCall[c].held = {} =>
              \A b \in {ideaCall[c].from, ideaCall[c].to} : NextBand(c) <= b
<1> DEFINE from == ideaCall[c].from
           to == ideaCall[c].to
           held == ideaCall[c].held
           next == NextBand(c)
<1>1. /\ from \in Bands /\ to \in Bands /\ from \in Nat /\ to \in Nat
      /\ \/ held = {}
         \/ held = {from} /\ from < to
         \/ held = {to} /\ to < from
  BY BandFacts DEF IdeasInv, Fits
<1>2. next = Min({from, to} \ held)
  BY DEF NextBand, ToLock
<1> HIDE DEF from, to, held, next
<1> DEFINE Claim == /\ next \in {from, to} \ held
                    /\ \A b \in held : b \in Bands /\ b < next /\ {from, to} = {b, next}
                    /\ held = {} => \A b \in {from, to} : next <= b
<1>3. Claim
  <2>1. CASE held = {}
    <3>1. {from, to} \ held = {from, to}
      BY <2>1
    <3>2. (from < to /\ next = from) \/ (~(from < to) /\ next = to)
      <4>1. from \in Int /\ to \in Int
        BY <1>1
      <4>2. next = Min({from, to})
        BY <1>2, <3>1
      <4> HIDE DEF Claim
      <4>3. CASE from < to
        <5>1. Min({from, to}) = from
          BY <4>1, <4>3, MinOfPair
        <5> QED
          BY <4>2, <4>3, <5>1
      <4>4. CASE ~(from < to)
        <5>1. Min({from, to}) = to
          BY <4>1, <4>4, MinOfPair
        <5> QED
          BY <4>2, <4>4, <5>1
      <4> QED
        BY <4>3, <4>4
    <3> QED
      BY <1>1, <2>1, <3>2
  <2>2. CASE held = {from} /\ from < to
    <3>1. {from, to} \ held = {to}
      BY <1>1, <2>2
    <3>2. next = to
      BY <1>1, <1>2, <3>1, MinOfPair
    <3> QED
      BY <1>1, <2>2, <3>2
  <2>3. CASE held = {to} /\ to < from
    <3>1. {from, to} \ held = {from}
      BY <1>1, <2>3
    <3>2. next = from
      BY <1>1, <1>2, <3>1, MinOfPair
    <3> QED
      BY <1>1, <2>3, <3>2
  <2> QED
    BY <1>1, <2>1, <2>2, <2>3
<1> QED
  BY <1>1, <1>3 DEF from, to, held, next

\* Bands are locked from the smallest.
LEMMA LockBandInv ==
  ASSUME IdeasInv, NEW c \in IdeaCalls, LockBand(c)
  PROVE  IdeasInv'
<1> DEFINE old == ideaCall[c]
           next == NextBand(c)
           held == old.held \cup {next}
           at == IF ToLock(c) # {next} THEN "lock" ELSE IF old.kind = "add" THEN "target" ELSE "row"
           R == [old EXCEPT !.held = held, !.at = at]
<1>1. old \in IdeaCallType /\ old.at = "lock" /\ Fits(old) /\ RankFits(old)
  BY IdeaFacts DEF LockBand, IdeasInv, RanksBounded
<1>2. /\ old.from \in Bands /\ old.to \in Bands /\ old.from \in Nat /\ old.to \in Nat
      /\ next \in {old.from, old.to} \ old.held /\ next \in Bands /\ next \in Nat
      /\ \A b \in old.held : b < next /\ {old.from, old.to} = {b, next}
      /\ old.held = {} => next <= old.from /\ next <= old.to
  BY <1>1, NextBandIs, BandFacts
<1>3. ToLock(c) = {old.from, old.to} \ old.held
  BY DEF ToLock
<1>4. /\ ideaCall' = [ideaCall EXCEPT ![c] = R] /\ UNCHANGED <<ideas, ideaWrites>>
      /\ BandHolders(next) = {}
  BY DEF LockBand
<1>5. at \in {"lock", "target", "row"} /\ held \in SUBSET Bands
  BY <1>1, <1>2 DEF IdeaCallType
<1>6. /\ at = "lock" => old.held = {} /\ old.from # old.to
      /\ at # "lock" => held = {old.from, old.to}
      /\ at = "target" => old.kind = "add"
      /\ at = "row" => old.kind # "add"
  <2>1. CASE old.held = {}
    BY <1>2, <1>3, <2>1
  <2>2. ASSUME NEW b \in old.held
        PROVE  old.held = {b}
    BY <1>1, <1>2, <2>2 DEF Fits
  <2>3. ASSUME NEW b \in old.held
        PROVE  ToLock(c) = {next} /\ held = {old.from, old.to}
    BY <1>2, <1>3, <2>2, <2>3
  <2> QED
    BY <2>1, <2>3
<1> HIDE DEF at, held, next
<1>7. /\ R \in IdeaCallType /\ R.at = at /\ R.held = held /\ R.kind = old.kind
      /\ R.from = old.from /\ R.to = old.to /\ R.rows = old.rows /\ R.idea = old.idea
      /\ R.rank = old.rank /\ R.order = old.order
  BY <1>1, <1>5 DEF IdeaCallType
<1> HIDE DEF R
<1>8. Fits(R) /\ Judged(R)
  <2>1. /\ old.rows = {} /\ old.kind # "none"
        /\ old.kind = "add" => old.from = old.to /\ old.idea = 0
        /\ old.kind # "add" => old.idea \in DOMAIN ideas
        /\ old.kind = "reorder" =>
             /\ old.order \in Injection(DOMAIN old.order, 1 .. Cardinality(DOMAIN old.order))
             /\ DOMAIN old.order \subseteq DOMAIN ideas
    BY <1>1 DEF Fits
  <2>2. at = "lock" => \/ held = {old.from} /\ old.from < old.to
                       \/ held = {old.to} /\ old.to < old.from
    BY <1>2, <1>6 DEF held
  <2>3. Judged(R)
    BY <1>5, <1>7 DEF Judged
  <2> HIDE DEF old
  <2> QED
    BY <1>2, <1>5, <1>6, <1>7, <2>1, <2>2, <2>3 DEF Fits
<1>9. RankFits(R)
  BY <1>1, <1>7 DEF RankFits
<1>10. \A b \in R.held \ ideaCall[c].held : BandHolders(b) = {}
  BY <1>4, <1>7 DEF held
<1> QED
  BY <1>4, <1>7, <1>8, <1>9, <1>10, IdeaCallMoves

\* A request with a row more.
LEMMA RowTyped ==
  ASSUME NEW R \in IdeaCallType, NEW locked \in SUBSET Ids, NEW at \in {"target", "write"},
         NEW rank \in Int, NEW given \in BOOLEAN
  PROVE  [R EXCEPT !.rows = locked, !.at = at, !.rank = rank, !.given = given] \in IdeaCallType
BY DEF IdeaCallType

\* The row of an idea is locked where it was read to be.
LEMMA LockIdeaInv ==
  ASSUME IdeasInv, NEW c \in IdeaCalls, LockIdea(c)
  PROVE  IdeasInv'
<1> DEFINE old == ideaCall[c]
           i == old.idea
           settled == /\ old.kind = "operator"
                      /\ old.given \/ old.from = old.to
           at == IF settled THEN "write" ELSE "target"
           rank == IF settled /\ ~old.given THEN ideas[i].rank ELSE old.rank
           given == IF settled /\ ~old.given THEN ideas[i].given ELSE old.given
           R == [old EXCEPT !.rows = {i}, !.at = at, !.rank = rank, !.given = given]
<1>1. old \in IdeaCallType /\ old.at = "row" /\ Fits(old) /\ RankFits(old)
  BY IdeaFacts DEF LockIdea, IdeasInv, RanksBounded
<1>2. /\ i \in DOMAIN ideas /\ i \in Ids /\ ideas[i] \in IdeaType
      /\ ideas[i].rank \in Int /\ ideas[i].given \in BOOLEAN
      /\ ideas[i].band = old.from /\ old.rank \in Int /\ old.given \in BOOLEAN
      /\ old.from \in Bands /\ old.to \in Bands /\ old.held = {old.from, old.to}
      /\ old.kind \notin {"none", "add"}
  BY <1>1, IdeaFacts DEF Fits, IdeaType, IdeaCallType, LockIdea, Stayed
<1>3. ideaCall' = [ideaCall EXCEPT ![c] = R] /\ UNCHANGED <<ideas, ideaWrites>>
  BY DEF LockIdea
<1>4. /\ at \in {"target", "write"} /\ rank \in Int /\ given \in BOOLEAN /\ {i} \in SUBSET Ids
      /\ at = "write" => old.kind = "operator"
      /\ at = "write" /\ ~given => old.from = old.to /\ rank = ideas[i].rank /\ ~ideas[i].given
      /\ rank \in {ideas[i].rank, old.rank}
  BY <1>2
<1> HIDE DEF at, rank, given, settled
<1>5. /\ R \in IdeaCallType /\ R.at = at /\ R.rank = rank /\ R.given = given /\ R.rows = {i}
      /\ R.held = old.held /\ R.kind = old.kind /\ R.from = old.from /\ R.to = old.to
      /\ R.idea = i /\ R.order = old.order
  <2>1. R \in IdeaCallType
    <3>1. old \in IdeaCallType /\ {i} \in SUBSET Ids
      BY <1>1, <1>4
    <3> QED
      BY <1>4, <3>1, RowTyped
  <2> QED
    BY <1>1, <2>1 DEF IdeaCallType
<1> HIDE DEF R
<1>6. Fits(R)
  <2>1. old.kind = "reorder" =>
          /\ old.order \in Injection(DOMAIN old.order, 1 .. Cardinality(DOMAIN old.order))
          /\ DOMAIN old.order \subseteq DOMAIN ideas
    BY <1>1 DEF Fits
  <2> HIDE DEF old, i
  <2> QED
    BY <1>2, <1>4, <1>5, <2>1 DEF Fits
<1>7. Judged(R)
  <2> SUFFICES ASSUME at = "write", ~given, NEW j \in IdeasIn(old.to) \ {i},
                      ideas[j].rank = rank
               PROVE  ideas[j].given
    BY <1>4, <1>5 DEF Judged
  <2>1. /\ j \in DOMAIN ideas /\ j # i /\ ideas[j].band = ideas[i].band
        /\ ideas[j].rank = ideas[i].rank /\ ~ideas[i].given
    BY <1>2, <1>4 DEF IdeasIn
  <2> QED
    BY <1>2, <2>1 DEF IdeasInv, RanksDistinct
<1>8. RankFits(R)
  <2>1. 1 - ideaWrites <= ideas[i].rank /\ ideas[i].rank <= Count
    BY <1>2 DEF IdeasInv, RanksBounded
  <2>2. -ideaWrites <= rank /\ rank <= Count /\ MaxIdeaWrites > 0
    BY <1>1, <1>2, <1>4, <2>1, IdeaFacts DEF RankFits
  <2> QED
    BY <1>4, <1>5, <2>2, IdeaFacts DEF RankFits
<1> QED
  BY <1>3, <1>5, <1>6, <1>7, <1>8, IdeaCallMoves

\* Nobody is left with anything by a request that gives up.
LEMMA NoCallFits ==
  ASSUME IdeasInv
  PROVE  Fits(NoCall) /\ Judged(NoCall) /\ RankFits(NoCall)
<1>1. Fits(NoCall) /\ Judged(NoCall)
  BY NoCallTyped DEF Fits, Judged
<1>2. RankFits(NoCall)
  BY NoCallTyped, IdeaFacts DEF RankFits
<1> QED
  BY <1>1, <1>2

\* A request that starts anew or is undone has no locks.
LEMMA GiveUpInv ==
  ASSUME IdeasInv, NEW c \in IdeaCalls, Drift(c) \/ RollBack(c)
  PROVE  IdeasInv'
<1> DEFINE old == ideaCall[c]
           R == [old EXCEPT !.at = "read", !.tries = old.tries + 1, !.from = 0, !.held = {}]
<1>1. CASE ideaCall' = [ideaCall EXCEPT ![c] = NoCall] /\ UNCHANGED <<ideas, ideaWrites>>
  BY <1>1, NoCallTyped, NoCallFits, IdeaCallMoves
<1>2. CASE Drift(c) /\ old.tries # 2
  <2>1. old \in IdeaCallType /\ old.at = "row" /\ Fits(old) /\ RankFits(old)
    BY <1>2, IdeaFacts DEF Drift, IdeasInv, RanksBounded
  <2>2. old.tries + 1 \in 0 .. 2
    BY <1>2, <2>1 DEF IdeaCallType
  <2>3. /\ R \in IdeaCallType /\ R.at = "read" /\ R.held = {} /\ R.kind = old.kind
        /\ R.to = old.to /\ R.rows = old.rows /\ R.idea = old.idea
        /\ R.rank = old.rank /\ R.order = old.order
    BY <2>1, <2>2 DEF IdeaCallType
  <2>4. ideaCall' = [ideaCall EXCEPT ![c] = R] /\ UNCHANGED <<ideas, ideaWrites>>
    BY <1>2 DEF Drift
  <2> HIDE DEF R
  <2>5. Fits(R) /\ Judged(R)
    BY <2>1, <2>3 DEF Fits, Judged
  <2>6. RankFits(R)
    BY <2>1, <2>3 DEF RankFits
  <2> QED
    BY <2>3, <2>4, <2>5, <2>6, IdeaCallMoves
<1>3. CASE Drift(c) /\ old.tries = 2
  BY <1>1, <1>3 DEF Drift
<1>4. CASE RollBack(c)
  BY <1>1, <1>4 DEF RollBack
<1> QED
  BY <1>2, <1>3, <1>4

\* The edge of a band is one beyond its ranks, and taken by no other idea.
LEMMA EdgeIsFree ==
  ASSUME IdeasInv, NEW c \in IdeaCalls, ideaCall[c].at = "target", ideaCall[c].kind # "reorder"
  PROVE  /\ EdgeRank(c) \in Int /\ -ideaWrites <= EdgeRank(c) /\ EdgeRank(c) <= Count + 1
         /\ ideaCall[c].kind # "add" => EdgeRank(c) <= Count
         /\ \A j \in IdeasIn(ideaCall[c].to) \ {ideaCall[c].idea} : ideas[j].rank # EdgeRank(c)
<1> DEFINE others == IdeasIn(ideaCall[c].to) \ {ideaCall[c].idea}
           ranks == {ideas[j].rank : j \in others}
           add == ideaCall[c].kind = "add"
<1>1. EdgeRank(c) = IF ranks = {} THEN 1 ELSE IF add THEN Max(ranks) + 1 ELSE Min(ranks) - 1
  BY DEF EdgeRank
<1>2. ranks \in SUBSET (1 - ideaWrites .. Count) /\ 1 - ideaWrites \in Int /\ Count \in Int
  <2>1. \A j \in DOMAIN ideas : /\ ideas[j].rank \in Int
                                /\ 1 - ideaWrites <= ideas[j].rank /\ ideas[j].rank <= Count
    BY IdeaFacts DEF IdeasInv, RanksBounded, IdeaType
  <2>2. others \subseteq DOMAIN ideas
    BY DEF IdeasIn
  <2> QED
    BY <2>1, <2>2, IdeaFacts
<1>3. Count >= 0 /\ ideaWrites >= 0 /\ ideaWrites \in Int /\ (~add => 1 <= Count)
  BY IdeaFacts DEF IdeasInv, Fits
<1>4. \A j \in others : ideas[j].rank \in ranks
  OBVIOUS
<1> HIDE DEF others, ranks, add
<1>5. CASE ranks = {}
  BY <1>1, <1>3, <1>4, <1>5, IdeaFacts DEF others, add
<1>6. CASE ranks # {}
  <2>1. /\ Min(ranks) \in ranks /\ \A y \in ranks : Min(ranks) <= y
        /\ Max(ranks) \in ranks /\ \A y \in ranks : y <= Max(ranks)
    BY <1>2, <1>6, EndsExist
  <2> DEFINE lo == Min(ranks)
             hi == Max(ranks)
  <2>2. /\ lo \in Int /\ hi \in Int /\ 1 - ideaWrites <= lo /\ lo <= Count /\ hi <= Count
        /\ 1 - ideaWrites <= hi
        /\ \A y \in ranks : y \in Int /\ lo <= y /\ y <= hi
    <3>1. \A y \in ranks : y \in Int /\ 1 - ideaWrites <= y /\ y <= Count
      BY <1>2
    <3> QED
      BY <2>1, <3>1
  <2>3. EdgeRank(c) = IF add THEN hi + 1 ELSE lo - 1
    BY <1>1, <1>6
  <2> HIDE DEF lo, hi
  <2>4. /\ EdgeRank(c) \in Int /\ -ideaWrites <= EdgeRank(c) /\ EdgeRank(c) <= Count + 1
        /\ ~add => EdgeRank(c) <= Count
        /\ \A y \in ranks : y # EdgeRank(c)
    BY <1>2, <1>3, <2>2, <2>3
  <2> QED
    BY <1>4, <2>4 DEF others, add
<1> QED
  BY <1>5, <1>6

\* A request that has its target.
LEMMA TargetTyped ==
  ASSUME NEW R \in IdeaCallType, NEW locked \in SUBSET Ids, NEW rank \in Int
  PROVE  [R EXCEPT !.at = "write", !.rank = rank, !.rows = locked] \in IdeaCallType
BY DEF IdeaCallType

\* A reorder goes on if the column is the one that was shown.
LEMMA LockTargetInv ==
  ASSUME IdeasInv, NEW c \in IdeaCalls, LockTarget(c)
  PROVE  IdeasInv'
<1> DEFINE old == ideaCall[c]
           rank == IF old.kind = "reorder" THEN 0 ELSE EdgeRank(c)
           locked == old.rows \cup IdeasIn(old.to)
           R == [old EXCEPT !.at = "write", !.rank = rank, !.rows = locked]
<1>1. old \in IdeaCallType /\ old.at = "target" /\ Fits(old) /\ RankFits(old)
      /\ (old.kind = "reorder" => AsShown(c))
  BY IdeaFacts DEF LockTarget, IdeasInv, RanksBounded
<1>2. ideaCall' = [ideaCall EXCEPT ![c] = R] /\ UNCHANGED <<ideas, ideaWrites>>
  BY DEF LockTarget
<1>3. /\ rank \in Int /\ -ideaWrites <= rank /\ rank <= Count + 1
      /\ old.kind # "add" => rank <= Count
  BY <1>1, EdgeIsFree, IdeaFacts
<1>4. locked \subseteq DOMAIN ideas /\ locked \in SUBSET Ids
  BY <1>1, IdeaFacts DEF Fits, IdeasIn
<1>5. old.kind # "reorder" => \A j \in IdeasIn(old.to) \ {old.idea} : ideas[j].rank # rank
  BY <1>1, EdgeIsFree
<1> HIDE DEF rank, locked
<1>6. /\ R \in IdeaCallType /\ R.at = "write" /\ R.rank = rank /\ R.rows = locked
      /\ R.held = old.held /\ R.kind = old.kind /\ R.from = old.from /\ R.to = old.to
      /\ R.idea = old.idea /\ R.order = old.order /\ R.seen = old.seen
  <2>1. R \in IdeaCallType
    BY <1>1, <1>3, <1>4, TargetTyped
  <2> QED
    BY <1>1, <2>1 DEF IdeaCallType
<1> HIDE DEF R
<1>7. Fits(R)
  <2>1. /\ old.kind # "none" /\ old.to \in Bands /\ old.from \in Bands
        /\ old.held = {old.from, old.to}
        /\ old.kind = "add" => old.from = old.to /\ old.idea = 0
        /\ old.kind # "add" => old.idea \in DOMAIN ideas /\ ideas[old.idea].band = old.from
        /\ old.kind = "reorder" =>
             /\ old.order \in Injection(DOMAIN old.order, 1 .. Cardinality(DOMAIN old.order))
             /\ DOMAIN old.order \subseteq DOMAIN ideas
    BY <1>1 DEF Fits
  <2> HIDE DEF old
  <2> QED
    BY <1>4, <1>6, <2>1 DEF Fits
<1>8. Judged(R)
  <2>1. old.kind = "reorder" => /\ InOrder(old.to) = old.seen
                                /\ DOMAIN old.order = IdeasIn(old.to) \cup {old.idea}
    BY <1>1 DEF AsShown
  <2> HIDE DEF old
  <2> QED
    BY <1>5, <1>6, <2>1 DEF Judged
<1>9. RankFits(R)
  <2>1. MaxIdeaWrites > 0
    BY <1>1 DEF RankFits
  <2> QED
    BY <1>3, <1>6, <2>1 DEF RankFits
<1> QED
  BY <1>2, <1>6, <1>7, <1>8, <1>9, IdeaCallMoves

\* The invariant at the start.
LEMMA IdeasInitInv == IdeasInit => IdeasInv
<1> SUFFICES ASSUME IdeasInit PROVE IdeasInv
  OBVIOUS
<1> DEFINE n == Len(Parked)
<1>1. n \in Nat /\ n <= MaxIdeas /\ DOMAIN Parked = 1 .. n /\ \A i \in 1 .. n : Parked[i] \in Bands
  BY ParkedTyped DEF Bands
<1>2. /\ DOMAIN ideas = 1 .. n
      /\ \A i \in 1 .. n : ideas[i] = [band |-> Parked[i], rank |-> i, given |-> FALSE]
      /\ ideas = [i \in 1 .. n |-> [band |-> Parked[i], rank |-> i, given |-> FALSE]]
  BY <1>1 DEF IdeasInit
<1>3. Count = n
  <2> HIDE DEF n
  <2>1. 1 \in Int /\ n \in Int /\ Cardinality(1 .. n) = IF 1 > n THEN 0 ELSE n - 1 + 1
    BY <1>1, FS_Interval
  <2> QED
    BY <1>1, <1>2, <2>1 DEF Count
<1>4. /\ ideaCall \in [IdeaCalls -> IdeaCallType]
      /\ \A c \in IdeaCalls : ideaCall[c] = NoCall
      /\ ideaWrites = 0
  BY NoCallTyped DEF IdeasInit
<1>5. \A i \in DOMAIN ideas : ideas[i] \in IdeaType /\ ideas[i].rank = i
  BY <1>1, <1>2 DEF IdeaType
<1>6. ideas \in [DOMAIN ideas -> IdeaType]
  <2> HIDE DEF n
  <2> QED
    BY <1>2, <1>5
<1> HIDE DEF n
<1>7. IdeasTables
  BY <1>1, <1>2, <1>3, <1>4, <1>6, IdeaBounds DEF IdeasTables
<1>8. RankFits(NoCall) /\ Fits(NoCall) /\ Judged(NoCall)
  BY <1>1, <1>3, <1>4, NoCallTyped DEF RankFits, Fits, Judged
<1>9. RanksBounded
  BY <1>1, <1>2, <1>3, <1>4, <1>5, <1>8 DEF RanksBounded
<1>10. RanksDistinct
  BY <1>5 DEF RanksDistinct
<1>11. BandsApart
  BY <1>4, NoCallTyped DEF BandsApart
<1> QED
  BY <1>4, <1>7, <1>8, <1>9, <1>10, <1>11 DEF IdeasInv

\* A write leaves the bands alone that its request has not locked.
LEMMA WriteLeavesBands ==
  ASSUME IdeasInv, NEW c \in IdeaCalls, WriteIdeas(c),
         NEW b \in Bands \ ideaCall[c].held
  PROVE  /\ IdeasIn(b)' = IdeasIn(b)
         /\ \A j \in IdeasIn(b) : ideas'[j] = ideas[j]
         /\ InOrder(b)' = InOrder(b)
<1> DEFINE R == ideaCall[c]
           i == IF R.kind = "add" THEN Count + 1 ELSE R.idea
<1>1. /\ R \in IdeaCallType /\ R.at = "write" /\ Fits(R) /\ Judged(R)
  BY IdeaFacts DEF WriteIdeas, IdeasInv
<1>2. /\ b # R.from /\ b # R.to
      /\ R.kind = "add" => i \notin DOMAIN ideas
      /\ R.kind # "add" => i \in DOMAIN ideas /\ ideas[i].band = R.from
  BY <1>1, IdeaFacts DEF Fits
<1>3. ideas' = IF R.kind # "reorder"
               THEN [j \in DOMAIN ideas \cup {i} |-> IF j = i THEN Placed(c) ELSE ideas[j]]
               ELSE [j \in DOMAIN ideas |->
                       IF j \notin DOMAIN R.order THEN ideas[j]
                       ELSE [band |-> IF j = i THEN R.to ELSE ideas[j].band,
                             rank |-> R.order[j], given |-> FALSE]]
  BY DEF WriteIdeas, IdeasWritten, Count
<1>4. Placed(c).band = R.to
  BY DEF Placed
<1> HIDE DEF i
<1>5. CASE R.kind # "reorder"
  <2>1. /\ DOMAIN ideas' = DOMAIN ideas \cup {i}
        /\ ideas'[i].band = R.to
        /\ \A j \in DOMAIN ideas : j # i => ideas'[j] = ideas[j]
    BY <1>3, <1>4, <1>5
  <2>2. IdeasIn(b)' = IdeasIn(b) /\ \A j \in IdeasIn(b) : ideas'[j] = ideas[j]
    BY <1>2, <2>1 DEF IdeasIn
  <2> QED
    BY <2>2 DEF InOrder, Before
<1>6. CASE R.kind = "reorder"
  <2>1. DOMAIN R.order = IdeasIn(R.to) \cup {R.idea} /\ i = R.idea
    BY <1>1, <1>6 DEF Judged, i
  <2>2. /\ DOMAIN ideas' = DOMAIN ideas
        /\ \A j \in DOMAIN ideas \ DOMAIN R.order : ideas'[j] = ideas[j]
        /\ \A j \in DOMAIN ideas \cap DOMAIN R.order :
             ideas'[j].band = IF j = i THEN R.to ELSE ideas[j].band
    BY <1>3, <1>6
  <2>3. \A j \in DOMAIN ideas \cap DOMAIN R.order : ideas[j].band # b /\ ideas'[j].band # b
    BY <1>2, <1>6, <2>1, <2>2 DEF IdeasIn
  <2>4. IdeasIn(b)' = IdeasIn(b) /\ \A j \in IdeasIn(b) : ideas'[j] = ideas[j]
    BY <2>2, <2>3 DEF IdeasIn
  <2> QED
    BY <2>4 DEF InOrder, Before
<1> QED
  BY <1>5, <1>6

\* The table after a write: types, bounds of the ranks, and their places.
LEMMA WriteMoveTables ==
  ASSUME IdeasInv, NEW c \in IdeaCalls, WriteIdeas(c), ideaCall[c].kind # "reorder"
  PROVE  /\ Count' \in 0 .. MaxIdeas /\ DOMAIN ideas' = 1 .. Count' /\ Count <= Count'
         /\ DOMAIN ideas \subseteq DOMAIN ideas'
         /\ ideas' \in [DOMAIN ideas' -> IdeaType]
         /\ \A j \in DOMAIN ideas' : -ideaWrites <= ideas'[j].rank /\ ideas'[j].rank <= Count'
         /\ RanksDistinct'
<1> DEFINE R == ideaCall[c]
           add == R.kind = "add"
           i == IF add THEN Count + 1 ELSE R.idea
           row == [band |-> R.to, rank |-> R.rank, given |-> R.given]
<1>1. /\ R \in IdeaCallType /\ R.at = "write" /\ Fits(R) /\ Judged(R) /\ RankFits(R)
      /\ (add => Count < MaxIdeas)
  BY IdeaFacts DEF WriteIdeas, IdeasInv, RanksBounded, Count
<1>2. ideas' = [j \in DOMAIN ideas \cup {i} |-> IF j = i THEN row ELSE ideas[j]]
  BY DEF WriteIdeas, IdeasWritten, Count, Placed
<1>3. /\ add => i = Count + 1
      /\ ~add => i \in DOMAIN ideas
      /\ row \in IdeaType /\ row.band = R.to /\ row.rank = R.rank /\ row.given = R.given
  BY <1>1 DEF Fits, IdeaCallType, IdeaType
<1>4. i = R.idea \/ (add /\ R.idea = 0)
  BY <1>1 DEF Fits
<1> HIDE DEF i, row
<1>5. /\ DOMAIN ideas' = DOMAIN ideas \cup {i} /\ ideas'[i] = row
      /\ \A j \in DOMAIN ideas : j # i => ideas'[j] = ideas[j]
  BY <1>2
<1>6. DOMAIN ideas' = 1 .. IF add THEN Count + 1 ELSE Count
  BY <1>3, <1>5, IdeaFacts
<1>7. Count' = IF add THEN Count + 1 ELSE Count
  <2>1. \A n \in Nat : Cardinality(1 .. n) = n
    <3> SUFFICES ASSUME NEW n \in Nat PROVE Cardinality(1 .. n) = n
      OBVIOUS
    <3>1. 1 \in Int /\ n \in Int
      OBVIOUS
    <3>2. Cardinality(1 .. n) = IF 1 > n THEN 0 ELSE n - 1 + 1
      BY <3>1, FS_Interval
    <3> QED
      BY <3>2
  <2>2. (IF add THEN Count + 1 ELSE Count) \in Nat
    BY IdeaFacts
  <2> QED
    BY <1>6, <2>1, <2>2 DEF Count
<1>8. Count' \in 0 .. MaxIdeas /\ Count <= Count' /\ DOMAIN ideas' = 1 .. Count'
  BY <1>1, <1>6, <1>7, IdeaFacts
<1>9. ideas' \in [DOMAIN ideas' -> IdeaType]
  <2>1. \A j \in DOMAIN ideas' : ideas'[j] \in IdeaType
    BY <1>3, <1>5, IdeaFacts
  <2>2. ideas' = [j \in DOMAIN ideas' |-> ideas'[j]]
    BY <1>2
  <2> QED
    BY <2>1, <2>2
<1>10. \A j \in DOMAIN ideas' : -ideaWrites <= ideas'[j].rank /\ ideas'[j].rank <= Count'
  <2>1. ASSUME NEW j \in DOMAIN ideas, j # i
        PROVE  -ideaWrites <= ideas'[j].rank /\ ideas'[j].rank <= Count'
    <3>1. 1 - ideaWrites <= ideas[j].rank /\ ideas[j].rank <= Count /\ ideas[j].rank \in Int
      BY IdeaFacts DEF IdeasInv, RanksBounded, IdeaType
    <3> QED
      BY <1>5, <1>8, <2>1, <3>1, IdeaFacts
  <2>2. -ideaWrites <= row.rank /\ row.rank <= Count'
    BY <1>1, <1>3, <1>7, IdeaFacts DEF RankFits
  <2> QED
    BY <1>5, <2>1, <2>2
<1>11. RanksDistinct'
  <2>1. ASSUME NEW j \in DOMAIN ideas, j # i, ideas[j].band = row.band, ideas[j].rank = row.rank
        PROVE  row.given \/ ideas[j].given
    <3>1. j \in IdeasIn(R.to) \ {R.idea}
      BY <1>3, <1>4, <2>1, IdeaFacts DEF IdeasIn
    <3> QED
      BY <1>1, <1>3, <2>1, <3>1 DEF Judged
  <2>2. ASSUME NEW j \in DOMAIN ideas', NEW k \in DOMAIN ideas', j # k,
               ideas'[j].band = ideas'[k].band, ideas'[j].rank = ideas'[k].rank
        PROVE  ideas'[j].given \/ ideas'[k].given
    <3>1. CASE j = i
      BY <1>5, <2>1, <2>2, <3>1
    <3>2. CASE k = i
      BY <1>5, <2>1, <2>2, <3>2
    <3>3. CASE j # i /\ k # i
      BY <1>5, <2>2, <3>3 DEF IdeasInv, RanksDistinct
    <3> QED
      BY <3>1, <3>2, <3>3
  <2> QED
    BY <2>2 DEF RanksDistinct
<1> QED
  BY <1>5, <1>8, <1>9, <1>10, <1>11

\* A reorder written keeps the types.
LEMMA WriteOrderTables ==
  ASSUME IdeasInv, NEW c \in IdeaCalls, WriteIdeas(c), ideaCall[c].kind = "reorder"
  PROVE  /\ Count' \in 0 .. MaxIdeas /\ DOMAIN ideas' = 1 .. Count' /\ Count <= Count'
         /\ DOMAIN ideas \subseteq DOMAIN ideas'
         /\ ideas' \in [DOMAIN ideas' -> IdeaType]
         /\ \A j \in DOMAIN ideas' : -ideaWrites <= ideas'[j].rank /\ ideas'[j].rank <= Count'
         /\ RanksDistinct'
<1> DEFINE R == ideaCall[c]
           S == DOMAIN R.order
           i == R.idea
           n == Cardinality(S)
           row(j) == [band |-> IF j = i THEN R.to ELSE ideas[j].band,
                      rank |-> R.order[j], given |-> FALSE]
<1>1. /\ R \in IdeaCallType /\ R.at = "write" /\ Fits(R) /\ Judged(R)
  BY IdeaFacts DEF WriteIdeas, IdeasInv
<1>2. /\ S \subseteq DOMAIN ideas /\ S = IdeasIn(R.to) \cup {i} /\ R.to \in Bands
      /\ \A j \in S : R.order[j] \in 1 .. n
      /\ \A j, k \in S : R.order[j] = R.order[k] => j = k
  BY <1>1 DEF Fits, Judged, Injection, IsInjective
<1>3. n \in Nat /\ n <= Count
  BY <1>2, IdeasFinite
<1>4. ideas' = [j \in DOMAIN ideas |-> IF j \notin S THEN ideas[j] ELSE row(j)]
  BY <1>1 DEF WriteIdeas, IdeasWritten
<1> HIDE DEF S, n, i
<1>5. \A j \in S : row(j).band = R.to /\ row(j).rank = R.order[j] /\ row(j) \in IdeaType
  BY <1>2, <1>3 DEF IdeasIn, IdeaType
<1> HIDE DEF row
<1>6. /\ DOMAIN ideas' = DOMAIN ideas
      /\ \A j \in S : ideas'[j] = row(j)
      /\ \A j \in DOMAIN ideas \ S : ideas'[j] = ideas[j] /\ ideas[j].band # R.to
  BY <1>2, <1>4 DEF IdeasIn
<1>7. Count' = Count
  BY <1>6 DEF Count
<1>8. ideas' \in [DOMAIN ideas' -> IdeaType]
  <2>1. \A j \in DOMAIN ideas' : ideas'[j] \in IdeaType
    BY <1>5, <1>6, IdeaFacts
  <2>2. ideas' = [j \in DOMAIN ideas' |-> ideas'[j]]
    BY <1>4
  <2> QED
    BY <2>1, <2>2
<1>9. \A j \in DOMAIN ideas' : -ideaWrites <= ideas'[j].rank /\ ideas'[j].rank <= Count'
  <2>1. ASSUME NEW j \in DOMAIN ideas \ S
        PROVE  -ideaWrites <= ideas'[j].rank /\ ideas'[j].rank <= Count'
    <3>1. 1 - ideaWrites <= ideas[j].rank /\ ideas[j].rank <= Count /\ ideas[j].rank \in Int
      BY IdeaFacts DEF IdeasInv, RanksBounded, IdeaType
    <3> QED
      BY <1>6, <1>7, <3>1, IdeaFacts
  <2>2. ASSUME NEW j \in S
        PROVE  -ideaWrites <= ideas'[j].rank /\ ideas'[j].rank <= Count'
    <3>1. ideas'[j].rank = R.order[j] /\ R.order[j] \in 1 .. n
      BY <1>2, <1>5, <1>6
    <3> QED
      BY <1>3, <1>7, <3>1, IdeaFacts
  <2> QED
    BY <1>6, <2>1, <2>2
<1>10. RanksDistinct'
  <2>1. ASSUME NEW j \in DOMAIN ideas', NEW k \in DOMAIN ideas', j # k,
               ideas'[j].band = ideas'[k].band, ideas'[j].rank = ideas'[k].rank
        PROVE  ideas'[j].given \/ ideas'[k].given
    <3>1. CASE j \in S /\ k \in S
      BY <1>2, <1>5, <1>6, <2>1, <3>1
    <3>2. CASE j \notin S /\ k \notin S
      BY <1>6, <2>1, <3>2 DEF IdeasInv, RanksDistinct
    <3>3. CASE (j \in S /\ k \notin S) \/ (j \notin S /\ k \in S)
      BY <1>5, <1>6, <2>1, <3>3
    <3> QED
      BY <3>1, <3>2, <3>3
  <2> QED
    BY <2>1 DEF RanksDistinct
<1> QED
  BY <1>6, <1>7, <1>8, <1>9, <1>10, IdeaFacts

\* What another request has found in its bands is still so after a write.
LEMMA WriteKeepsOthers ==
  ASSUME IdeasInv, NEW c \in IdeaCalls, WriteIdeas(c), NEW d \in IdeaCalls, d # c,
         DOMAIN ideas \subseteq DOMAIN ideas'
  PROVE  Fits(ideaCall[d])' /\ Judged(ideaCall[d])'
<1> DEFINE R == ideaCall[d]
<1>1. ideaCall'[d] = R /\ R \in IdeaCallType /\ Fits(R) /\ Judged(R)
  BY IdeaFacts DEF WriteIdeas, IdeasInv
<1>2. \A b \in R.held : b \in Bands \ ideaCall[c].held
  BY <1>1 DEF IdeasInv, BandsApart, IdeaCallType
<1>3. \A b \in R.held : /\ IdeasIn(b)' = IdeasIn(b) /\ InOrder(b)' = InOrder(b)
                        /\ \A j \in IdeasIn(b) : ideas'[j] = ideas[j]
  BY <1>2, WriteLeavesBands
<1>4. ASSUME R.at \in {"target", "write"}
      PROVE  /\ R.to \in R.held /\ R.from \in R.held
             /\ R.kind # "add" => R.idea \in IdeasIn(R.from)
  BY <1>1, <1>4 DEF Fits, IdeasIn
<1>5. ASSUME R.at \in {"target", "write"}, R.kind # "add"
      PROVE  ideas'[R.idea].band = R.from
  <2>1. ideas'[R.idea] = ideas[R.idea]
    BY <1>3, <1>4, <1>5
  <2> QED
    BY <1>1, <1>5, <2>1 DEF Fits
<1>6. Fits(ideaCall[d])'
  <2>1. /\ R.at # "idle" =>
             R.kind # "none" /\ R.to \in Bands /\ (R.kind # "add" => R.idea \in DOMAIN ideas')
        /\ R.kind = "add" => R.from = R.to /\ R.idea = 0 /\ R.at \notin {"idle", "read", "row"}
        /\ R.kind = "reorder" =>
             /\ R.order \in Injection(DOMAIN R.order, 1 .. Cardinality(DOMAIN R.order))
             /\ DOMAIN R.order \subseteq DOMAIN ideas'
        /\ R.rows \subseteq DOMAIN ideas'
    BY <1>1 DEF Fits
  <2>2. /\ R.at \in {"idle", "read"} => R.held = {}
        /\ R.at = "lock" => /\ R.from \in Bands
                            /\ \/ R.held = {}
                               \/ R.held = {R.from} /\ R.from < R.to
                               \/ R.held = {R.to} /\ R.to < R.from
        /\ R.at \in {"row", "target", "write"} => R.from \in Bands /\ R.held = {R.from, R.to}
        /\ R.at \notin {"target", "write"} => R.rows = {}
        /\ R.at = "target" => R.rows \subseteq {R.idea}
    BY <1>1 DEF Fits
  <2> HIDE DEF R
  <2> QED
    BY <1>1, <1>5, <2>1, <2>2 DEF Fits
<1>7. Judged(ideaCall[d])'
  <2>1. CASE R.at # "write"
    BY <1>1, <2>1 DEF Judged
  <2>2. CASE R.at = "write"
    <3>1. PICK b \in R.held : b = R.to
      BY <1>4, <2>2
    <3>2. /\ IdeasIn(b)' = IdeasIn(b) /\ InOrder(b)' = InOrder(b)
          /\ \A j \in IdeasIn(b) : ideas'[j] = ideas[j]
      BY <1>3
    <3>3. ideaCall'[d].to = b
      BY <1>1, <3>1
    <3>4. IdeasIn(ideaCall[d].to)' = IdeasIn(R.to)
      <4>1. IdeasIn(ideaCall[d].to)' = IdeasIn(b)'
        BY <3>3 DEF IdeasIn
      <4> QED
        BY <3>1, <3>2, <4>1
    <3>5. InOrder(ideaCall[d].to)' = InOrder(R.to)
      <4>1. InOrder(ideaCall[d].to)' = InOrder(b)'
        BY <3>3 DEF InOrder, IdeasIn, Before
      <4> QED
        BY <3>1, <3>2, <4>1
    <3> QED
      BY <1>1, <3>1, <3>2, <3>4, <3>5 DEF Judged
  <2> QED
    BY <2>1, <2>2
<1> QED
  BY <1>6, <1>7

\* What is written has the band to itself.
LEMMA WriteIdeasInv ==
  ASSUME IdeasInv, NEW c \in IdeaCalls, WriteIdeas(c)
  PROVE  IdeasInv'
<1>1. /\ Count' \in 0 .. MaxIdeas /\ DOMAIN ideas' = 1 .. Count' /\ Count <= Count'
      /\ DOMAIN ideas \subseteq DOMAIN ideas'
      /\ ideas' \in [DOMAIN ideas' -> IdeaType]
      /\ \A j \in DOMAIN ideas' : -ideaWrites <= ideas'[j].rank /\ ideas'[j].rank <= Count'
      /\ RanksDistinct'
  BY WriteMoveTables, WriteOrderTables
<1>2. /\ ideaWrites' = ideaWrites + 1 /\ ideaWrites < MaxIdeaWrites
      /\ ideaCall' = [ideaCall EXCEPT ![c] = NoCall]
  BY DEF WriteIdeas
<1>3. /\ ideaCall' \in [IdeaCalls -> IdeaCallType]
      /\ \A d \in IdeaCalls : ideaCall'[d] = IF d = c THEN NoCall ELSE ideaCall[d]
  BY <1>2, NoCallTyped, IdeaFacts
<1>4. ideaWrites' \in 0 .. MaxIdeaWrites
  BY <1>2, IdeaFacts
<1>5. IdeasTables'
  BY <1>1, <1>3, <1>4 DEF IdeasTables, Count, IdeaType, IdeaCallType
<1>6. \A j \in DOMAIN ideas' : 1 - ideaWrites' <= ideas'[j].rank /\ ideas'[j].rank <= Count'
  BY <1>1, <1>2, IdeaFacts DEF IdeaType
<1>7. \A d \in IdeaCalls : RankFits(ideaCall[d])'
  <2> SUFFICES ASSUME NEW d \in IdeaCalls PROVE RankFits(ideaCall[d])'
    OBVIOUS
  <2>1. ideaCall'[d] \in IdeaCallType /\ ideaCall'[d].rank \in Int
    BY <1>3 DEF IdeaCallType
  <2>2. RankFits(ideaCall'[d])
    BY <1>3, NoCallFits DEF IdeasInv, RanksBounded
  <2>3. /\ -ideaWrites' <= ideaCall'[d].rank /\ ideaCall'[d].rank <= Count' + 1
        /\ ideaCall'[d].kind # "add" => ideaCall'[d].rank <= Count'
        /\ ideaCall'[d].at # "idle" => MaxIdeaWrites > 0
    BY <1>1, <1>2, <2>1, <2>2, IdeaFacts DEF RankFits
  <2> QED
    BY <2>3 DEF RankFits, Count
<1>8. RanksBounded'
  BY <1>6, <1>7 DEF RanksBounded, Count
<1>9. BandsApart'
  BY <1>3, NoCallTyped DEF IdeasInv, BandsApart
<1>10. \A d \in IdeaCalls : Fits(ideaCall[d])' /\ Judged(ideaCall[d])'
  <2>1. Fits(ideaCall[c])' /\ Judged(ideaCall[c])'
    BY <1>3, NoCallTyped DEF Fits, Judged
  <2> QED
    BY <1>1, <2>1, WriteKeepsOthers
<1> QED
  BY <1>1, <1>5, <1>8, <1>9, <1>10 DEF IdeasInv

----------------------------------------------------------------------------
(* Bands, rows, places and locks of the roadmap board fit together in every     *)
(* state: the invariant the theorems below rest on.                            *)
THEOREM IdeasInvariant == IdeasSpec => []IdeasInv
<1>1. IdeasInv /\ [IdeasNext]_ideaVars => IdeasInv'
  <2> SUFFICES ASSUME IdeasInv, [IdeasNext]_ideaVars
               PROVE  IdeasInv'
    OBVIOUS
  <2>1. ASSUME NEW c \in IdeaCalls, AskAdd(c) \/ AskMove(c) \/ AskReorder(c)
        PROVE  IdeasInv'
    BY <2>1, AskInv, AskReorderInv
  <2>2. ASSUME NEW c \in IdeaCalls, ReadIdea(c) \/ LockBand(c) \/ LockIdea(c) \/ LockTarget(c)
        PROVE  IdeasInv'
    BY <2>2, ReadIdeaInv, LockBandInv, LockIdeaInv, LockTargetInv
  <2>3. ASSUME NEW c \in IdeaCalls, Drift(c) \/ RollBack(c) \/ WriteIdeas(c)
        PROVE  IdeasInv'
    BY <2>3, GiveUpInv, WriteIdeasInv
  <2>4. CASE UNCHANGED ideaVars
    BY <2>4 DEF ideaVars, IdeasInv, IdeasTables, Count, RanksBounded, RankFits, BandsApart,
                RanksDistinct, Fits, Judged, InOrder, IdeasIn, Before
  <2> QED
    BY <2>1, <2>2, <2>3, <2>4 DEF IdeasNext
<1> QED
  BY <1>1, IdeasInitInv, PTL DEF IdeasSpec

(* The ideas and the requests have their types. *)
THEOREM IdeasTypes == IdeasSpec => []IdeasTypeOK
<1>1. IdeasInv => IdeasTypeOK
  <2> SUFFICES ASSUME IdeasInv PROVE IdeasTypeOK
    OBVIOUS
  <2>1. DOMAIN ideas \in {1 .. n : n \in 0 .. MaxIdeas}
    BY IdeaFacts
  <2>2. ASSUME NEW i \in DOMAIN ideas
        PROVE  ideas[i] \in [band : Bands, rank : Ranks, given : BOOLEAN]
    <3>1. ideas[i] \in IdeaType /\ ideas[i].rank \in Int
      BY IdeaFacts DEF IdeaType
    <3>2. 1 - ideaWrites <= ideas[i].rank /\ ideas[i].rank <= Count
      BY DEF IdeasInv, RanksBounded
    <3>3. ideas[i].rank \in Ranks
      BY <3>1, <3>2, IdeaFacts DEF Ranks
    <3> HIDE DEF Ranks
    <3> QED
      BY <3>1, <3>3 DEF IdeaType
  <2>3. ASSUME NEW c \in IdeaCalls
        PROVE  /\ ideaCall[c].at \in {"idle", "read", "lock", "row", "target", "write"}
               /\ ideaCall[c].rank \in Ranks
               /\ ideaCall[c].tries \in 0 .. 2
               /\ ideaCall[c].held \subseteq {ideaCall[c].from, ideaCall[c].to}
               /\ ideaCall[c].rows \subseteq DOMAIN ideas
    <3>1. ideaCall[c] \in IdeaCallType /\ Fits(ideaCall[c]) /\ RankFits(ideaCall[c])
      BY IdeaFacts DEF IdeasInv, RanksBounded
    <3>2. ideaCall[c].rank \in Ranks
      BY <3>1, IdeaFacts DEF RankFits, Ranks, IdeaCallType, Fits
    <3> QED
      BY <3>1, <3>2 DEF Fits, IdeaCallType
  <2> QED
    BY <2>1, <2>2, <2>3, IdeaFacts DEF IdeasTypeOK
<1> QED
  BY <1>1, IdeasInvariant, PTL

(* Two ideas of a band have one rank only if an operator has given one of      *)
(* them a rank (bandEdgeRankLocked under the band's lock).                    *)
THEOREM PlacesAreFree == IdeasSpec => []RanksDistinct
<1>1. IdeasInv => RanksDistinct
  BY DEF IdeasInv
<1> QED
  BY <1>1, IdeasInvariant, PTL

(* What a reorder writes over is the column the operator was shown            *)
(* (ideaOperatorReorder).                                                     *)
THEOREM ReordersAreCurrent == IdeasSpec => []ReorderReplacesShown
<1>1. IdeasInv => ReorderReplacesShown
  BY DEF IdeasInv, Judged, ReorderReplacesShown
<1> QED
  BY <1>1, IdeasInvariant, PTL

(* Writers of the board never wait for one another in a circle: who waits for  *)
(* a row is waited for by none who waits, and who waits for a band is waited   *)
(* for only at a smaller one (lockIdeaBands).                                 *)
THEOREM WritesDoNotDeadlock == IdeasSpec => []NoCircleOfWrites
<1>1. IdeasInv => NoCircleOfWrites
  <2> SUFFICES ASSUME IdeasInv, NEW S \in (SUBSET IdeaCalls) \ {{}},
                      \A c \in S : WaitsFor(c) \cap S # {}
               PROVE  FALSE
    BY DEF NoCircleOfWrites
  <2>1. \A c \in S : /\ c \in IdeaCalls /\ ideaCall[c] \in IdeaCallType
                     /\ Fits(ideaCall[c]) /\ \E d \in S : d \in WaitsFor(c)
    BY IdeaFacts DEF IdeasInv
  <2>2. \A c \in S : ideaCall[c].at \in {"lock", "row", "target"}
    BY <2>1 DEF WaitsFor
  <2>3. ASSUME NEW c \in S, ideaCall[c].at = "target"
        PROVE  FALSE
    <3>1. PICK d \in S : d # c /\ ideaCall[d].rows \cap IdeasIn(ideaCall[c].to) # {}
      BY <2>1, <2>3 DEF WaitsFor
    <3>2. ideaCall[d].at = "target"
      BY <2>1, <2>2, <3>1 DEF Fits
    <3>3. /\ ideaCall[d].idea \in ideaCall[d].rows
          /\ ideaCall[d].idea \in IdeasIn(ideaCall[c].to)
          /\ ideaCall[d].kind # "add"
      <4>1. ideaCall[d].rows \subseteq {ideaCall[d].idea} /\ ideaCall[d].rows \subseteq Ids
        BY <2>1, <3>2 DEF Fits, IdeaCallType
      <4>2. 0 \notin Ids
        BY DEF Ids
      <4> QED
        BY <2>1, <3>1, <4>1, <4>2 DEF Fits
    <3>4. ideas[ideaCall[d].idea].band = ideaCall[d].from /\ ideaCall[d].from \in ideaCall[d].held
      BY <2>1, <3>2, <3>3 DEF Fits
    <3>5. ideaCall[c].to = ideaCall[d].from /\ ideaCall[c].to \in ideaCall[c].held
      BY <2>1, <2>3, <3>3, <3>4 DEF Fits, IdeasIn
    <3> QED
      BY <2>1, <3>1, <3>4, <3>5 DEF IdeasInv, BandsApart
  <2>4. ASSUME NEW c \in S, ideaCall[c].at = "row"
        PROVE  FALSE
    <3>1. PICK d \in S : ideaCall[c].idea \in ideaCall[d].rows
      BY <2>1, <2>4 DEF WaitsFor
    <3>2. ideaCall[d].at \notin {"target", "write"}
      BY <2>2, <2>3
    <3>3. ideaCall[d].rows = {}
      BY <2>1, <3>2 DEF Fits
    <3> QED
      BY <3>1, <3>3
  <2>5. \A c \in S : ideaCall[c].at = "lock"
    BY <2>2, <2>3, <2>4
  <2>6. \A c \in S : NextBand(c) \in Nat /\ NextBand(c) <= Len(Columns)
    <3>1. Bands = 1 .. Len(Columns) /\ Len(Columns) \in Nat
      BY ColumnsTyped DEF Bands
    <3>2. \A c \in S : NextBand(c) \in Bands
      BY <2>1, <2>5, NextBandIs
    <3> QED
      BY <3>1, <3>2
  <2>7. \A c \in S : \E d \in S : NextBand(c) < NextBand(d)
    <3> SUFFICES ASSUME NEW c \in S PROVE \E d \in S : NextBand(c) < NextBand(d)
      OBVIOUS
    <3>1. PICK d \in S : NextBand(c) \in ideaCall[d].held
      BY <2>1, <2>5 DEF WaitsFor
    <3>2. NextBand(c) < NextBand(d)
      BY <2>1, <2>5, <3>1, NextBandIs
    <3> QED
      BY <3>2
  <2> DEFINE T == {NextBand(c) : c \in S}
             least == 0
             most == Len(Columns)
  <2>8. T \in SUBSET (least .. most) /\ T # {} /\ least \in Int /\ most \in Int
    <3>1. PICK c \in IdeaCalls : c \in S
      OBVIOUS
    <3>2. NextBand(c) \in T
      BY <3>1
    <3> QED
      BY <2>6, <3>2, ColumnsTyped
  <2>9. Max(T) \in T /\ \A y \in T : y <= Max(T)
    <3> HIDE DEF T, least, most
    <3> QED
      BY <2>8, EndsExist
  <2>10. PICK c \in S : NextBand(c) = Max(T)
    BY <2>9
  <2>11. PICK d \in S : NextBand(c) < NextBand(d)
    BY <2>7
  <2>12. NextBand(d) <= Max(T)
    BY <2>9
  <2> QED
    BY <2>6, <2>10, <2>11, <2>12
<1> QED
  BY <1>1, IdeasInvariant, PTL
-----------------------------------------------------------------------------
(***************************************************************************)
(* A step of the sum is a step of one component, which leaves the variables   *)
(* of each other as they are.                                                 *)
(***************************************************************************)
LEMMA CoordinationSteps ==
  ASSUME [Next]_<<boardVars, planVars, ideaVars, taskVars, shareVars, captureVars>>
  PROVE  /\ [BoardNext]_boardVars /\ [PlansNext]_planVars /\ [IdeasNext]_ideaVars
         /\ [TasksNext]_taskVars /\ [SharesNext]_shareVars /\ [CaptureNext]_captureVars
<1>1. CASE UNCHANGED <<boardVars, planVars, ideaVars, taskVars, shareVars, captureVars>>
  BY <1>1
<1>2. CASE Next
  BY <1>2 DEF Next
<1>3. QED
  BY <1>1, <1>2

(***************************************************************************)
(* A behaviour of the sum the run checks (MCCoordination) is a behaviour of    *)
(* each of its components: what is proved of the board, the plans, the ideas,   *)
(* the tasks, the shares and the capture holds of it.                          *)
(***************************************************************************)
THEOREM CoordinationRunsItsComponents ==
  Spec => /\ BoardSpec /\ PlansSpec /\ IdeasSpec
          /\ TasksSpec /\ SharesSpec /\ CaptureSpec
<1>1. Init => /\ BoardInit /\ PlansInit /\ IdeasInit
              /\ TasksInit /\ SharesInit /\ CaptureInit
  BY DEF Init
<1>2. [Next]_<<boardVars, planVars, ideaVars, taskVars, shareVars, captureVars>> =>
        /\ [BoardNext]_boardVars /\ [PlansNext]_planVars /\ [IdeasNext]_ideaVars
        /\ [TasksNext]_taskVars /\ [SharesNext]_shareVars /\ [CaptureNext]_captureVars
  BY CoordinationSteps
<1>3. QED
  BY <1>1, <1>2, PTL
     DEF Spec, BoardSpec, PlansSpec, IdeasSpec, TasksSpec, SharesSpec, CaptureSpec

(***************************************************************************)
(* All that agents and operators coordinate through keeps its tables, locks    *)
(* and counters of their types (notes, reviews, ideas, tasks, shares and        *)
(* transcripts).                                                              *)
(***************************************************************************)
THEOREM CoordinationTypes == Spec => []CoordinationTypeOK
<1>1. /\ BoardTypeOK /\ PlansTypeOK /\ IdeasTypeOK
      /\ TasksTypeOK /\ SharesTypeOK /\ CaptureTypeOK
      => CoordinationTypeOK
  BY DEF CoordinationTypeOK
<1>2. QED
  BY <1>1, CoordinationRunsItsComponents, BoardTypes, PlansTypes, IdeasTypes, TasksTypes,
     SharesTypes, CaptureTypes, PTL

(***************************************************************************)
(* Nobody waits in a circle: neither the writers of the roadmap board for bands *)
(* and rows (lockIdeaBands, FOR UPDATE) nor grants and revocations for projects  *)
(* (the SELECT ... ORDER BY id FOR UPDATE of shareCreate and shareRevoke).      *)
(***************************************************************************)
THEOREM NobodyWaitsInACircle == Spec => []NoCircle
<1>1. NoCircleOfWrites /\ NoCircleOfShares => NoCircle
  BY DEF NoCircle
<1>2. QED
  BY <1>1, CoordinationRunsItsComponents, WritesDoNotDeadlock, SharesDoNotDeadlock, PTL
=============================================================================
