---------------------------- MODULE ClaimsProofs ----------------------------
(***************************************************************************)
(* Proofs about Claims for any sessions, claims, lanes, files and times.     *)
(*                                                                          *)
(* Globs first: if a file is in two globs, their static prefixes are both     *)
(* prefixes of its path, so one is a prefix of the other and GlobsOverlap      *)
(* holds.  The heuristic of claims.ts never misses a shared file.             *)
(*                                                                          *)
(* Then the protocol.  A claim is active before its call looks for overlaps,  *)
(* and never becomes active again, so of two standing claims the one whose    *)
(* call looked last saw the other (Reported).                                 *)
(*                                                                          *)
(* A lease is never older than the last heartbeat its session began, unless   *)
(* that one has not renewed it yet (Fresh); expiry looks at the lease only.    *)
(*                                                                          *)
(* Nudges: what a session has read or named is stamped up to its watermark,    *)
(* and stamps do not change (Noted), so the next pass reads none of it.        *)
(*                                                                          *)
(* The last part is about the two comments that runs refute: each holds in     *)
(* every behaviour without what is named in its theorem, equal process ids     *)
(* (PidsDiffer); a nudge dropped on the way or lost with a pass that fails     *)
(* (NudgesArrive), and a claim that appears behind a watermark                 *)
(* (ClaimsAppearInOrder).                                                     *)
(***************************************************************************)
EXTENDS Claims, SequenceTheorems, FiniteSetTheorems, TLAPS

\* The static prefix of a glob is a path no longer than the glob.
LEMMA PrefixType ==
  ASSUME NEW g \in Seq(Symbols)
  PROVE  /\ StaticPrefix(g) \in Seq(Symbols)
         /\ Len(StaticPrefix(g)) <= Len(g)
<1> DEFINE S == {k \in 1 .. Len(g) : \A l \in 1 .. k : g[l] # Wildcard}
           n == Cardinality(S)
<1>1. Len(g) \in Nat
  BY LenProperties
<1>2. /\ IsFiniteSet(1 .. Len(g))
      /\ Cardinality(1 .. Len(g)) = Len(g)
  BY <1>1, FS_Interval
<1>3. n \in Nat /\ n <= Len(g)
  BY <1>2, FS_Subset, FS_CardinalityType
<1> HIDE DEF n
<1>4. SubSeq(g, 1, n) \in Seq(Symbols) /\ Len(SubSeq(g, 1, n)) = n
  BY <1>1, <1>3
<1> QED
  BY <1>3, <1>4 DEF StaticPrefix, n

\* StartsWith, symbol by symbol.
LEMMA StartsWithElements ==
  ASSUME NEW p \in Seq(Symbols), NEW q \in Seq(Symbols)
  PROVE  StartsWith(p, q) <=> (Len(q) <= Len(p) /\ \A k \in 1 .. Len(q) : p[k] = q[k])
BY DEF StartsWith

\* Of two prefixes of one path, one is a prefix of the other.
LEMMA PrefixesMeet ==
  ASSUME NEW f \in Seq(Symbols), NEW p \in Seq(Symbols), NEW q \in Seq(Symbols),
         StartsWith(f, p), StartsWith(f, q)
  PROVE  StartsWith(p, q) \/ StartsWith(q, p)
<1>1. Len(p) \in Nat /\ Len(q) \in Nat
  BY LenProperties
<1> QED
  BY <1>1, StartsWithElements

\* A file in a glob begins with the glob's static prefix.
LEMMA InGlobStarts ==
  ASSUME NEW f \in Seq(Symbols), NEW g \in Seq(Symbols), Slash \in Symbols, PathInGlob(f, g)
  PROVE  StartsWith(f, StaticPrefix(g))
<1>1. CASE StaticPrefix(g) # g
  BY <1>1 DEF PathInGlob
<1>2. CASE StaticPrefix(g) = g
  <2>1. CASE f = g
    BY <1>2, <2>1, StartsWithElements
  <2>2. CASE StartsWith(f, g)
    BY <1>2, <2>2
  <2>3. CASE StartsWith(f, Append(g, Slash))
    <3>1. /\ Append(g, Slash) \in Seq(Symbols)
          /\ Len(Append(g, Slash)) = Len(g) + 1
          /\ \A k \in 1 .. Len(g) : Append(g, Slash)[k] = g[k]
      BY AppendProperties
    <3>2. Len(g) \in Nat /\ Len(f) \in Nat
      BY LenProperties
    <3>3. Len(g) + 1 <= Len(f) /\ \A k \in 1 .. Len(g) + 1 : f[k] = Append(g, Slash)[k]
      BY <2>3, <3>1, StartsWithElements
    <3>4. Len(g) <= Len(f) /\ \A k \in 1 .. Len(g) : f[k] = g[k]
      BY <3>1, <3>2, <3>3
    <3> QED
      BY <1>2, <3>4, StartsWithElements
  <2> QED
    BY <1>2, <2>1, <2>2, <2>3, PathInGlob(f, g) DEF PathInGlob
<1> QED
  BY <1>1, <1>2

\* Two globs that both hold a file overlap: the warning at claim time and the
\* nudge miss no file over which the pre-edit hook would warn.  globsOverlap
\* against pathInGlob.
THEOREM SharedFileOverlaps ==
  ASSUME NEW f \in Files, NEW L \in Lanes, NEW M \in Lanes, NEW g \in L, NEW h \in M,
         PathInGlob(f, g), PathInGlob(f, h)
  PROVE  GlobsOverlap(g, h)
<1>1. f \in Seq(Symbols) /\ g \in Seq(Symbols) /\ h \in Seq(Symbols) /\ Slash \in Symbols
  BY LanesTyped, FilesTyped
<1>2. StartsWith(f, StaticPrefix(g)) /\ StartsWith(f, StaticPrefix(h))
  BY <1>1, InGlobStarts
<1> QED
  BY <1>1, <1>2, PrefixType, PrefixesMeet DEF GlobsOverlap

-----------------------------------------------------------------------------
\* Ending claims keeps their types.
LEMMA EndType ==
  ASSUME TypeOK, NEW S, NEW label \in {"released", "expired"}, End(S, label)
  PROVE  /\ status' \in [Ids -> {"none", "active", "released", "expired"}]
         /\ age' \in [Ids -> 0 .. Expire + 1]
<1>1. 0 \in 0 .. Expire + 1
  BY TimesTyped
<1> QED
  BY <1>1 DEF TypeOK, End

\* So does expiry.
LEMMA ExpireType ==
  ASSUME TypeOK, ExpireStale
  PROVE  /\ status' \in [Ids -> {"none", "active", "released", "expired"}]
         /\ age' \in [Ids -> 0 .. Expire + 1]
BY EndType DEF ExpireStale

\* A renewed lease has an age,
LEMMA RenewedType ==
  ASSUME TypeOK, NEW S
  PROVE  Renewed(S) \in [Ids -> 0 .. Expire + 1]
<1>1. 0 \in 0 .. Expire + 1
  BY TimesTyped
<1> QED
  BY <1>1 DEF TypeOK, Renewed

\* and an older one too.
LEMMA OlderType ==
  ASSUME NEW n \in 0 .. Expire + 1
  PROVE  Older(n, Expire + 1) \in 0 .. Expire + 1
BY TimesTyped DEF Older

\* What the transaction of an INSERT sets: a time no earlier than the call's own was.
LEMMA BeginFacts ==
  ASSUME TypeOK, NEW i \in Ids, Begin(i)
  PROVE  /\ pc[i] = "insert" /\ pc' = [pc EXCEPT ![i] = "commit"]
         /\ \E now \in Nat \ {0} : stamp' = [stamp EXCEPT ![i] = now]
         /\ stamp' \in [Ids -> Nat] /\ \A k \in Ids : stamp[k] <= stamp'[k]
         /\ UNCHANGED <<up, author, lane, stands, answer, status, age, beatAge,
                        watermark, beat, fresh, told>>
<1>1. PICK j \in Ids : \E now \in {stamp[j], stamp[j] + 1} :
        /\ now > 0 /\ \A k \in Ids : stamp[k] <= now
        /\ stamp' = [stamp EXCEPT ![i] = now]
  BY DEF Begin
<1>2. PICK now \in {stamp[j], stamp[j] + 1} :
        /\ now > 0 /\ \A k \in Ids : stamp[k] <= now
        /\ stamp' = [stamp EXCEPT ![i] = now]
  BY <1>1
<1>3. stamp \in [Ids -> Nat]
  BY DEF TypeOK
<1>4. now \in Nat /\ now # 0
  BY <1>2, <1>3
<1>5. stamp' \in [Ids -> Nat] /\ \A k \in Ids : stamp[k] <= stamp'[k]
  BY <1>2, <1>3, <1>4
<1> QED
  BY <1>2, <1>4, <1>5 DEF Begin, passes

\* Every step keeps the types,
LEMMA TypeStep == TypeOK /\ [Next]_vars => TypeOK'
<1> SUFFICES ASSUME TypeOK, [Next]_vars
             PROVE  TypeOK'
  OBVIOUS
<1>z. 0 \in 0 .. Expire + 1 /\ Expire + 1 \in 0 .. Expire + 1
  BY TimesTyped
<1>1. ASSUME NEW i \in Ids, NEW s \in Sessions, NEW L \in Lanes, Claim(i, s, L)
      PROVE  TypeOK'
  BY <1>1, ExpireType DEF TypeOK, Claim, passes
<1>2. ASSUME NEW i \in Ids, Insert(i)
      PROVE  TypeOK'
  <2>1. CASE Twins(i) = {}
    <3>1. /\ status' = [status EXCEPT ![i] = "active"]
          /\ stands' = [stands EXCEPT ![i] = i]
          /\ pc' = [pc EXCEPT ![i] = "overlap"]
          /\ UNCHANGED <<up, author, lane, answer, age, stamp, beatAge, watermark, beat, fresh, told>>
      BY <1>2, <2>1 DEF Insert, passes
    <3>3. \A j \in Ids : pc'[j] \in {"refresh", "overlap", "answered"} => stands'[j] \in Ids
      BY <3>1 DEF TypeOK
    <3>4. \A j \in Ids : pc'[j] # "idle" => author'[j] \in Sessions /\ lane'[j] \in Lanes
      BY <1>2, <3>1 DEF TypeOK, Insert
    <3>5. status' \in [Ids -> {"none", "active", "released", "expired"}]
      BY <3>1 DEF TypeOK
    <3> QED
      BY <3>1, <3>3, <3>4, <3>5 DEF TypeOK
  <2>2. CASE Twins(i) # {}
    BY <1>2, <2>2 DEF TypeOK, Insert, passes
  <2> QED
    BY <2>1, <2>2
<1>3. ASSUME NEW i \in Ids, FindTwin(i)
      PROVE  TypeOK'
  BY <1>3 DEF TypeOK, FindTwin, Twins, Own, passes
<1>4. ASSUME NEW i \in Ids, RefreshTwin(i)
      PROVE  TypeOK'
  BY <1>4, RenewedType DEF TypeOK, RefreshTwin, passes
<1>5. ASSUME NEW i \in Ids, Answer(i)
      PROVE  TypeOK'
  BY <1>5 DEF TypeOK, Answer, Overlapping, passes
<1>6. ASSUME NEW i \in Ids, FailCall(i)
      PROVE  TypeOK'
  BY <1>6 DEF TypeOK, FailCall, passes
<1>7. ASSUME NEW S, Release(S)
      PROVE  TypeOK'
  BY <1>7, EndType DEF TypeOK, Release, passes, calls
<1>8. CASE Sweep
  BY <1>8, ExpireType DEF TypeOK, Sweep, passes, calls
<1>9. ASSUME NEW s \in Sessions, StartBeat(s)
      PROVE  TypeOK'
  BY <1>9, <1>z, ExpireType DEF TypeOK, StartBeat, calls
<1>10. ASSUME NEW s \in Sessions, RenewOwn(s)
       PROVE  TypeOK'
  BY <1>10, RenewedType DEF TypeOK, RenewOwn, calls
<1>11. ASSUME NEW s \in Sessions, ReadUnseen(s)
       PROVE  TypeOK'
  <2>1. /\ UNCHANGED <<up, calls, status, age, stamp, beatAge, told>>
        /\ watermark' \in [Sessions -> Nat] /\ fresh' \in [Sessions -> SUBSET Ids]
        /\ beat' \in [Sessions -> {"idle", "failed", "refresh", "read", "match"}]
    <3>1. /\ Unseen(s) \subseteq Ids /\ Newest(Unseen(s)) \subseteq Ids
          /\ \A i \in Ids : stamp[i] \in Nat
      BY <1>11 DEF TypeOK, Unseen, Newest
    <3>2. /\ watermark \in [Sessions -> Nat] /\ fresh \in [Sessions -> SUBSET Ids]
          /\ beat \in [Sessions -> {"idle", "failed", "refresh", "read", "match"}]
      BY DEF TypeOK
    <3>3. /\ \/ watermark' = watermark
             \/ \E i \in Newest(Unseen(s)) : watermark' = [watermark EXCEPT ![s] = stamp[i]]
          /\ fresh' = fresh \/ fresh' = [fresh EXCEPT ![s] = Unseen(s)]
          /\ \E b \in {"idle", "match"} : beat' = [beat EXCEPT ![s] = b]
          /\ UNCHANGED <<up, calls, status, age, stamp, beatAge, told>>
      BY <1>11 DEF ReadUnseen
    <3> QED
      BY <3>1, <3>2, <3>3
  <2> QED
    BY <2>1 DEF TypeOK, calls
<1>12. ASSUME NEW s \in Sessions, Match(s)
       PROVE  TypeOK'
  <2>1. /\ UNCHANGED <<up, calls, status, age, stamp, beatAge, watermark>>
        /\ told' \in [Sessions -> SUBSET Ids] /\ fresh' \in [Sessions -> SUBSET Ids]
        /\ beat' \in [Sessions -> {"idle", "failed", "refresh", "read", "match"}]
    BY <1>12 DEF TypeOK, Match
  <2> QED
    BY <2>1 DEF TypeOK, calls
<1>13. ASSUME NEW s \in Sessions, FailBeat(s)
       PROVE  TypeOK'
  BY <1>13 DEF TypeOK, FailBeat, calls
<1>14. ASSUME NEW s \in Sessions, Touch(s)
       PROVE  TypeOK'
  BY <1>14, RenewedType DEF TypeOK, Touch, calls, passes
<1>15. ASSUME NEW s \in Sessions, Crash(s)
       PROVE  TypeOK'
  BY <1>15, <1>z DEF TypeOK, Crash
<1>16. CASE Tick
  BY <1>16, OlderType DEF TypeOK, Tick, calls, passes
<1>17. ASSUME NEW i \in Ids, Begin(i)
       PROVE  TypeOK'
  BY <1>17, BeginFacts DEF TypeOK
<1>18. CASE UNCHANGED vars
  BY <1>18 DEF TypeOK, vars
<1> QED
  BY <1>1, <1>2, <1>3, <1>4, <1>5, <1>6, <1>7, <1>8, <1>9, <1>10, <1>11, <1>12,
     <1>13, <1>14, <1>15, <1>16, <1>17, <1>18
     DEF Next, Create, Beat, ReleaseOwn, OperatorRelease

\* and they hold at the start.
LEMMA TypeInit == Init => TypeOK
BY TimesTyped DEF Init, TypeOK

\* The state stays well typed; in particular a call that has found the claim it
\* stands for keeps naming one, though the lookup after a conflict may find none.
THEOREM TypeCorrect == Spec => []TypeOK
BY TypeInit, TypeStep, PTL DEF Spec

-----------------------------------------------------------------------------
\* Of two standing claims in one another's way, one call saw the other's row.
Reported ==
  \A i, j \in Ids :
    /\ Standing(i) /\ Standing(j)
    /\ author[i] # author[j] /\ RootOf[author[i]] = RootOf[author[j]]
    /\ LanesOverlap(lane[i], lane[j])
    => j \in answer[i] \/ i \in answer[j]

\* Two lanes overlap in either order.
LEMMA OverlapSymmetric ==
  ASSUME NEW L, NEW M, LanesOverlap(L, M)
  PROVE  LanesOverlap(M, L)
BY DEF LanesOverlap, GlobsOverlap

\* A step that makes no claim standing and changes no standing one.
LEMMA StandingShrinks ==
  ASSUME Reported,
         \A i \in Ids : Standing(i)' => /\ Standing(i)
                                       /\ author'[i] = author[i] /\ lane'[i] = lane[i]
                                       /\ answer'[i] = answer[i]
  PROVE  Reported'
BY DEF Reported

\* Every step keeps Reported: a claim is inserted before its call looks for others.
LEMMA ReportedStep == TypeOK /\ Reported /\ [Next]_vars => Reported'
<1> SUFFICES ASSUME TypeOK, Reported, [Next]_vars
             PROVE  Reported'
  OBVIOUS
<1>1. ASSUME NEW i \in Ids, NEW s \in Sessions, NEW L \in Lanes, Claim(i, s, L)
      PROVE  Reported'
  BY <1>1, StandingShrinks DEF TypeOK, Claim, ExpireStale, End, Standing, Active
<1>2. ASSUME NEW i \in Ids, Insert(i)
      PROVE  Reported'
  BY <1>2, StandingShrinks DEF TypeOK, Insert, Standing, Active
<1>3. ASSUME NEW i \in Ids, FindTwin(i)
      PROVE  Reported'
  BY <1>3, StandingShrinks DEF TypeOK, FindTwin, Standing, Active
<1>4. ASSUME NEW i \in Ids, RefreshTwin(i)
      PROVE  Reported'
  BY <1>4, StandingShrinks DEF TypeOK, RefreshTwin, Standing, Active
<1>5. ASSUME NEW i \in Ids, Answer(i)
      PROVE  Reported'
  <2>1. /\ answer' = [answer EXCEPT ![i] = Overlapping(i)]
        /\ pc' = [pc EXCEPT ![i] = "answered"]
        /\ UNCHANGED <<author, lane, stands, status>>
    BY <1>5 DEF Answer
  <2>2. \A k \in Ids : k # i => (Standing(k)' <=> Standing(k)) /\ answer'[k] = answer[k]
    BY <2>1 DEF TypeOK, Standing, Active
  <2>3. answer'[i] = Overlapping(i)
    BY <2>1 DEF TypeOK
  <2> SUFFICES ASSUME NEW j \in Ids, NEW k \in Ids, Standing(j)', Standing(k)',
                      author[j] # author[k], RootOf[author[j]] = RootOf[author[k]],
                      LanesOverlap(lane[j], lane[k])
               PROVE  k \in answer'[j] \/ j \in answer'[k]
    BY <2>1 DEF Reported
  <2>4. Active(j) /\ Active(k)
    BY <2>1 DEF Standing, Active
  <2>5. CASE j = i
    BY <2>3, <2>4, <2>5 DEF Overlapping
  <2>6. CASE k = i
    BY <2>3, <2>4, <2>6, OverlapSymmetric DEF Overlapping
  <2>7. CASE j # i /\ k # i
    BY <2>2, <2>7 DEF Reported
  <2> QED
    BY <2>5, <2>6, <2>7
<1>6. ASSUME NEW i \in Ids, FailCall(i)
      PROVE  Reported'
  BY <1>6, StandingShrinks DEF TypeOK, FailCall, Standing, Active
<1>7. ASSUME NEW S, Release(S)
      PROVE  Reported'
  BY <1>7, StandingShrinks DEF TypeOK, Release, End, Standing, Active, calls
<1>8. CASE Sweep
  BY <1>8, StandingShrinks DEF TypeOK, Sweep, ExpireStale, End, Standing, Active, calls
<1>9. ASSUME NEW s \in Sessions, StartBeat(s)
      PROVE  Reported'
  BY <1>9, StandingShrinks DEF TypeOK, StartBeat, ExpireStale, End, Standing, Active, calls
<1>10. ASSUME NEW s \in Sessions, Crash(s)
       PROVE  Reported'
  BY <1>10, StandingShrinks DEF TypeOK, Crash, Standing, Active
<1>11. CASE UNCHANGED <<calls, status>>
  BY <1>11, StandingShrinks DEF Standing, Active, calls
<1>12. ASSUME NEW s \in Sessions, RenewOwn(s) \/ ReadUnseen(s) \/ Match(s) \/ FailBeat(s) \/ Touch(s)
       PROVE  UNCHANGED <<calls, status>>
  BY <1>12 DEF RenewOwn, ReadUnseen, Match, FailBeat, Touch
<1>13. Tick \/ UNCHANGED vars => UNCHANGED <<calls, status>>
  BY DEF Tick, vars, calls
<1>14. ASSUME NEW i \in Ids, Begin(i)
       PROVE  Reported'
  BY <1>14, BeginFacts, StandingShrinks DEF TypeOK, Standing, Active
<1> QED
  BY <1>1, <1>2, <1>3, <1>4, <1>5, <1>6, <1>7, <1>8, <1>9, <1>10, <1>11, <1>12, <1>13, <1>14
     DEF Next, Create, Beat, ReleaseOwn, OperatorRelease

\* No claim stands at the start.
LEMMA ReportedInit == Init => Reported
BY DEF Init, Reported, Standing, Active

\* Reported, with SharedFileOverlaps, is what an author is told.
LEMMA ReportedSuffices ==
  ASSUME TypeOK, Reported
  PROVE  SharedFileReported
<1> SUFFICES ASSUME NEW i \in Ids, NEW j \in Ids, Standing(i), Standing(j),
                    author[i] # author[j], RootOf[author[i]] = RootOf[author[j]],
                    NEW f \in Files, NEW g \in lane[i], NEW h \in lane[j],
                    PathInGlob(f, g), PathInGlob(f, h)
             PROVE  j \in answer[i] \/ i \in answer[j]
  BY DEF SharedFileReported
<1>1. lane[i] \in Lanes /\ lane[j] \in Lanes
  BY DEF TypeOK, Standing
<1>2. LanesOverlap(lane[i], lane[j])
  BY <1>1, SharedFileOverlaps DEF LanesOverlap
<1> QED
  BY <1>2 DEF Reported

\* However the claims of two sessions interleave with each other, with releases,
\* expiry and crashes: if both still stand and share a file, one call was told
\* of the other.  claimCreate.
THEOREM SharedFileAlwaysReported == Spec => []SharedFileReported
<1>1. Spec => []TypeOK
  BY TypeCorrect
<1>2. Spec => []Reported
  BY TypeCorrect, ReportedInit, ReportedStep, PTL DEF Spec
<1> QED
  BY <1>1, <1>2, ReportedSuffices, PTL

-----------------------------------------------------------------------------
\* The session of claim i has a heartbeat under way that has not renewed it, or
\* failed to.
Unrenewed(i) == beat[author[i]] \in {"refresh", "failed"}

\* A lease is at most as old as the last heartbeat begun that did renew it.
Fresh ==
  \A i \in Ids :
    /\ ~Active(i) => age[i] = 0
    /\ Active(i) => /\ pc[i] # "idle"
                    /\ age[i] <= beatAge[author[i]] \/ Unrenewed(i)

\* A step that leaves sessions, and the leases that remain, alone or makes
\* leases younger.
LEMMA FreshKept ==
  ASSUME TypeOK, TypeOK', Fresh, UNCHANGED <<beatAge, beat>>,
         \A i \in Ids : pc[i] # "idle" => pc'[i] # "idle" /\ author'[i] = author[i],
         \A i \in Ids : status'[i] = "active" => status[i] = "active",
         \A i \in Ids : age'[i] \in {0, age[i]} /\ (status'[i] # "active" => age'[i] = 0)
  PROVE  Fresh'
<1> SUFFICES ASSUME NEW i \in Ids
             PROVE  /\ ~Active(i)' => age'[i] = 0
                    /\ Active(i)' => /\ pc'[i] # "idle"
                                     /\ age'[i] <= beatAge'[author'[i]] \/ Unrenewed(i)'
  BY DEF Fresh, Active
<1>1. ASSUME Active(i)'
      PROVE  pc'[i] # "idle" /\ (age'[i] <= beatAge'[author'[i]] \/ Unrenewed(i)')
  <2>1. pc[i] # "idle" /\ (age[i] <= beatAge[author[i]] \/ Unrenewed(i))
    BY <1>1 DEF Fresh, Active
  <2>2. author'[i] = author[i] /\ author[i] \in Sessions
    BY <2>1 DEF TypeOK
  <2>3. age[i] \in Nat /\ beatAge[author[i]] \in Nat
    BY <2>2, TimesTyped DEF TypeOK
  <2> QED
    BY <2>1, <2>2, <2>3 DEF Unrenewed
<1> QED
  BY <1>1 DEF Active

\* Ending claims makes none active and no remaining lease older.
LEMMA EndShrinks ==
  ASSUME TypeOK, Fresh, NEW S \in SUBSET Ids, NEW label \in {"released", "expired"},
         End(S, label)
  PROVE  \A i \in Ids : /\ status'[i] = "active" => status[i] = "active" /\ age'[i] = age[i]
                        /\ age'[i] \in {0, age[i]}
                        /\ status'[i] # "active" => age'[i] = 0
BY DEF TypeOK, Fresh, End, Active

\* Nor does expiry.
LEMMA ExpireShrinks ==
  ASSUME TypeOK, Fresh, ExpireStale
  PROVE  \A i \in Ids : /\ status'[i] = "active" => status[i] = "active" /\ age'[i] = age[i]
                        /\ age'[i] \in {0, age[i]}
                        /\ status'[i] # "active" => age'[i] = 0
BY EndShrinks DEF ExpireStale

\* Every step keeps Fresh: time ages leases and heartbeats alike, and a heartbeat that
\* ends has renewed what its session owns.
LEMMA FreshStep == TypeOK /\ TypeOK' /\ Fresh /\ [Next]_vars => Fresh'
<1> SUFFICES ASSUME TypeOK, TypeOK', Fresh, [Next]_vars
             PROVE  Fresh'
  OBVIOUS
<1>1. ASSUME NEW i \in Ids, NEW s \in Sessions, NEW L \in Lanes, Claim(i, s, L)
      PROVE  Fresh'
  BY <1>1, FreshKept, ExpireShrinks DEF TypeOK, Claim, passes
<1>2. ASSUME NEW i \in Ids, Insert(i)
      PROVE  Fresh'
  <2>1. CASE Twins(i) = {}
    <3>1. /\ status' = [status EXCEPT ![i] = "active"]
          /\ pc' = [pc EXCEPT ![i] = "overlap"]
          /\ pc[i] = "commit"
          /\ UNCHANGED <<author, age, beatAge, beat>>
      BY <1>2, <2>1 DEF Insert, passes
    <3>2. author[i] \in Sessions
      BY <3>1 DEF TypeOK
    <3>3. beatAge[author[i]] \in Nat /\ age[i] \in Nat
      BY <3>2, TimesTyped DEF TypeOK
    <3>4. age[i] <= beatAge[author[i]] \/ Unrenewed(i)
      BY <3>3 DEF Fresh
    <3>5. \A j \in Ids : j # i => (Active(j)' <=> Active(j)) /\ pc'[j] = pc[j]
      BY <3>1 DEF TypeOK, Active
    <3>6. Active(i)' /\ pc'[i] # "idle"
      BY <3>1 DEF TypeOK, Active
    <3> QED
      BY <3>1, <3>4, <3>5, <3>6 DEF Fresh, Unrenewed
  <2>2. CASE Twins(i) # {}
    BY <1>2, <2>2, FreshKept DEF TypeOK, Insert, Fresh, Active, passes
  <2> QED
    BY <2>1, <2>2
<1>3. ASSUME NEW i \in Ids, FindTwin(i) \/ Answer(i) \/ FailCall(i)
      PROVE  Fresh'
  BY <1>3, FreshKept DEF TypeOK, FindTwin, Answer, FailCall, Fresh, Active, passes
<1>4. ASSUME NEW i \in Ids, RefreshTwin(i)
      PROVE  Fresh'
  BY <1>4, FreshKept DEF TypeOK, RefreshTwin, Renewed, Fresh, Active, passes
<1>5. ASSUME NEW S \in SUBSET Ids, Release(S)
      PROVE  Fresh'
  BY <1>5, FreshKept, EndShrinks DEF Release, calls, passes
<1>6. CASE Sweep
  <2>1. ExpireStale /\ UNCHANGED <<author, pc, beatAge, beat>>
    BY <1>6 DEF Sweep, calls, passes
  <2> QED
    BY <2>1, FreshKept, ExpireShrinks
<1>7. ASSUME NEW s \in Sessions, StartBeat(s)
      PROVE  Fresh'
  <2>1. /\ beatAge' = [beatAge EXCEPT ![s] = 0]
        /\ beat' = [beat EXCEPT ![s] = "refresh"]
        /\ UNCHANGED <<author, pc>>
        /\ ExpireStale
    BY <1>7 DEF StartBeat, calls
  <2>2. \A t \in Sessions : IF t = s THEN beat'[t] = "refresh"
                             ELSE beat'[t] = beat[t] /\ beatAge'[t] = beatAge[t]
    BY <2>1 DEF TypeOK
  <2>3. \A i \in Ids : Active(i) => author[i] \in Sessions
    BY DEF TypeOK, Fresh
  <2> QED
    BY <2>1, <2>2, <2>3, ExpireShrinks DEF Fresh, Unrenewed, Active
<1>8. ASSUME NEW s \in Sessions, RenewOwn(s)
      PROVE  Fresh'
  <2>1. /\ beat' = [beat EXCEPT ![s] = "read"]
        /\ age' = Renewed(Own(s))
        /\ UNCHANGED <<author, pc, status, beatAge>>
    BY <1>8 DEF RenewOwn, calls
  <2>2. \A t \in Sessions : t # s => beat'[t] = beat[t]
    BY <2>1 DEF TypeOK
  <2>3. \A i \in Ids : Active(i) => author[i] \in Sessions /\ beatAge[author[i]] \in Nat
    BY TimesTyped DEF TypeOK, Fresh
  <2> QED
    BY <2>1, <2>2, <2>3 DEF Fresh, Unrenewed, Renewed, Own, Active
<1>9. ASSUME NEW s \in Sessions, ReadUnseen(s) \/ Match(s) \/ FailBeat(s)
      PROVE  Fresh'
  <2>1. /\ UNCHANGED <<author, pc, status, age, beatAge>>
        /\ \/ beat[s] = "refresh" /\ beat' = [beat EXCEPT ![s] = "failed"]
           \/ beat[s] \notin {"refresh", "failed"} /\ \A t \in Sessions : t # s => beat'[t] = beat[t]
    BY <1>9 DEF TypeOK, ReadUnseen, Match, FailBeat, calls
  <2>2. \A t \in Sessions : beat[t] \in {"refresh", "failed"} => beat'[t] \in {"refresh", "failed"}
    BY <2>1 DEF TypeOK
  <2>3. \A i \in Ids : Active(i) => author[i] \in Sessions
    BY DEF TypeOK, Fresh
  <2> QED
    BY <2>1, <2>2, <2>3 DEF Fresh, Unrenewed, Active
<1>10. ASSUME NEW s \in Sessions, Touch(s)
       PROVE  Fresh'
  BY <1>10, FreshKept DEF Touch, Renewed, Fresh, Active, calls, passes
<1>11. ASSUME NEW s \in Sessions, Crash(s)
       PROVE  Fresh'
  <2>1. /\ beatAge' = [beatAge EXCEPT ![s] = Expire + 1]
        /\ beat' = [beat EXCEPT ![s] = "idle"]
        /\ UNCHANGED <<author, status, age>>
        /\ \A i \in Ids : pc[i] # "idle" => pc'[i] # "idle"
    BY <1>11 DEF Crash
  <2>2. \A t \in Sessions : IF t = s THEN beatAge'[t] = Expire + 1
                             ELSE beat'[t] = beat[t] /\ beatAge'[t] = beatAge[t]
    BY <2>1 DEF TypeOK
  <2>3. \A i \in Ids : age[i] <= Expire + 1
    BY TimesTyped DEF TypeOK
  <2>4. \A i \in Ids : Active(i) => author[i] \in Sessions
    BY DEF TypeOK, Fresh
  <2> QED
    BY <2>1, <2>2, <2>3, <2>4 DEF Fresh, Unrenewed, Active
<1>12. CASE Tick
  <2>1. /\ age' = [i \in Ids |-> IF Active(i) THEN Older(age[i], Expire + 1) ELSE age[i]]
        /\ beatAge' = [s \in Sessions |-> Older(beatAge[s], Expire + 1)]
        /\ UNCHANGED <<author, pc, status, beat>>
    BY <1>12 DEF Tick, calls, passes
  <2>2. \A m, n \in 0 .. Expire + 1 : m <= n => Older(m, Expire + 1) <= Older(n, Expire + 1)
    BY TimesTyped DEF Older
  <2>3. \A i \in Ids : Active(i) => /\ author[i] \in Sessions
                                    /\ beatAge[author[i]] \in 0 .. Expire + 1
                                    /\ age[i] \in 0 .. Expire + 1
    BY DEF TypeOK, Fresh
  <2> QED
    BY <2>1, <2>2, <2>3 DEF Fresh, Unrenewed, Active
<1>13. ASSUME NEW i \in Ids, Begin(i)
       PROVE  Fresh'
  BY <1>13, BeginFacts, FreshKept DEF TypeOK, Fresh, Active
<1>14. CASE UNCHANGED vars
  BY <1>14 DEF vars, calls, passes, Fresh, Unrenewed, Active
<1> QED
  BY <1>1, <1>2, <1>3, <1>4, <1>5, <1>6, <1>7, <1>8, <1>9, <1>10, <1>11, <1>12, <1>13, <1>14
     DEF Next, Create, Beat, ReleaseOwn, OperatorRelease, Own

\* There is no lease at the start.
LEMMA FreshInit == Init => Fresh
BY DEF Init, Fresh, Active

\* Only ExpireStale writes "expired", and it looks at the age of the lease.
LEMMA ExpiredWasOld ==
  ASSUME TypeOK, [Next]_vars, NEW i \in Ids, Active(i), status'[i] = "expired"
  PROVE  age[i] > Expire
<1>1. ASSUME ExpireStale
      PROVE  age[i] > Expire
  BY <1>1 DEF ExpireStale, End, Active
<1>2. ASSUME NEW S, Release(S)
      PROVE  FALSE
  BY <1>2 DEF Release, End, Active
<1>3. ASSUME NEW j \in Ids, Create(j) \/ FailCall(j)
      PROVE  FALSE
  BY <1>3 DEF TypeOK, Create, Begin, Insert, FindTwin, RefreshTwin, Answer, FailCall, Active
<1>4. CASE UNCHANGED status
  BY <1>4 DEF Active
<1> QED
  BY <1>1, <1>2, <1>3, <1>4
     DEF Next, vars, Claim, ReleaseOwn, OperatorRelease, Sweep, Beat, StartBeat, RenewOwn,
         ReadUnseen, Match, FailBeat, Touch, Crash, Tick

\* Therefore a lease expires only when its session's heartbeats stopped or failed.
LEMMA HeldStep ==
  TypeOK /\ Fresh /\ [Next]_vars =>
    [\A i \in Ids : Active(i) /\ status'[i] = "expired" =>
       beatAge[author[i]] > Expire \/ beat[author[i]] \in {"refresh", "failed"}]_vars
<1> SUFFICES ASSUME TypeOK, Fresh, [Next]_vars,
                    NEW i \in Ids, Active(i), status'[i] = "expired"
             PROVE  beatAge[author[i]] > Expire \/ beat[author[i]] \in {"refresh", "failed"}
  OBVIOUS
<1>1. age[i] > Expire
  BY ExpiredWasOld
<1>2. author[i] \in Sessions
  BY DEF TypeOK, Fresh
<1>3. age[i] \in Nat /\ beatAge[author[i]] \in Nat /\ Expire \in Nat
  BY <1>2, TimesTyped DEF TypeOK
<1> QED
  BY <1>1, <1>3 DEF Fresh, Unrenewed

\* A session that goes on beating loses no lease, whatever the other sessions,
\* the operator and the pre-edit hooks do.  claimsBeatAndNudge, expireStale.
THEOREM WorkingLeaseAlwaysHeld == Spec => WorkingLeaseHeld
<1>1. Spec => []TypeOK
  BY TypeCorrect
<1>2. Spec => []Fresh
  BY TypeCorrect, FreshInit, FreshStep, PTL DEF Spec
<1> QED
  BY <1>1, <1>2, HeldStep, PTL DEF Spec, WorkingLeaseHeld

-----------------------------------------------------------------------------
\* What a session has read or named was stamped no later than its watermark, and
\* a call that has not inserted its claim has no stamp, so that no claim it named
\* can be stamped anew.
Noted ==
  /\ \A i \in Ids : pc[i] \in {"idle", "insert"} => stamp[i] = 0
  /\ \A s \in Sessions : \A i \in fresh[s] \cup told[s] :
       0 < stamp[i] /\ stamp[i] <= watermark[s]
  /\ NudgedOnce

\* A step that leaves stamps and watermarks alone, and adds to no session's claims.
LEMMA NotedKept ==
  ASSUME TypeOK, Noted, UNCHANGED <<stamp, watermark>>,
         \A i \in Ids : pc'[i] \in {"idle", "insert"} => pc[i] \in {"idle", "insert"},
         \A s \in Sessions : fresh'[s] \subseteq fresh[s] /\ told'[s] \subseteq told[s] \cup fresh[s],
         \A s \in Sessions : told'[s] = told[s] \/ fresh'[s] = {}
  PROVE  Noted'
<1>1. /\ \A i \in Ids : pc'[i] \in {"idle", "insert"} => stamp'[i] = 0
      /\ \A s \in Sessions : \A i \in fresh'[s] \cup told'[s] :
           0 < stamp'[i] /\ stamp'[i] <= watermark'[s]
  BY DEF Noted
<1>2. \A s \in Sessions : fresh'[s] \cap told'[s] = {}
  BY DEF Noted, NudgedOnce
<1> QED
  BY <1>1, <1>2 DEF Noted, NudgedOnce

\* Only the start of an INSERT stamps, and only a pass that has read moves the watermark.
LEMMA NotedStep == TypeOK /\ Noted /\ [Next]_vars => Noted'
<1> SUFFICES ASSUME TypeOK, Noted, [Next]_vars
             PROVE  Noted'
  OBVIOUS
<1>1. ASSUME NEW i \in Ids, NEW s \in Sessions, NEW L \in Lanes, Claim(i, s, L)
      PROVE  Noted'
  BY <1>1, NotedKept DEF TypeOK, Claim, passes
<1>2. ASSUME NEW i \in Ids, Begin(i)
      PROVE  Noted'
  <2>1. /\ pc[i] = "insert" /\ pc' = [pc EXCEPT ![i] = "commit"]
        /\ UNCHANGED <<watermark, fresh, told>>
    BY <1>2, BeginFacts
  <2>2. PICK now \in Nat : stamp' = [stamp EXCEPT ![i] = now]
    BY <1>2, BeginFacts
  <2>3. \A s \in Sessions : i \notin fresh[s] \cup told[s]
    BY <2>1 DEF Noted
  <2>4. /\ stamp \in [Ids -> Nat]
        /\ \A k \in Ids : pc'[k] \in {"idle", "insert"} => k # i /\ pc[k] \in {"idle", "insert"}
        /\ \A s \in Sessions : fresh[s] \cup told[s] \subseteq Ids
    BY <2>1 DEF TypeOK
  <2>5. \A j \in Ids : pc'[j] \in {"idle", "insert"} => stamp'[j] = 0
    BY <2>2, <2>4 DEF Noted
  <2>6. \A s \in Sessions : \A j \in fresh'[s] \cup told'[s] :
          0 < stamp'[j] /\ stamp'[j] <= watermark'[s]
    BY <2>1, <2>2, <2>3, <2>4 DEF Noted
  <2> QED
    BY <2>1, <2>5, <2>6 DEF Noted, NudgedOnce
<1>3. ASSUME NEW i \in Ids, FindTwin(i) \/ RefreshTwin(i) \/ Answer(i) \/ FailCall(i)
      PROVE  Noted'
  BY <1>3, NotedKept DEF TypeOK, FindTwin, RefreshTwin, Answer, FailCall, passes
<1>4. ASSUME NEW s \in Sessions, ReadUnseen(s)
      PROVE  Noted'
  <2>1. CASE UNCHANGED <<watermark, fresh>>
    BY <1>4, <2>1, NotedKept DEF TypeOK, ReadUnseen, calls
  <2>2. ASSUME NEW m \in Newest(Unseen(s)), watermark' = [watermark EXCEPT ![s] = stamp[m]],
               fresh' = [fresh EXCEPT ![s] = Unseen(s)]
        PROVE  Noted'
    <3>1. /\ stamp \in [Ids -> Nat] /\ watermark \in [Sessions -> Nat]
          /\ fresh \in [Sessions -> SUBSET Ids] /\ told \in [Sessions -> SUBSET Ids]
      BY DEF TypeOK
    <3>2. UNCHANGED <<pc, stamp, told>>
      BY <1>4 DEF ReadUnseen, calls
    <3>3. \A i \in Unseen(s) : i \in Ids /\ watermark[s] < stamp[i] /\ stamp[i] <= stamp[m]
      BY <3>1 DEF Newest, Unseen
    <3>4. m \in Ids /\ watermark[s] < stamp[m]
      BY <3>3 DEF Newest
    <3>5. \A i \in told[s] : i \in Ids /\ 0 < stamp[i] /\ stamp[i] <= watermark[s]
      BY <3>1 DEF Noted
    <3>6. fresh'[s] = Unseen(s) /\ watermark'[s] = stamp[m]
      BY <2>2, <3>1
    <3>7. \A i \in fresh'[s] \cup told'[s] : 0 < stamp'[i] /\ stamp'[i] <= watermark'[s]
      BY <3>1, <3>2, <3>3, <3>4, <3>5, <3>6
    <3>8. fresh'[s] \cap told'[s] = {}
      BY <3>1, <3>2, <3>3, <3>5, <3>6
    <3>9. \A t \in Sessions : t # s => fresh'[t] = fresh[t] /\ watermark'[t] = watermark[t]
      BY <2>2, <3>1
    <3>10. \A t \in Sessions : \A i \in fresh'[t] \cup told'[t] :
             0 < stamp'[i] /\ stamp'[i] <= watermark'[t]
      BY <3>2, <3>7, <3>9 DEF Noted
    <3>11. \A t \in Sessions : fresh'[t] \cap told'[t] = {}
      BY <3>2, <3>8, <3>9 DEF Noted, NudgedOnce
    <3> QED
      BY <3>2, <3>10, <3>11 DEF Noted, NudgedOnce
  <2> QED
    BY <1>4, <2>1, <2>2 DEF ReadUnseen
<1>5. ASSUME NEW s \in Sessions, Match(s)
      PROVE  Noted'
  <2>1. /\ UNCHANGED <<pc, stamp, watermark>>
        /\ fresh' = [fresh EXCEPT ![s] = {}]
        /\ told' = told \/ \E S \in (SUBSET fresh[s]) : told' = [told EXCEPT ![s] = @ \cup S]
    BY <1>5 DEF Match, calls
  <2> QED
    BY <2>1, NotedKept DEF TypeOK
<1>6. ASSUME NEW s \in Sessions, FailBeat(s) \/ Crash(s)
      PROVE  Noted'
  BY <1>6, NotedKept DEF TypeOK, FailBeat, Crash, calls
<1>7. CASE UNCHANGED <<calls, stamp, watermark, fresh, told>>
  BY <1>7, NotedKept DEF calls
<1>8. ASSUME NEW s \in Sessions, StartBeat(s) \/ RenewOwn(s) \/ Touch(s)
      PROVE  UNCHANGED <<calls, stamp, watermark, fresh, told>>
  BY <1>8 DEF StartBeat, RenewOwn, Touch, calls, passes
<1>9. ASSUME NEW S, Release(S)
      PROVE  UNCHANGED <<calls, stamp, watermark, fresh, told>>
  BY <1>9 DEF Release, calls, passes
<1>10. Sweep \/ Tick \/ UNCHANGED vars => UNCHANGED <<calls, stamp, watermark, fresh, told>>
  BY DEF Sweep, Tick, vars, calls, passes
<1>11. ASSUME NEW i \in Ids, Insert(i)
       PROVE  Noted'
  BY <1>11, NotedKept DEF TypeOK, Insert, passes
<1> QED
  BY <1>1, <1>2, <1>3, <1>4, <1>5, <1>6, <1>7, <1>8, <1>9, <1>10, <1>11
     DEF Next, Create, Beat, ReleaseOwn, OperatorRelease

\* A claim is named in at most one nudge of a session, however its passes fail,
\* and claims come and go between them.  The watermark of claimsBeatAndNudge.
THEOREM ClaimsAreNudgedOnce == Spec => []NudgedOnce
<1>1. Init => Noted
  BY DEF Init, Noted, NudgedOnce
<1>2. Spec => []Noted
  BY <1>1, TypeCorrect, NotedStep, PTL DEF Spec
<1>3. Noted => NudgedOnce
  BY DEF Noted
<1> QED
  BY <1>2, <1>3, PTL
-----------------------------------------------------------------------------
\* A call that runs, and a pass, are those of a live process; a call that renews the
\* row in its way renews one of its own session.
Living ==
  /\ \A i \in Ids : pc[i] \in {"insert", "commit", "dupe", "refresh", "overlap"} => author[i] \in up
  /\ \A i \in Ids : pc[i] = "refresh" => /\ author[stands[i]] = author[i]
                                         /\ pc[stands[i]] # "idle"
  /\ \A s \in Sessions : beat[s] \in {"refresh", "read", "match"} => s \in up

\* A step that brings no process back and moves no call or pass on.
LEMMA LivingKept ==
  ASSUME TypeOK, Living, up' = up,
         \A i \in Ids : pc[i] # "idle" => pc'[i] # "idle" /\ author'[i] = author[i],
         \A i \in Ids : pc'[i] \in {"insert", "commit", "dupe", "refresh", "overlap"} => author'[i] \in up,
         \A i \in Ids : pc'[i] = "refresh" => pc[i] = "refresh" /\ stands'[i] = stands[i],
         \A s \in Sessions : beat'[s] \in {"refresh", "read", "match"} => s \in up
  PROVE  Living'
<1>1. ASSUME NEW i \in Ids, pc'[i] = "refresh"
      PROVE  author'[stands'[i]] = author'[i] /\ pc'[stands'[i]] # "idle"
  <2>1. pc[i] = "refresh" /\ stands'[i] = stands[i] /\ stands[i] \in Ids
    BY <1>1 DEF TypeOK
  <2> QED
    BY <2>1 DEF Living
<1> QED
  BY <1>1 DEF Living

\* Every step keeps Living: a crash ends the calls and passes of its process.
LEMMA LivingStep == TypeOK /\ Fresh /\ Living /\ [Next]_vars => Living'
<1> SUFFICES ASSUME TypeOK, Fresh, Living, [Next]_vars
             PROVE  Living'
  OBVIOUS
<1>1. ASSUME NEW i \in Ids, NEW s \in Sessions, NEW L \in Lanes, Claim(i, s, L)
      PROVE  Living'
  BY <1>1, LivingKept DEF TypeOK, Living, Claim, passes
<1>2. ASSUME NEW i \in Ids, Begin(i) \/ Insert(i) \/ RefreshTwin(i) \/ Answer(i) \/ FailCall(i)
      PROVE  Living'
  BY <1>2, LivingKept DEF TypeOK, Living, Begin, Insert, RefreshTwin, Answer, FailCall, passes
<1>3. ASSUME NEW i \in Ids, FindTwin(i)
      PROVE  Living'
  <2>1. CASE Twins(i) = {} /\ pc' = [pc EXCEPT ![i] = "unresolved"] /\ UNCHANGED stands
    BY <1>3, <2>1, LivingKept DEF TypeOK, Living, FindTwin, passes
  <2>2. ASSUME NEW j \in Twins(i), stands' = [stands EXCEPT ![i] = j],
               pc' = [pc EXCEPT ![i] = "refresh"]
        PROVE  Living'
    <3>1. j \in Ids /\ author[j] = author[i] /\ pc[j] # "idle"
      BY DEF Twins, Own, Fresh
    <3>2. /\ pc[i] = "dupe" /\ UNCHANGED <<up, author, beat>>
          /\ pc'[i] = "refresh" /\ stands'[i] = j
          /\ \A k \in Ids \ {i} : pc'[k] = pc[k] /\ stands'[k] = stands[k]
      BY <1>3, <2>2 DEF FindTwin, passes, TypeOK
    <3>3. \A k \in Ids : pc[k] # "idle" => pc'[k] # "idle"
      BY <3>2
    <3>4. \A k \in Ids : pc'[k] = "refresh" => /\ author'[stands'[k]] = author'[k]
                                              /\ pc'[stands'[k]] # "idle"
      BY <3>1, <3>2, <3>3 DEF Living, TypeOK
    <3> QED
      BY <3>2, <3>4 DEF Living
  <2> QED
    BY <1>3, <2>1, <2>2 DEF FindTwin
<1>4. ASSUME NEW s \in Sessions, StartBeat(s) \/ RenewOwn(s) \/ ReadUnseen(s) \/ Match(s) \/ FailBeat(s)
      PROVE  Living'
  <2>1. UNCHANGED <<up, calls>>
    BY <1>4 DEF StartBeat, RenewOwn, ReadUnseen, Match, FailBeat
  <2>2. \A t \in Sessions : beat'[t] \in {"refresh", "read", "match"} => t \in up
    BY <1>4 DEF StartBeat, RenewOwn, ReadUnseen, Match, FailBeat, TypeOK, Living
  <2> QED
    BY <2>1, <2>2, LivingKept DEF Living, calls
<1>5. ASSUME NEW s \in Sessions, Crash(s)
      PROVE  Living'
  <2>1. /\ up' = up \ {s} /\ UNCHANGED <<author, stands>>
        /\ beat' = [beat EXCEPT ![s] = "idle"]
        /\ \A i \in Ids : /\ pc'[i] \in {pc[i], "failed"}
                          /\ author[i] = s => pc'[i] \notin {"insert", "commit", "dupe", "refresh", "overlap"}
    BY <1>5 DEF Crash
  <2> QED
    BY <2>1 DEF Living, TypeOK
<1>6. CASE UNCHANGED <<up, calls, beat>>
  BY <1>6, LivingKept DEF Living, calls
<1>7. ASSUME NEW S, Release(S)
      PROVE  UNCHANGED <<up, calls, beat>>
  BY <1>7 DEF Release, passes
<1>8. ASSUME NEW s \in Sessions, Touch(s)
      PROVE  UNCHANGED <<up, calls, beat>>
  BY <1>8 DEF Touch, passes
<1>9. Sweep \/ Tick \/ UNCHANGED vars => UNCHANGED <<up, calls, beat>>
  BY DEF Sweep, Tick, vars, calls, passes
<1> QED
  BY <1>1, <1>2, <1>3, <1>4, <1>5, <1>6, <1>7, <1>8, <1>9
     DEF Next, Create, Beat, ReleaseOwn, OperatorRelease

PidsDiffer == \A s, t \in Sessions : PidOf[s] = PidOf[t] => s = t

\* What renews a lease: the call that found it in its way, a pass of its session, an
\* edit hook that takes its session's process for its own.
LEMMA RenewsOwn ==
  ASSUME PidsDiffer, TypeOK, Fresh, Living, [Next]_vars,
         NEW i \in Ids, age'[i] < age[i], status'[i] = "active"
  PROVE  author[i] \in up
<1>1. age[i] \in Nat /\ ~(age[i] < age[i])
  BY TimesTyped DEF TypeOK
<1>2. ASSUME NEW S, NEW label \in {"released", "expired"}, End(S, label)
      PROVE  FALSE
  BY <1>1, <1>2 DEF End
<1>3. age' # age /\ ~ExpireStale
  BY <1>1, <1>2 DEF ExpireStale
<1>4. ASSUME NEW j \in Ids, RefreshTwin(j)
      PROVE  author[i] \in up
  <2>1. i = stands[j]
    BY <1>1, <1>4 DEF RefreshTwin, Renewed
  <2> QED
    BY <1>4, <2>1 DEF RefreshTwin, Living
<1>5. ASSUME NEW s \in Sessions, RenewOwn(s)
      PROVE  author[i] \in up
  <2>1. i \in Own(s)
    BY <1>1, <1>5 DEF RenewOwn, Renewed
  <2> QED
    BY <1>5, <2>1 DEF Own, RenewOwn, Living
<1>6. ASSUME NEW s \in Sessions, Touch(s)
      PROVE  author[i] \in up
  <2>1. Active(i) /\ PidOf[author[i]] = PidOf[s] /\ s \in up
    BY <1>1, <1>6 DEF Touch, Renewed
  <2>2. author[i] \in Sessions
    BY <2>1 DEF Fresh, TypeOK
  <2> QED
    BY <2>1, <2>2 DEF PidsDiffer
<1>7. ~Tick
  <2>1. \A n \in Nat : ~(Older(n, Expire + 1) < n)
    BY DEF Older
  <2> QED
    BY <1>1, <2>1 DEF Tick
<1>8. ASSUME NEW S PROVE ~Release(S)
  BY <1>2 DEF Release
<1>9. \A j \in Ids : ~(Begin(j) \/ Insert(j) \/ FindTwin(j) \/ Answer(j) \/ FailCall(j))
  BY <1>3 DEF Begin, Insert, FindTwin, Answer, FailCall
<1>10. \A s \in Sessions : ~(StartBeat(s) \/ ReadUnseen(s) \/ Match(s) \/ FailBeat(s) \/ Crash(s))
  BY <1>3 DEF StartBeat, ReadUnseen, Match, FailBeat, Crash
<1>11. /\ ~Sweep /\ ~UNCHANGED vars
       /\ \A j \in Ids, s \in Sessions, L \in Lanes : ~Claim(j, s, L)
  BY <1>3 DEF Sweep, Claim, vars
<1> QED
  BY <1>4, <1>5, <1>6, <1>7, <1>8, <1>9, <1>10, <1>11
     DEF Next, Create, Beat, ReleaseOwn, OperatorRelease

\* As long as no two sessions have the same process id, a lease is renewed by the
\* session that holds it and by no other, nor after its death: that ids repeat is
\* all that is wrong with touchOwnClaims.
THEOREM OwnersRenewIfPidsDiffer ==
  ASSUME PidsDiffer
  PROVE  Spec => RenewedByOwner
<1>1. Init => Living
  BY DEF Init, Living
<1>2. Spec => []TypeOK /\ []Fresh
  BY TypeCorrect, FreshInit, FreshStep, PTL DEF Spec
<1>3. Spec => []Living
  BY <1>1, <1>2, LivingStep, PTL DEF Spec
<1>4. TypeOK /\ Fresh /\ Living /\ [Next]_vars =>
        [\A i \in Ids : age'[i] < age[i] /\ status'[i] = "active" => author[i] \in up]_vars
  BY PidsDiffer, RenewsOwn
<1> QED
  BY <1>2, <1>3, <1>4, PTL DEF Spec, RenewedByOwner

-----------------------------------------------------------------------------
\* What a nudge of session s names: the rows read that meet a claim of its own.
Named(s) == {j \in fresh[s] : \E i \in Own(s) : LanesOverlap(lane[i], lane[j])}

\* Every pass of a live session that has read new claims gets its nudge through.
NudgesArrive ==
  \A s \in Sessions : beat[s] = "match" /\ beat'[s] # "match" /\ s \in up' =>
    Named(s) \subseteq told'[s]

\* Every claim becomes visible with a time that no other session's watermark has
\* reached.
ClaimsAppearInOrder ==
  \A i \in Ids : ~Active(i) /\ Active(i)' =>
    \A s \in Sessions : s # author[i] => stamp[i] > watermark[s]

\* Claim j is in the way of the standing claim i of a live session.
InTheWay(i, j) ==
  /\ Standing(i) /\ Active(j) /\ author[i] \in up /\ author[i] # author[j]
  /\ RootOf[author[i]] = RootOf[author[j]] /\ LanesOverlap(lane[i], lane[j])

\* What is in the way of a standing claim was in its answer, is yet to be read or
\* named, or has been named.
Caught ==
  /\ \A i, j \in Ids : InTheWay(i, j) =>
       \/ j \in answer[i]
       \/ stamp[j] > watermark[author[i]]
       \/ j \in fresh[author[i]] \cup told[author[i]]
  /\ \A s \in Sessions : beat[s] # "match" => fresh[s] = {}

\* A step that sets no time back, adds nothing in the way and forgets nothing unnamed.
LEMMA CaughtKept ==
  ASSUME TypeOK, Fresh, Caught, UNCHANGED watermark, up' \subseteq up,
         stamp' \in [Ids -> Nat], \A i \in Ids : stamp[i] <= stamp'[i],
         \A i \in Ids : pc[i] # "idle" => author'[i] = author[i] /\ lane'[i] = lane[i],
         \A i \in Ids : Standing(i)' => Standing(i) /\ answer'[i] = answer[i],
         \A i \in Ids : status'[i] = "active" => status[i] = "active",
         \A s \in Sessions : told[s] \subseteq told'[s],
         \A s \in up' : \/ fresh'[s] = fresh[s]
                        \/ Named(s) \subseteq told'[s],
         \A s \in Sessions : beat'[s] # "match" => fresh'[s] = {}
  PROVE  Caught'
<1>2. ASSUME NEW i \in Ids, NEW j \in Ids, InTheWay(i, j)'
      PROVE  \/ j \in answer'[i]
             \/ stamp'[j] > watermark'[author'[i]]
             \/ j \in fresh'[author'[i]] \cup told'[author'[i]]
  <2>1. /\ Standing(i) /\ Active(j) /\ answer'[i] = answer[i]
        /\ author'[i] \in up' /\ author'[i] # author'[j]
        /\ RootOf[author'[i]] = RootOf[author'[j]] /\ LanesOverlap(lane'[i], lane'[j])
    BY <1>2 DEF InTheWay, Active
  <2>2. pc[i] # "idle" /\ pc[j] # "idle" /\ Active(i)
    BY <2>1 DEF Fresh, Standing
  <2>3. /\ author'[i] = author[i] /\ lane'[i] = lane[i]
        /\ author'[j] = author[j] /\ lane'[j] = lane[j] /\ author[i] \in Sessions
    BY <2>2 DEF TypeOK
  <2>4. InTheWay(i, j)
    BY <2>1, <2>3 DEF InTheWay
  <2>5. CASE j \in fresh[author[i]] /\ Named(author[i]) \subseteq told'[author[i]]
    <3>1. j \in Named(author[i])
      BY <2>1, <2>2, <2>3, <2>5 DEF Named, Own
    <3> QED
      BY <2>3, <2>5, <3>1
  <2>6. stamp[j] > watermark[author[i]] => stamp'[j] > watermark'[author'[i]]
    BY <2>3 DEF TypeOK
  <2> QED
    BY <2>1, <2>3, <2>4, <2>5, <2>6 DEF Caught
<1> QED
  BY <1>2 DEF Caught

\* What ends claims makes none active.
LEMMA EndsOnly ==
  ASSUME NEW S, NEW label \in {"released", "expired"}, End(S, label), TypeOK
  PROVE  \A i \in Ids : status'[i] = "active" => status[i] = "active"
BY DEF End, TypeOK

\* Expiry does.
LEMMA ExpiresOnly ==
  ASSUME ExpireStale, TypeOK
  PROVE  \A i \in Ids : status'[i] = "active" => status[i] = "active"
BY EndsOnly DEF ExpireStale

\* A time is no smaller than itself.
LEMMA StampsStay ==
  ASSUME TypeOK, stamp' = stamp
  PROVE  stamp' \in [Ids -> Nat] /\ \A i \in Ids : stamp[i] <= stamp'[i]
BY DEF TypeOK

\* A claim that becomes visible is yet to be read by the others.
LEMMA InsertCaught ==
  ASSUME TypeOK, Fresh, Caught, ClaimsAppearInOrder, NEW i \in Ids, Insert(i)
  PROVE  Caught'
<1>1. CASE Twins(i) # {}
  <2>1. /\ UNCHANGED <<up, author, lane, answer, status, stamp, stands, watermark, beat, fresh, told>>
        /\ pc' = [pc EXCEPT ![i] = "dupe"]
    BY <1>1 DEF Insert, passes
  <2>2. \A k \in Ids : Standing(k)' => Standing(k)
    BY <2>1 DEF Standing, Active, TypeOK
  <2> QED
    BY <2>1, <2>2, StampsStay, CaughtKept DEF Caught
<1>2. CASE Twins(i) = {}
  <2>1. /\ UNCHANGED <<up, author, lane, answer, stamp, watermark, beat, fresh, told>>
        /\ pc' = [pc EXCEPT ![i] = "overlap"] /\ status' = [status EXCEPT ![i] = "active"]
        /\ stands' = [stands EXCEPT ![i] = i] /\ pc[i] = "commit"
    BY <1>2 DEF Insert, passes
  <2>2. ASSUME NEW k \in Ids, NEW j \in Ids, InTheWay(k, j)'
        PROVE  \/ j \in answer'[k]
               \/ stamp'[j] > watermark'[author'[k]]
               \/ j \in fresh'[author'[k]] \cup told'[author'[k]]
    <3>1. /\ k # i /\ Standing(k) /\ author[k] \in Sessions /\ author[k] # author[j]
      BY <2>1, <2>2 DEF InTheWay, Standing, Active, TypeOK
    <3>2. CASE ~Active(j)
      <4>1. Active(j)'
        BY <2>2 DEF InTheWay
      <4> QED
        BY <2>1, <3>1, <3>2, <4>1 DEF ClaimsAppearInOrder
    <3>3. CASE Active(j)
      <4>1. InTheWay(k, j)
        BY <2>1, <2>2, <3>1, <3>3 DEF InTheWay
      <4> QED
        BY <2>1, <4>1 DEF Caught
    <3> QED
      BY <3>2, <3>3
  <2> QED
    BY <2>1, <2>2 DEF Caught
<1> QED
  BY <1>1, <1>2

\* A pass that reads the new claims has all of them, up to its new watermark.
LEMMA ReadCaught ==
  ASSUME TypeOK, Fresh, Caught, NEW s \in Sessions, ReadUnseen(s)
  PROVE  Caught'
<1>1. CASE UNCHANGED <<watermark, fresh>>
  <2>1. /\ UNCHANGED <<up, calls, status, stamp, watermark, fresh, told>>
        /\ beat[s] # "match" /\ \A t \in Sessions \ {s} : beat'[t] = beat[t]
    BY <1>1 DEF ReadUnseen, TypeOK
  <2>2. \A t \in Sessions : beat'[t] # "match" => fresh'[t] = {}
    BY <2>1 DEF Caught
  <2>3. \A k \in Ids : Standing(k)' => Standing(k)
    BY <2>1 DEF Standing, Active, calls
  <2> QED
    BY <2>1, <2>2, <2>3, StampsStay, CaughtKept DEF calls
<1>2. ASSUME NEW m \in Newest(Unseen(s)), watermark' = [watermark EXCEPT ![s] = stamp[m]],
             fresh' = [fresh EXCEPT ![s] = Unseen(s)], beat' = [beat EXCEPT ![s] = "match"]
      PROVE  Caught'
  <2>1. UNCHANGED <<up, author, lane, pc, stands, answer, status, stamp, told>>
    BY <1>2 DEF ReadUnseen, calls
  <2>2. /\ m \in Ids /\ \A k \in Unseen(s) : stamp[k] <= stamp[m]
        /\ watermark'[s] = stamp[m] /\ fresh'[s] = Unseen(s) /\ beat'[s] = "match"
        /\ \A t \in Sessions \ {s} : /\ watermark'[t] = watermark[t] /\ fresh'[t] = fresh[t]
                                     /\ beat'[t] = beat[t]
    BY <1>2 DEF Newest, Unseen, TypeOK
  <2>3. ASSUME NEW i \in Ids, NEW j \in Ids, InTheWay(i, j)'
        PROVE  \/ j \in answer'[i]
               \/ stamp'[j] > watermark'[author'[i]]
               \/ j \in fresh'[author'[i]] \cup told'[author'[i]]
    <3>1. InTheWay(i, j) /\ author[i] \in Sessions
      BY <2>1, <2>3 DEF InTheWay, Standing, Active, TypeOK
    <3>2. CASE author[i] # s
      BY <2>1, <2>2, <3>1, <3>2 DEF Caught
    <3>3. CASE author[i] = s
      <4>1. /\ stamp[j] \in Nat /\ stamp[m] \in Nat /\ watermark[s] \in Nat
            /\ Active(j) /\ author[j] # s
        BY <2>2, <3>1, <3>3 DEF TypeOK, InTheWay
      <4>2. fresh[s] = {}
        BY <1>2 DEF ReadUnseen, Caught
      <4>3. j \in Unseen(s) <=> stamp[j] > watermark[s]
        BY <4>1 DEF Unseen
      <4> QED
        BY <2>1, <2>2, <3>1, <3>3, <4>2, <4>3 DEF Caught
    <3> QED
      BY <3>2, <3>3
  <2>5. \A t \in Sessions : beat'[t] # "match" => fresh'[t] = {}
    BY <2>2 DEF Caught
  <2> QED
    BY <2>1, <2>3, <2>5 DEF Caught
<1> QED
  BY <1>1, <1>2 DEF ReadUnseen

\* Every step keeps Caught if nudges arrive and claims appear in order: a claim is
\* inserted before its call looks for others, so what its answer does not name appears
\* later.
LEMMA CaughtStep ==
  /\ TypeOK /\ Fresh /\ Caught /\ [Next]_vars
  /\ [NudgesArrive]_vars /\ [ClaimsAppearInOrder]_vars
  => Caught'
<1> SUFFICES ASSUME TypeOK, Fresh, Caught, [Next]_vars,
                    [NudgesArrive]_vars, [ClaimsAppearInOrder]_vars
             PROVE  Caught'
  OBVIOUS
<1> USE DEF Standing, Active
<1>1. ASSUME NEW i \in Ids, NEW s \in Sessions, NEW L \in Lanes, Claim(i, s, L)
      PROVE  Caught'
  <2>1. /\ UNCHANGED <<up, stands, answer, stamp, watermark, beat, fresh, told>>
        /\ pc[i] = "idle" /\ pc' = [pc EXCEPT ![i] = "insert"]
        /\ author' = [author EXCEPT ![i] = s] /\ lane' = [lane EXCEPT ![i] = L]
        /\ ExpireStale
    BY <1>1 DEF Claim, passes
  <2>2. \A k \in Ids : status'[k] = "active" => status[k] = "active"
    BY <2>1, ExpiresOnly
  <2>3. /\ \A k \in Ids : pc[k] # "idle" => author'[k] = author[k] /\ lane'[k] = lane[k]
        /\ \A k \in Ids : Standing(k)' => Standing(k)
    BY <2>1, <2>2 DEF TypeOK
  <2> QED
    BY <2>1, <2>2, <2>3, StampsStay, CaughtKept DEF Caught
<1>2. ASSUME NEW i \in Ids, Insert(i)
      PROVE  Caught'
  <2>1. pc' # pc
    BY <1>2 DEF Insert, TypeOK
  <2> QED
    BY <1>2, <2>1, InsertCaught DEF vars
<1>3. ASSUME NEW i \in Ids, FindTwin(i) \/ RefreshTwin(i) \/ FailCall(i)
      PROVE  Caught'
  <2>1. /\ UNCHANGED <<up, author, lane, answer, status, stamp, watermark, beat, fresh, told>>
        /\ \A k \in Ids : pc'[k] = "answered" => pc[k] = "answered" /\ stands'[k] = stands[k]
    BY <1>3 DEF FindTwin, RefreshTwin, FailCall, passes, TypeOK
  <2> QED
    BY <2>1, StampsStay, CaughtKept DEF Caught
<1>4. ASSUME NEW i \in Ids, Answer(i)
      PROVE  Caught'
  <2>1. /\ UNCHANGED <<up, author, lane, stands, status, stamp, watermark, beat, fresh, told>>
        /\ answer'[i] = Overlapping(i) /\ pc'[i] = "answered"
        /\ \A k \in Ids \ {i} : answer'[k] = answer[k] /\ pc'[k] = pc[k]
    BY <1>4 DEF Answer, passes, TypeOK
  <2>2. ASSUME NEW k \in Ids, NEW j \in Ids, InTheWay(k, j)'
        PROVE  \/ j \in answer'[k]
               \/ stamp'[j] > watermark'[author'[k]]
               \/ j \in fresh'[author'[k]] \cup told'[author'[k]]
    <3>1. CASE k = i
      BY <2>1, <2>2, <3>1 DEF InTheWay, Overlapping
    <3>2. CASE k # i
      <4>1. InTheWay(k, j)
        BY <2>1, <2>2, <3>2 DEF InTheWay
      <4> QED
        BY <2>1, <3>2, <4>1 DEF Caught
    <3> QED
      BY <3>1, <3>2
  <2> QED
    BY <2>1, <2>2 DEF Caught
<1>5. ASSUME NEW s \in Sessions, ReadUnseen(s)
      PROVE  Caught'
  BY <1>5, ReadCaught
<1>6. ASSUME NEW s \in Sessions, Match(s) \/ FailBeat(s)
      PROVE  Caught'
  <2>1. /\ UNCHANGED <<up, calls, status, stamp, watermark>>
        /\ fresh' = [fresh EXCEPT ![s] = {}]
        /\ beat' \in {[beat EXCEPT ![s] = "idle"], [beat EXCEPT ![s] = "failed"]}
        /\ \A t \in Sessions : told[t] \subseteq told'[t]
    BY <1>6 DEF Match, FailBeat, TypeOK
  <2>2. /\ \A t \in Sessions \ {s} : fresh'[t] = fresh[t] /\ beat'[t] = beat[t]
        /\ fresh'[s] = {} /\ beat'[s] \in {"idle", "failed"}
    BY <2>1 DEF TypeOK
  <2>3. beat[s] # "match" => fresh[s] = {}
    BY DEF Caught
  <2>4. beat[s] = "match" /\ s \in up' => Named(s) \subseteq told'[s]
    BY <2>2 DEF NudgesArrive, vars
  <2>5. \A t \in up' : fresh'[t] = fresh[t] \/ Named(t) \subseteq told'[t]
    BY <2>1, <2>2, <2>3, <2>4 DEF TypeOK
  <2>6. \A t \in Sessions : beat'[t] # "match" => fresh'[t] = {}
    BY <2>2 DEF Caught
  <2> QED
    BY <2>1, <2>5, <2>6, StampsStay, CaughtKept DEF calls
<1>7. ASSUME NEW s \in Sessions, Crash(s)
      PROVE  Caught'
  <2>1. /\ UNCHANGED <<author, lane, stands, answer, status, stamp, watermark, told>>
        /\ up' = up \ {s} /\ \A i \in Ids : pc'[i] \in {pc[i], "failed"}
        /\ \A t \in Sessions \ {s} : fresh'[t] = fresh[t] /\ beat'[t] = beat[t]
        /\ fresh'[s] = {}
    BY <1>7 DEF Crash, TypeOK
  <2>2. /\ \A t \in up' : fresh'[t] = fresh[t]
        /\ \A t \in Sessions : beat'[t] # "match" => fresh'[t] = {}
    BY <2>1 DEF Caught, TypeOK
  <2> QED
    BY <2>1, <2>2, StampsStay, CaughtKept
<1>8. ASSUME UNCHANGED <<up, calls, stamp, watermark, fresh, told>>,
             \A s \in Sessions : beat[s] = "match" <=> beat'[s] = "match",
             \A i \in Ids : status'[i] = "active" => status[i] = "active"
      PROVE  Caught'
  BY <1>8, StampsStay, CaughtKept DEF calls, Caught
<1>9. ASSUME NEW s \in Sessions, StartBeat(s)
      PROVE  Caught'
  <2>1. \A t \in Sessions : beat[t] = "match" <=> beat'[t] = "match"
    BY <1>9 DEF StartBeat, TypeOK
  <2> QED
    BY <1>8, <1>9, <2>1, ExpiresOnly DEF StartBeat
<1>10. ASSUME NEW s \in Sessions, RenewOwn(s)
       PROVE  Caught'
  <2>1. \A t \in Sessions : beat[t] = "match" <=> beat'[t] = "match"
    BY <1>10 DEF RenewOwn, TypeOK
  <2> QED
    BY <1>8, <1>10, <2>1 DEF RenewOwn
<1>11. ASSUME NEW s \in Sessions, Touch(s)
       PROVE  Caught'
  BY <1>8, <1>11 DEF Touch, passes
<1>12. ASSUME NEW S, Release(S)
       PROVE  Caught'
  BY <1>8, <1>12, EndsOnly DEF Release, passes
<1>13. CASE Sweep
  BY <1>8, <1>13, ExpiresOnly DEF Sweep, passes
<1>14. CASE Tick \/ UNCHANGED vars
  BY <1>8, <1>14 DEF Tick, vars, calls, passes
<1>15. ASSUME NEW i \in Ids, Begin(i)
       PROVE  Caught'
  <2>1. \A k \in Ids : Standing(k)' => Standing(k)
    BY <1>15, BeginFacts DEF TypeOK
  <2> QED
    BY <1>15, <2>1, BeginFacts, CaughtKept DEF Caught
<1> QED
  BY <1>1, <1>2, <1>3, <1>4, <1>5, <1>6, <1>7, <1>9, <1>10, <1>11, <1>12, <1>13, <1>14, <1>15
     DEF Next, Create, Beat, ReleaseOwn, OperatorRelease

\* If every pass gets its nudge through, and no claim appears with a time that the
\* watermark of another session has reached, a session that has checked past a claim in
\* the way of its own knows of it.  So there are two ways in which claimsBeatAndNudge
\* loses one: a nudge that piggybackNudge drops, or a failed pass never sent, and an
\* INSERT that commits after a later one has been read.
THEOREM OverlapsAreNudgedIfInOrder ==
  Spec /\ [][NudgesArrive]_vars /\ [][ClaimsAppearInOrder]_vars => []OverlapNudged
<1>1. Init => Caught
  BY DEF Init, Caught, InTheWay, Standing, Active
<1>2. Spec => []TypeOK /\ []Fresh
  BY TypeCorrect, FreshInit, FreshStep, PTL DEF Spec
<1>3. Spec /\ [][NudgesArrive]_vars /\ [][ClaimsAppearInOrder]_vars => []Caught
  BY <1>1, <1>2, CaughtStep, PTL DEF Spec
<1>4. TypeOK /\ Caught => OverlapNudged
  <2> SUFFICES ASSUME TypeOK, Caught, NEW i \in Ids, NEW j \in Ids, InTheWay(i, j),
                      watermark[author[i]] >= stamp[j], beat[author[i]] = "idle"
               PROVE  \/ j \in told[author[i]]
                      \/ \E k \in Ids : author[k] = author[i] /\ j \in answer[k]
    BY DEF OverlapNudged, InTheWay
  <2>1. author[i] \in Sessions /\ stamp[j] \in Nat
    BY DEF TypeOK, InTheWay
  <2>2. watermark[author[i]] \in Nat /\ fresh[author[i]] = {}
    BY <2>1 DEF TypeOK, Caught
  <2> QED
    BY <2>1, <2>2 DEF Caught
<1> QED
  BY <1>2, <1>3, <1>4, PTL

=============================================================================
