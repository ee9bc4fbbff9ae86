---------------------------- MODULE BoardProofs ----------------------------
(***************************************************************************)
(* Proofs about Board for any processes, calls, texts and number of posts.   *)
(*                                                                          *)
(* A key of agent_messages has at most one transaction past its INSERT until  *)
(* somebody has committed it (KeysApart); from there on it has a row, and rows *)
(* are never taken away (Kept).  The rest is about times: rows and             *)
(* transactions have different ones (TimesApart), rows are numbered in the     *)
(* order they are committed (OrdersApart), and a process's watermark is the    *)
(* newest message it has told its agent of (WatermarkTold).  Commits are fewer  *)
(* than times, as those under way have not committed yet (Settled).            *)
(***************************************************************************)
EXTENDS Board, FiniteSetTheorems, WellFoundedInduction, TLAPS

\* Types the tables of Board have, field by field in BoardTypeOK.
Row ==
  [author : BoardProcs, body : Bodies, type : Types, root : Times,
   status : {"open", "resolved"}, by : 0 .. MaxPosts, answers : 0 .. MaxPosts,
   order : Nat]

Call ==
  [at : {"idle", "insert", "resolve"}, time : 0 .. MaxPosts, body : Bodies \cup {0},
   type : Types, root : 0 .. MaxPosts, resolves : 0 .. MaxPosts]

Tables ==
  /\ messages \in [DOMAIN messages -> Row]
  /\ post \in [BoardCalls -> Call]

Posting(c) == post[c].at # "idle"

\* Transactions and rows have times of their own.
TimesApart ==
  /\ DOMAIN messages \subseteq 1 .. clock
  /\ \A c \in BoardCalls :
       Posting(c) => /\ post[c].time \in (1 .. clock) \ DOMAIN messages
                    /\ post[c].body \in Bodies
  /\ \A c, d \in BoardCalls :
       Posting(c) /\ Posting(d) /\ post[c].time = post[d].time => c = d

ActiveCalls == {c \in BoardCalls : Posting(c)}

\* Every transaction under way has a time that nobody has committed with.
Settled ==
  /\ IsFiniteSet(ActiveCalls)
  /\ commits + Cardinality(ActiveCalls) <= clock

\* Two transactions are past the INSERT of one key only when it has a row.
KeysApart ==
  \A c, d \in BoardCalls :
    /\ post[c].at = "resolve" /\ post[d].at = "resolve"
    /\ BoardProcOf[c] = BoardProcOf[d] /\ post[c].body = post[d].body
    => c = d \/ SamePost(c) # {}

OrdersApart ==
  \A t, u \in DOMAIN messages : messages[t].order = messages[u].order => t = u

\* The watermark is the newest message told.
WatermarkTold ==
  \A p \in BoardProcs :
    /\ watermark[p] # 0 => told[p][watermark[p]] > 0 /\ watermark[p] \in DOMAIN messages
    /\ \A t \in Times : told[p][t] > 0 => t <= watermark[p] /\ t \in DOMAIN messages

BoardInv ==
  /\ BoardTypeOK /\ Tables
  /\ TimesApart /\ Settled /\ KeysApart /\ OrdersApart /\ WatermarkTold
  /\ StoredOnce /\ ReplyCloses /\ SkippedOnlyIfOvertaken

----------------------------------------------------------------------------
\* Sets of numbers have ends.
LEMMA LeastExists ==
  ASSUME NEW T \in SUBSET Nat, T # {}
  PROVE  \E x \in T : \A y \in T : x <= y
<1>1. PICK x \in T : \A y \in T : ~(<<y, x>> \in OpToRel(<, Nat))
  BY NatLessThanWellFounded, WFMin
<1>2. ASSUME NEW y \in T PROVE x <= y
  <2>1. ~(y < x)
    BY <1>1 DEF OpToRel
  <2> QED
    BY <2>1
<1> QED
  BY <1>2

\* A set of times that is not empty has a newest one.
LEMMA NewestExists ==
  ASSUME NEW n \in Nat, NEW T \in SUBSET (0 .. n), T # {}
  PROVE  Newest(T) \in T /\ \A u \in T : u <= Newest(T)
<1> DEFINE U == {n - t : t \in T}
<1>1. U \in SUBSET Nat
  OBVIOUS
<1>2. U # {}
  OBVIOUS
<1>3. PICK x \in T : \A y \in T : n - x <= n - y
  <2> HIDE DEF U
  <2>1. PICK u \in U : \A v \in U : u <= v
    BY <1>1, <1>2, LeastExists
  <2> QED
    BY <2>1 DEF U
<1>4. \A y \in T : y <= x
  BY <1>3
<1> QED
  BY <1>4 DEF Newest

----------------------------------------------------------------------------
\* The invariant at the start.
LEMMA BoardInitInv == BoardInit => BoardInv
<1> SUFFICES ASSUME BoardInit PROVE BoardInv
  OBVIOUS
<1>1. Settled
  <2>1. ActiveCalls = {}
    BY DEF BoardInit, ActiveCalls, Posting, NoPost
  <2> QED
    BY <2>1, FS_EmptySet DEF Settled, BoardInit
<1> QED
  BY <1>1, MaxPostsTyped
     DEF BoardInit, BoardInv, BoardTypeOK, Tables, Row, Call, NoPost, TimesApart, KeysApart,
         OrdersApart, WatermarkTold, StoredOnce, ReplyCloses, SkippedOnlyIfOvertaken, Posting,
         Times, Types, TookPart

\* A call's end makes room for one commit, a call's begin takes one time.
LEMMA CallEnds ==
  ASSUME BoardInv, NEW c \in BoardCalls, Posting(c), post' = [post EXCEPT ![c] = NoPost],
         UNCHANGED clock, commits' \in {commits, commits + 1}
  PROVE  Settled'
<1>1. ActiveCalls' = ActiveCalls \ {c} /\ c \in ActiveCalls
  BY DEF BoardInv, Tables, ActiveCalls, Posting, NoPost
<1>2. IsFiniteSet(ActiveCalls) /\ commits + Cardinality(ActiveCalls) <= clock
  BY DEF BoardInv, Settled
<1>3. /\ IsFiniteSet(ActiveCalls')
      /\ Cardinality(ActiveCalls') = Cardinality(ActiveCalls) - 1
      /\ Cardinality(ActiveCalls) \in Nat
  BY <1>1, <1>2, FS_RemoveElement, FS_CardinalityType
<1>4. commits \in Nat /\ clock \in Nat
  BY MaxPostsTyped DEF BoardInv, BoardTypeOK
<1>5. commits' + (Cardinality(ActiveCalls) - 1) <= clock'
  BY <1>2, <1>3, <1>4
<1> QED
  BY <1>3, <1>5 DEF Settled

\* A transaction that begins takes one more time.
LEMMA CallBegins ==
  ASSUME BoardInv, NEW c \in BoardCalls, ~Posting(c), Posting(c)', UNCHANGED commits,
         \A d \in BoardCalls \ {c} : post'[d] = post[d], clock' = clock + 1
  PROVE  Settled'
<1>1. ActiveCalls' = ActiveCalls \cup {c} /\ c \notin ActiveCalls
  BY DEF ActiveCalls, Posting
<1>2. IsFiniteSet(ActiveCalls) /\ commits + Cardinality(ActiveCalls) <= clock
  BY DEF BoardInv, Settled
<1>3. /\ IsFiniteSet(ActiveCalls')
      /\ Cardinality(ActiveCalls') = Cardinality(ActiveCalls) + 1
      /\ Cardinality(ActiveCalls) \in Nat
  BY <1>1, <1>2, FS_AddElement, FS_CardinalityType
<1>4. commits \in Nat /\ clock \in Nat
  BY MaxPostsTyped DEF BoardInv, BoardTypeOK
<1>5. commits' + (Cardinality(ActiveCalls) + 1) <= clock'
  BY <1>2, <1>3, <1>4
<1> QED
  BY <1>3, <1>5 DEF Settled

\* What a transaction may do to the others: nothing.  A step that leaves the
\* table and the nudges alone keeps all that is said about them.
LEMMA TableAlone ==
  ASSUME BoardInv, UNCHANGED <<commits, messages, watermark, told>>
  PROVE  /\ OrdersApart' /\ WatermarkTold'
         /\ StoredOnce' /\ ReplyCloses' /\ SkippedOnlyIfOvertaken'
BY DEF BoardInv, OrdersApart, WatermarkTold, StoredOnce, ReplyCloses,
       SkippedOnlyIfOvertaken, TookPart

\* A transaction that begins takes a time that nobody has.
LEMMA BeginPostInv ==
  ASSUME BoardInv, NEW c \in BoardCalls, BeginPost(c)
  PROVE  BoardInv'
<1>1. PICK b \in Bodies, ty \in Types, rt \in DOMAIN messages \cup {0},
           re \in DOMAIN messages \cup {0} :
        post' = [post EXCEPT ![c] = [at |-> "insert", time |-> clock + 1, body |-> b,
                                     type |-> ty, root |-> rt, resolves |-> re]]
  <2>1. PICK b \in Bodies, ty \in Types, th \in DOMAIN messages \cup {0},
             re \in DOMAIN messages \cup {0} :
          LET of == IF th # 0 THEN th ELSE re
          IN post' = [post EXCEPT ![c] =
                        [at |-> "insert", time |-> clock', body |-> b, type |-> ty,
                         root |-> IF of = 0 THEN 0 ELSE messages[of].root,
                         resolves |-> re]]
    BY DEF BeginPost
  <2> DEFINE of == IF th # 0 THEN th ELSE re
             rt == IF of = 0 THEN 0 ELSE messages[of].root
  <2>2. rt \in DOMAIN messages \cup {0}
    BY DEF BoardInv, BoardTypeOK
  <2>3. clock' = clock + 1
    BY DEF BeginPost
  <2>4. post' = [post EXCEPT ![c] = [at |-> "insert", time |-> clock + 1, body |-> b,
                                     type |-> ty, root |-> rt, resolves |-> re]]
    BY <2>1, <2>3
  <2> QED
    BY <2>2, <2>4
<1>2. /\ clock' = clock + 1 /\ clock < MaxPosts /\ clock \in Nat
      /\ UNCHANGED <<commits, messages, watermark, told>>
  BY MaxPostsTyped DEF BeginPost, BoardInv, BoardTypeOK
<1>3. DOMAIN messages \subseteq 0 .. MaxPosts
  BY <1>2, MaxPostsTyped DEF BoardInv, TimesApart
<1>4. Tables'
  BY <1>1, <1>2, <1>3, MaxPostsTyped DEF BoardInv, Tables, Call
<1>5. BoardTypeOK'
  BY <1>1, <1>2, MaxPostsTyped DEF BoardInv, BoardTypeOK, Tables, Call, Times
<1>6. TimesApart'
  BY <1>1, <1>2 DEF BoardInv, TimesApart, Posting, Tables
<1>7. KeysApart'
  BY <1>1, <1>2 DEF BoardInv, KeysApart, SamePost, Tables
<1>8. Settled'
  <2>1. ~Posting(c) /\ Posting(c)' /\ \A d \in BoardCalls \ {c} : post'[d] = post[d]
    BY <1>1 DEF BeginPost, Posting, BoardInv, Tables
  <2> QED
    BY <1>2, <2>1, CallBegins
<1> QED
  BY <1>2, <1>4, <1>5, <1>6, <1>7, <1>8, TableAlone DEF BoardInv

\* The INSERT lets one transaction of a key through.
LEMMA InsertInv ==
  ASSUME BoardInv, NEW c \in BoardCalls, Insert(c)
  PROVE  BoardInv'
<1>1. /\ post[c].at = "insert"
      /\ post' = [post EXCEPT ![c].at = "resolve"]
      /\ UNCHANGED <<clock, commits, messages, watermark, told>>
  BY DEF Insert
<1>2. \A d \in BoardCalls : /\ post'[d].at = IF d = c THEN "resolve" ELSE post[d].at
                            /\ post'[d].time = post[d].time
                            /\ post'[d].body = post[d].body
                            /\ post'[d].root = post[d].root
                            /\ post'[d].resolves = post[d].resolves
  BY <1>1 DEF BoardInv, Tables, Call
<1>3. Tables'
  BY <1>1 DEF BoardInv, Tables, Call
<1>4. BoardTypeOK'
  BY <1>1, <1>2 DEF BoardInv, BoardTypeOK
<1>5. TimesApart'
  BY <1>1, <1>2 DEF BoardInv, TimesApart, Posting
<1>6. \A d \in BoardCalls : SamePost(d)' = SamePost(d)
  BY <1>1, <1>2 DEF SamePost
<1>7. KeysApart'
  <2>1. SUFFICES ASSUME NEW d \in BoardCalls, NEW e \in BoardCalls, d # e,
                        post'[d].at = "resolve", post'[e].at = "resolve",
                        BoardProcOf[d] = BoardProcOf[e], post[d].body = post[e].body
                 PROVE  SamePost(d) # {}
    BY <1>2, <1>6 DEF KeysApart
  <2>2. CASE d = c
    BY <1>2, <2>1, <2>2 DEF Insert, Inserting
  <2>3. CASE e = c
    <3>1. SamePost(c) # {}
      BY <1>2, <2>1, <2>3 DEF Insert, Inserting
    <3> QED
      BY <2>1, <2>3, <3>1 DEF SamePost
  <2>4. CASE d # c /\ e # c
    BY <1>2, <2>1, <2>4 DEF BoardInv, KeysApart
  <2> QED
    BY <2>2, <2>3, <2>4
<1>8. Settled'
  <2>1. ActiveCalls' = ActiveCalls
    BY <1>1, <1>2 DEF ActiveCalls, Posting
  <2> QED
    BY <1>1, <2>1 DEF BoardInv, Settled
<1> QED
  BY <1>1, <1>3, <1>4, <1>5, <1>7, <1>8, TableAlone DEF BoardInv

\* A transaction that is undone leaves no trace.
LEMMA AbortPostInv ==
  ASSUME BoardInv, NEW c \in BoardCalls, AbortPost(c)
  PROVE  BoardInv'
<1>1. /\ post' = [post EXCEPT ![c] = NoPost]
      /\ UNCHANGED <<clock, commits, messages, watermark, told>>
  BY DEF AbortPost
<1>2. Tables'
  BY <1>1, MaxPostsTyped DEF BoardInv, Tables, Call, NoPost, Types
<1>3. BoardTypeOK'
  BY <1>1 DEF BoardInv, BoardTypeOK, Tables, NoPost
<1>4. TimesApart'
  BY <1>1 DEF BoardInv, TimesApart, Posting, Tables, NoPost
<1>5. KeysApart'
  BY <1>1 DEF BoardInv, KeysApart, SamePost, Tables, NoPost
<1>6. Settled'
  BY <1>1, CallEnds DEF AbortPost, Posting
<1> QED
  BY <1>1, <1>2, <1>3, <1>4, <1>5, <1>6, TableAlone DEF BoardInv

----------------------------------------------------------------------------
\* What a COMMIT does to the table: rows stay, with their fields, and only the
\* one that is answered changes its status; the message of the call has a row.
Kept(c) ==
  /\ DOMAIN messages' = IF SamePost(c) = {} THEN DOMAIN messages \cup {post[c].time}
                        ELSE DOMAIN messages
  /\ messages' \in [DOMAIN messages' -> Row]
  /\ \A t \in DOMAIN messages :
       /\ t \in DOMAIN messages'
       /\ messages'[t].author = messages[t].author
       /\ messages'[t].body = messages[t].body
       /\ messages'[t].root = messages[t].root
       /\ messages'[t].answers = messages[t].answers
       /\ messages'[t].order = messages[t].order
       /\ messages[t].status = "resolved" => messages'[t].status = "resolved"
       /\ messages'[t].by \in DOMAIN messages' \cup {0}
  /\ post[c].resolves # 0 => messages'[post[c].resolves].status = "resolved"
  /\ SamePost(c) = {} =>
       LET t == post[c].time
       IN  /\ t \notin DOMAIN messages
           /\ messages'[t].author = BoardProcOf[c]
           /\ messages'[t].body = post[c].body
           /\ messages'[t].root \in DOMAIN messages'
           /\ messages'[t].answers = post[c].resolves
           /\ messages'[t].order = commits + 1
           /\ messages'[t].by = 0

\* What a COMMIT makes of the messages.
LEMMA Committed ==
  ASSUME BoardInv, NEW c \in BoardCalls, CommitPost(c)
  PROVE  Kept(c)
<1>1. /\ post[c].at = "resolve"
      /\ messages' = Resolve(c, Posted(c))
      /\ post[c].time \in (1 .. MaxPosts) \ DOMAIN messages
      /\ post[c].body \in Bodies
      /\ post[c] \in Call
      /\ post[c].root \in DOMAIN messages \cup {0}
      /\ post[c].resolves \in DOMAIN messages \cup {0}
      /\ DOMAIN messages \subseteq 1 .. MaxPosts
      /\ commits \in Nat
      /\ BoardProcOf[c] \in BoardProcs
  <2>1. post[c].at = "resolve" /\ messages' = Resolve(c, Posted(c))
    BY DEF CommitPost
  <2>2. clock \in 0 .. MaxPosts /\ commits \in Nat
    BY MaxPostsTyped DEF BoardInv, BoardTypeOK
  <2>3. /\ post[c].time \in (1 .. clock) \ DOMAIN messages
        /\ post[c].body \in Bodies
        /\ DOMAIN messages \subseteq 1 .. clock
    BY <2>1 DEF BoardInv, TimesApart, Posting
  <2>4. /\ post[c] \in Call
        /\ post[c].root \in DOMAIN messages \cup {0}
        /\ post[c].resolves \in DOMAIN messages \cup {0}
    BY DEF BoardInv, BoardTypeOK, Tables
  <2>5. 1 .. clock \subseteq 1 .. MaxPosts
    BY <2>2, MaxPostsTyped
  <2> QED
    BY <2>1, <2>2, <2>3, <2>4, <2>5, BoardProcsOfCalls
<1>2. /\ messages \in [DOMAIN messages -> Row]
      /\ \A t \in DOMAIN messages : /\ messages[t].by \in DOMAIN messages \cup {0}
                                    /\ messages[t].status \in {"open", "resolved"}
  BY DEF BoardInv, BoardTypeOK, Tables
<1> DEFINE table == Posted(c)
           re == post[c].resolves
           by == MessageOf(c)
<1>3. NewRow(c) \in Row
  BY <1>1, MaxPostsTyped DEF NewRow, Row, Call, Times
<1>4. /\ DOMAIN table = IF SamePost(c) = {} THEN DOMAIN messages \cup {post[c].time}
                        ELSE DOMAIN messages
      /\ table \in [DOMAIN table -> Row]
      /\ \A t \in DOMAIN messages : table[t] = messages[t]
      /\ SamePost(c) = {} => table[post[c].time] = NewRow(c)
  BY <1>1, <1>2, <1>3 DEF Posted, WithRow
<1>5. by \in DOMAIN table
  BY <1>4 DEF MessageOf, SamePost
<1>6. by \in 0 .. MaxPosts
  BY <1>1, <1>4, <1>5
<1>7. /\ DOMAIN messages' = DOMAIN table
      /\ messages' \in [DOMAIN table -> Row]
      /\ \A t \in DOMAIN table :
           \/ messages'[t] = table[t] /\ (t = re => table[t].status = "resolved")
           \/ t = re /\ messages'[t] = [table[t] EXCEPT !.status = "resolved", !.by = by]
  <2> HIDE DEF table, by
  <2>1. messages' = IF re = 0 THEN table
                    ELSE IF table[re].status # "open" THEN table
                    ELSE [table EXCEPT ![re].status = "resolved", ![re].by = by]
    BY <1>1 DEF Resolve, table, by
  <2>2. 0 \notin DOMAIN table
    BY <1>1, <1>4
  <2>3. re # 0 => re \in DOMAIN table
    BY <1>1, <1>4
  <2>4. CASE re = 0 \/ table[re].status # "open"
    <3>1. messages' = table
      BY <2>1, <2>4
    <3>2. \A t \in DOMAIN table : t = re => table[t].status = "resolved"
      BY <2>2, <2>4, <1>4 DEF Row
    <3> QED
      BY <3>1, <3>2, <1>4
  <2>5. CASE re # 0 /\ table[re].status = "open"
    <3>1. messages' = [table EXCEPT ![re] = [table[re] EXCEPT !.status = "resolved", !.by = by]]
      BY <2>1, <2>3, <2>5
    <3>2. [table[re] EXCEPT !.status = "resolved", !.by = by] \in Row
      BY <1>4, <1>6, <2>3, <2>5 DEF Row
    <3> QED
      BY <3>1, <3>2, <1>4, <2>3, <2>5
  <2> QED
    BY <2>4, <2>5
<1>8. \A t \in DOMAIN table :
        /\ messages'[t].author = table[t].author
        /\ messages'[t].body = table[t].body
        /\ messages'[t].root = table[t].root
        /\ messages'[t].answers = table[t].answers
        /\ messages'[t].order = table[t].order
        /\ table[t].status = "resolved" => messages'[t].status = "resolved"
        /\ t = re => messages'[t].status = "resolved"
        /\ messages'[t].by \in {table[t].by, by}
        /\ t # re => messages'[t] = table[t]
  <2> HIDE DEF table, by, re
  <2> SUFFICES ASSUME NEW t \in DOMAIN table
               PROVE  /\ messages'[t].author = table[t].author
                      /\ messages'[t].body = table[t].body
                      /\ messages'[t].root = table[t].root
                      /\ messages'[t].answers = table[t].answers
                      /\ messages'[t].order = table[t].order
                      /\ table[t].status = "resolved" => messages'[t].status = "resolved"
                      /\ t = re => messages'[t].status = "resolved"
                      /\ messages'[t].by \in {table[t].by, by}
                      /\ t # re => messages'[t] = table[t]
    OBVIOUS
  <2>1. table[t] \in Row
    BY <1>4
  <2>2. CASE messages'[t] = table[t] /\ (t = re => table[t].status = "resolved")
    BY <2>2
  <2>3. CASE t = re /\ messages'[t] = [table[t] EXCEPT !.status = "resolved", !.by = by]
    BY <2>1, <2>3 DEF Row
  <2> QED
    BY <1>7, <2>2, <2>3
<1>9. \A t \in DOMAIN messages :
        /\ t \in DOMAIN messages'
        /\ messages'[t].author = messages[t].author
        /\ messages'[t].body = messages[t].body
        /\ messages'[t].root = messages[t].root
        /\ messages'[t].answers = messages[t].answers
        /\ messages'[t].order = messages[t].order
        /\ messages[t].status = "resolved" => messages'[t].status = "resolved"
        /\ messages'[t].by \in DOMAIN messages' \cup {0}
  <2>1. ASSUME NEW t \in DOMAIN messages
        PROVE  t \in DOMAIN table /\ table[t] = messages[t]
    BY <1>4
  <2> HIDE DEF table, by, re
  <2>2. \A t \in DOMAIN messages : t \in DOMAIN messages' /\ messages[t].by \in DOMAIN messages' \cup {0}
    BY <1>2, <1>7, <2>1
  <2>3. by \in DOMAIN messages'
    BY <1>5, <1>7
  <2> QED
    BY <1>8, <2>1, <2>2, <2>3
<1>10. re # 0 => messages'[re].status = "resolved"
  <2> HIDE DEF table, by
  <2> QED
    BY <1>1, <1>4, <1>8
<1>11. ASSUME SamePost(c) = {}
       PROVE  LET t == post[c].time
              IN  /\ t \notin DOMAIN messages
                  /\ messages'[t].author = BoardProcOf[c]
                  /\ messages'[t].body = post[c].body
                  /\ messages'[t].root \in DOMAIN messages'
                  /\ messages'[t].answers = post[c].resolves
                  /\ messages'[t].order = commits + 1
                  /\ messages'[t].by = 0
  <2>1. /\ post[c].time \in DOMAIN table
        /\ post[c].time # re
        /\ messages'[post[c].time] = NewRow(c)
    <3> HIDE DEF table, by
    <3> QED
      BY <1>1, <1>4, <1>8, <1>11
  <2>2. post[c].root \in DOMAIN messages' \cup {0} /\ post[c].time \in DOMAIN messages'
    <3> HIDE DEF table
    <3> QED
      BY <1>1, <1>4, <1>7, <2>1
  <2> QED
    BY <1>1, <2>1, <2>2 DEF NewRow
<1> QED
  <2> HIDE DEF table, by
  <2> QED
    BY <1>4, <1>7, <1>9, <1>10, <1>11 DEF Kept

\* A post that commits is the newest in order, and the first of its key.
LEMMA CommitPostInv ==
  ASSUME BoardInv, NEW c \in BoardCalls, CommitPost(c)
  PROVE  BoardInv'
<1>0. Kept(c)
  BY Committed
<1>1. /\ post[c].at = "resolve"
      /\ post' = [post EXCEPT ![c] = NoPost]
      /\ commits' = commits + 1
      /\ UNCHANGED <<clock, watermark, told>>
      /\ clock \in 0 .. MaxPosts /\ commits \in 0 .. clock
      /\ post[c].time \in (1 .. clock) \ DOMAIN messages
  BY DEF CommitPost, BoardInv, BoardTypeOK, TimesApart, Posting
<1>2. /\ \A d \in BoardCalls : d # c => post'[d] = post[d]
      /\ ~Posting(c)'
      /\ Tables
  BY <1>1 DEF BoardInv, Tables, Posting, NoPost
<1>3. Tables'
  <2>1. messages' \in [DOMAIN messages' -> Row]
    BY <1>0 DEF Kept
  <2>2. post' \in [BoardCalls -> Call]
    BY <1>1, <1>2, MaxPostsTyped DEF Tables, Call, NoPost, Types
  <2> QED
    BY <2>1, <2>2 DEF Tables
<1>4. /\ DOMAIN messages \subseteq DOMAIN messages'
      /\ DOMAIN messages' \subseteq DOMAIN messages \cup {post[c].time}
      /\ DOMAIN messages' \subseteq Times
  BY <1>0, <1>1, MaxPostsTyped DEF Kept, BoardInv, BoardTypeOK, TimesApart, Times
<1>5. \A t \in DOMAIN messages' : t \in DOMAIN messages \/ (t = post[c].time /\ SamePost(c) = {})
  BY <1>0 DEF Kept
<1>6. Settled' /\ commits' \in 0 .. clock'
  <2>1. Settled'
    BY <1>1, CallEnds DEF Posting
  <2>2. Cardinality(ActiveCalls') \in Nat
    BY <2>1, FS_CardinalityType DEF Settled
  <2>3. commits' \in Nat /\ clock' \in Nat /\ commits' + Cardinality(ActiveCalls') <= clock'
    BY <1>1, <2>1, MaxPostsTyped DEF Settled
  <2>4. commits' <= clock'
    BY <2>2, <2>3
  <2> QED
    BY <2>1, <2>3, <2>4
<1>7. BoardTypeOK'
  <2>1. ASSUME NEW t \in DOMAIN messages'
        PROVE  /\ messages'[t].author \in BoardProcs
               /\ messages'[t].body \in Bodies
               /\ messages'[t].type \in Types
               /\ messages'[t].root \in DOMAIN messages'
               /\ messages'[t].status \in {"open", "resolved"}
               /\ messages'[t].by \in DOMAIN messages' \cup {0}
               /\ messages'[t].answers \in DOMAIN messages' \cup {0}
               /\ messages'[t].order \in 1 .. commits'
    <3>1. messages'[t] \in Row
      BY <1>0, <2>1 DEF Kept
    <3>2. CASE t \in DOMAIN messages
      <4>1. /\ messages[t].root \in DOMAIN messages
            /\ messages[t].answers \in DOMAIN messages \cup {0}
            /\ messages[t].order \in 1 .. commits
        BY <3>2 DEF BoardInv, BoardTypeOK
      <4> QED
        BY <1>0, <1>1, <1>4, <3>1, <3>2, <4>1, MaxPostsTyped DEF Kept, Row
    <3>3. CASE t = post[c].time /\ SamePost(c) = {}
      <4>1. post[c].resolves \in DOMAIN messages \cup {0}
        BY DEF BoardInv, BoardTypeOK
      <4> QED
        BY <1>0, <1>1, <1>4, <3>1, <3>3, <4>1, MaxPostsTyped DEF Kept, Row
    <3> QED
      BY <1>5, <3>2, <3>3
  <2>2. ASSUME NEW d \in BoardCalls
        PROVE  /\ post'[d].at \in {"idle", "insert", "resolve"}
               /\ post'[d].root \in DOMAIN messages' \cup {0}
               /\ post'[d].resolves \in DOMAIN messages' \cup {0}
    BY <1>1, <1>2, <1>4 DEF BoardInv, BoardTypeOK, Tables, NoPost
  <2>3. /\ clock' \in 0 .. MaxPosts
        /\ watermark' \in [BoardProcs -> 0 .. MaxPosts]
        /\ told' \in [BoardProcs -> [Times -> 0 .. 2]]
    BY <1>1 DEF BoardInv, BoardTypeOK
  <2> QED
    BY <1>4, <1>6, <2>1, <2>2, <2>3 DEF BoardTypeOK
<1>8. TimesApart'
  <2>1. \A d \in BoardCalls : d # c /\ Posting(d) => post[d].time # post[c].time
    BY <1>1 DEF BoardInv, TimesApart, Posting
  <2>2. \A d \in BoardCalls : Posting(d)' => d # c /\ Posting(d) /\ post'[d] = post[d]
    BY <1>2 DEF Posting
  <2> QED
    BY <1>1, <1>4, <2>1, <2>2 DEF BoardInv, TimesApart
<1>9. KeysApart'
  <2>1. SUFFICES ASSUME NEW d \in BoardCalls, NEW e \in BoardCalls, d # e,
                        post'[d].at = "resolve", post'[e].at = "resolve",
                        BoardProcOf[d] = BoardProcOf[e], post'[d].body = post'[e].body
                 PROVE  SamePost(d)' # {}
    BY DEF KeysApart
  <2>2. d # c /\ e # c
    BY <1>2, <2>1 DEF Posting
  <2>3. PICK t \in DOMAIN messages : messages[t].author = BoardProcOf[d]
                                     /\ messages[t].body = post[d].body
    BY <1>2, <2>1, <2>2 DEF BoardInv, KeysApart, SamePost
  <2> QED
    BY <1>0, <1>2, <2>2, <2>3 DEF Kept, SamePost
<1>10. OrdersApart'
  <2>1. \A t \in DOMAIN messages : messages[t].order \in 1 .. commits
    BY DEF BoardInv, BoardTypeOK
  <2>2. commits \in Nat
    BY <1>1, MaxPostsTyped
  <2> QED
    BY <1>0, <1>5, <2>1, <2>2 DEF Kept, BoardInv, OrdersApart
<1>11. WatermarkTold'
  BY <1>1, <1>4 DEF BoardInv, WatermarkTold
<1>12. StoredOnce'
  <2>1. \A t \in DOMAIN messages :
          SamePost(c) = {} => ~(messages[t].author = BoardProcOf[c] /\ messages[t].body = post[c].body)
    BY DEF SamePost
  <2> QED
    BY <1>0, <1>5, <2>1 DEF Kept, BoardInv, StoredOnce
<1>13. ReplyCloses'
  <2>1. SUFFICES ASSUME NEW t \in DOMAIN messages', messages'[t].answers # 0
                 PROVE  messages'[messages'[t].answers].status = "resolved"
    BY DEF ReplyCloses
  <2>2. CASE t \in DOMAIN messages
    <3>1. /\ messages[t].answers \in DOMAIN messages
          /\ messages[messages[t].answers].status = "resolved"
      BY <1>0, <2>1, <2>2 DEF Kept, BoardInv, BoardTypeOK, ReplyCloses
    <3> QED
      BY <1>0, <2>2, <3>1 DEF Kept
  <2>3. CASE t = post[c].time /\ SamePost(c) = {}
    BY <1>0, <2>1, <2>3 DEF Kept
  <2> QED
    BY <1>5, <2>2, <2>3
<1>14. SkippedOnlyIfOvertaken'
  <2>1. SUFFICES ASSUME NEW p \in BoardProcs, NEW t \in DOMAIN messages',
                        messages'[t].author # p, TookPart(p, t)', t <= watermark[p],
                        told[p][t] = 0
                 PROVE  \E u \in DOMAIN messages' : /\ u > t
                                                    /\ told[p][u] > 0
                                                    /\ messages'[u].order < messages'[t].order
    BY <1>1 DEF SkippedOnlyIfOvertaken
  <2>2. CASE t \in DOMAIN messages
    <3>1. PICK u \in DOMAIN messages' : /\ messages'[u].author = p
                                        /\ messages'[u].root = messages'[t].root
                                        /\ messages'[u].order < messages'[t].order
      BY <2>1 DEF TookPart
    <3>2. messages[t].order \in 1 .. commits /\ messages'[t].order = messages[t].order
      BY <1>0, <2>2 DEF Kept, BoardInv, BoardTypeOK
    <3>3. u \in DOMAIN messages
      <4>1. SUFFICES ASSUME u = post[c].time, SamePost(c) = {}
                     PROVE  FALSE
        BY <1>5
      <4>2. messages'[u].order = commits + 1
        BY <1>0, <4>1 DEF Kept
      <4> QED
        BY <1>1, <3>1, <3>2, <4>2, MaxPostsTyped
    <3>4. TookPart(p, t) /\ messages[t].author # p
      BY <1>0, <2>1, <2>2, <3>1, <3>3 DEF Kept, TookPart
    <3>5. PICK v \in DOMAIN messages : /\ v > t
                                       /\ told[p][v] > 0
                                       /\ messages[v].order < messages[t].order
      BY <2>1, <2>2, <3>4 DEF BoardInv, SkippedOnlyIfOvertaken
    <3> QED
      BY <1>0, <2>2, <3>5 DEF Kept
  <2>3. CASE t = post[c].time /\ SamePost(c) = {}
    <3> DEFINE w == watermark[p]
    <3>1. w \in Nat /\ t \in Nat /\ w # 0
      BY <1>1, <2>1, <2>3, MaxPostsTyped DEF BoardInv, BoardTypeOK
    <3>2. told[p][w] > 0 /\ w \in DOMAIN messages
      BY <3>1 DEF BoardInv, WatermarkTold
    <3>3. w > t
      BY <1>1, <2>1, <2>3, <3>1, <3>2
    <3>4. /\ messages'[w].order \in 1 .. commits
          /\ messages'[t].order = commits + 1
          /\ w \in DOMAIN messages'
      BY <1>0, <2>3, <3>2 DEF Kept, BoardInv, BoardTypeOK
    <3>5. messages'[w].order < messages'[t].order
      BY <1>1, <3>4, MaxPostsTyped
    <3> QED
      BY <3>2, <3>3, <3>4, <3>5
  <2> QED
    BY <1>5, <2>2, <2>3
<1> QED
  BY <1>3, <1>6, <1>7, <1>8, <1>9, <1>10, <1>11, <1>12, <1>13, <1>14 DEF BoardInv

----------------------------------------------------------------------------
\* A nudge tells of the news up to its newest and says nothing of the table.
LEMMA NudgeInv ==
  ASSUME BoardInv, NEW p \in BoardProcs, Nudge(p)
  PROVE  BoardInv'
<1>1. /\ News(p) # {}
      /\ watermark' = [watermark EXCEPT ![p] = Newest(News(p))]
      /\ UNCHANGED <<clock, commits, messages, post>>
  BY DEF Nudge
<1>2. /\ DOMAIN messages \subseteq Times
      /\ watermark \in [BoardProcs -> 0 .. MaxPosts]
      /\ told \in [BoardProcs -> [Times -> 0 .. 2]]
  BY DEF BoardInv, BoardTypeOK
<1>3. News(p) \subseteq DOMAIN messages /\ \A t \in News(p) : t > watermark[p]
  BY DEF News
<1>4. Newest(News(p)) \in News(p) /\ \A u \in News(p) : u <= Newest(News(p))
  <2>1. News(p) \in SUBSET (0 .. MaxPosts)
    BY <1>2, <1>3, MaxPostsTyped DEF Times
  <2> QED
    BY <1>1, <2>1, NewestExists, MaxPostsTyped
<1>5. /\ told' \in [BoardProcs -> [Times -> 0 .. 2]]
      /\ \A q \in BoardProcs : q # p => told'[q] = told[q]
      /\ \A t \in Times : t \notin News(p) => told'[p][t] = told[p][t]
      /\ \A t \in News(p) : told'[p][t] > 0
      /\ \A t \in Times : told'[p][t] >= told[p][t]
  <2> DEFINE f == [t \in Times |-> IF t \in News(p) /\ told[p][t] < 2 THEN told[p][t] + 1
                                   ELSE told[p][t]]
  <2>1. told' = [told EXCEPT ![p] = f]
    BY DEF Nudge
  <2>2. f \in [Times -> 0 .. 2]
    BY <1>2
  <2>3. \A t \in Times : f[t] >= told[p][t] /\ (t \in News(p) => f[t] > 0)
                         /\ (t \notin News(p) => f[t] = told[p][t])
    BY <1>2
  <2> HIDE DEF f
  <2>4. told'[p] = f /\ \A q \in BoardProcs : q # p => told'[q] = told[q]
    BY <1>2, <2>1
  <2> QED
    BY <1>2, <1>3, <2>1, <2>2, <2>3, <2>4
<1>6. /\ watermark' \in [BoardProcs -> 0 .. MaxPosts]
      /\ watermark'[p] = Newest(News(p))
      /\ watermark'[p] > watermark[p]
      /\ \A q \in BoardProcs : q # p => watermark'[q] = watermark[q]
  BY <1>1, <1>2, <1>3, <1>4, MaxPostsTyped DEF Times
<1>7. BoardTypeOK' /\ Tables' /\ TimesApart' /\ KeysApart' /\ OrdersApart' /\ StoredOnce'
      /\ ReplyCloses'
  BY <1>1, <1>5, <1>6
     DEF BoardInv, BoardTypeOK, Tables, TimesApart, Posting, KeysApart, SamePost,
         OrdersApart, StoredOnce, ReplyCloses
<1>8. Settled'
  <2>1. ActiveCalls' = ActiveCalls
    BY <1>1 DEF ActiveCalls, Posting
  <2> QED
    BY <1>1, <2>1 DEF BoardInv, Settled
<1>9. WatermarkTold'
  <2>1. ASSUME NEW q \in BoardProcs, q # p
        PROVE  /\ watermark'[q] # 0 => told'[q][watermark'[q]] > 0
                                       /\ watermark'[q] \in DOMAIN messages
               /\ \A t \in Times : told'[q][t] > 0 => t <= watermark'[q] /\ t \in DOMAIN messages
    BY <1>5, <1>6, <2>1 DEF BoardInv, WatermarkTold
  <2>2. told'[p][watermark'[p]] > 0 /\ watermark'[p] \in DOMAIN messages
    BY <1>3, <1>4, <1>5, <1>6
  <2>3. ASSUME NEW t \in Times, told'[p][t] > 0
        PROVE  t <= watermark'[p] /\ t \in DOMAIN messages
    <3>1. CASE t \in News(p)
      BY <1>3, <1>4, <1>6, <3>1
    <3>2. CASE t \notin News(p)
      <4>1. t <= watermark[p] /\ t \in DOMAIN messages
        BY <1>5, <2>3, <3>2 DEF BoardInv, WatermarkTold
      <4> QED
        BY <1>2, <1>6, <4>1, MaxPostsTyped DEF Times
    <3> QED
      BY <3>1, <3>2
  <2> QED
    BY <1>1, <2>1, <2>2, <2>3 DEF WatermarkTold
<1>10. SkippedOnlyIfOvertaken'
  <2>1. SUFFICES ASSUME NEW q \in BoardProcs, NEW t \in DOMAIN messages,
                        messages[t].author # q, TookPart(q, t), t <= watermark'[q],
                        told'[q][t] = 0
                 PROVE  \E u \in DOMAIN messages : /\ u > t
                                                   /\ told'[q][u] > 0
                                                   /\ messages[u].order < messages[t].order
    BY <1>1 DEF SkippedOnlyIfOvertaken, TookPart
  <2>2. told[q][t] = 0
    BY <1>2, <1>5, <2>1
  <2>3. t <= watermark[q]
    <3>1. CASE q # p
      BY <1>6, <2>1, <3>1
    <3>2. CASE q = p /\ t > watermark[p]
      <4>1. messages[t].root \in Threads(p)
        BY <2>1, <3>2 DEF TookPart, Threads
      <4>2. t \in News(p)
        BY <2>1, <3>2, <4>1 DEF News
      <4> QED
        BY <1>5, <2>1, <3>2, <4>2
    <3> QED
      BY <1>2, <3>1, <3>2, MaxPostsTyped DEF Times
  <2>4. PICK u \in DOMAIN messages : /\ u > t
                                     /\ told[q][u] > 0
                                     /\ messages[u].order < messages[t].order
    BY <2>1, <2>2, <2>3 DEF BoardInv, SkippedOnlyIfOvertaken
  <2>5. told'[q][u] > 0
    BY <1>2, <1>5, <2>4
  <2> QED
    BY <2>4, <2>5
<1> QED
  BY <1>7, <1>8, <1>9, <1>10 DEF BoardInv

----------------------------------------------------------------------------
\* The inductive invariant of the board (postMessageInTransaction, boardNudge).
THEOREM BoardInvariant == BoardSpec => []BoardInv
<1>1. BoardInv /\ [BoardNext]_boardVars => BoardInv'
  <2> SUFFICES ASSUME BoardInv, [BoardNext]_boardVars
               PROVE  BoardInv'
    OBVIOUS
  <2>1. ASSUME NEW c \in BoardCalls, BeginPost(c) PROVE BoardInv'
    BY <2>1, BeginPostInv
  <2>2. ASSUME NEW c \in BoardCalls, Insert(c) PROVE BoardInv'
    BY <2>2, InsertInv
  <2>3. ASSUME NEW c \in BoardCalls, CommitPost(c) PROVE BoardInv'
    BY <2>3, CommitPostInv
  <2>4. ASSUME NEW c \in BoardCalls, AbortPost(c) PROVE BoardInv'
    BY <2>4, AbortPostInv
  <2>5. ASSUME NEW p \in BoardProcs, Nudge(p) PROVE BoardInv'
    BY <2>5, NudgeInv
  <2>6. CASE UNCHANGED boardVars
    <3>1. BoardTypeOK' /\ Tables' /\ TimesApart' /\ KeysApart'
      BY <2>6 DEF boardVars, BoardInv, BoardTypeOK, Tables, TimesApart, Posting, KeysApart,
                  SamePost
    <3>2. Settled'
      BY <2>6 DEF boardVars, BoardInv, Settled, ActiveCalls, Posting
    <3> QED
      BY <2>6, <3>1, <3>2, TableAlone DEF boardVars, BoardInv
  <2> QED
    BY <2>1, <2>2, <2>3, <2>4, <2>5, <2>6 DEF BoardNext
<1> QED
  BY <1>1, BoardInitInv, PTL DEF BoardSpec

(* The tables, the transactions and the nudges of the board have their types. *)
THEOREM BoardTypes == BoardSpec => []BoardTypeOK
<1>1. BoardInv => BoardTypeOK
  BY DEF BoardInv
<1> QED
  BY <1>1, BoardInvariant, PTL

(* A post that is retried, also while its first attempt is still under way, is *)
(* stored once (ON CONFLICT in postMessageInTransaction), for any number of    *)
(* processes, calls and texts.                                               *)
THEOREM PostsAreStoredOnce == BoardSpec => []StoredOnce
<1>1. BoardInv => StoredOnce
  BY DEF BoardInv
<1> QED
  BY <1>1, BoardInvariant, PTL

(* No transaction ends with a reply stored and what it answers still open       *)
(* (postMessageInTransaction).                                               *)
THEOREM RepliesClose == BoardSpec => []ReplyCloses
<1>1. BoardInv => ReplyCloses
  BY DEF BoardInv
<1> QED
  BY <1>1, BoardInvariant, PTL

(* The watermark of boardNudge skips a message of a thread the process takes    *)
(* part in only if one created later was committed before it, however commits   *)
(* and nudges interleave.                                                     *)
THEOREM NudgesSkipOnlyTheOvertaken == BoardSpec => []SkippedOnlyIfOvertaken
<1>1. BoardInv => SkippedOnlyIfOvertaken
  BY DEF BoardInv
<1> QED
  BY <1>1, BoardInvariant, PTL
=============================================================================
