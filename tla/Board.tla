------------------------------- MODULE Board -------------------------------
(***************************************************************************)
(* The message board of parallel agents (src/src/coordination/board.ts): a   *)
(* post is stored once however often it is retried, it may close the message *)
(* it answers, and each server process tells its agent of news in the        *)
(* threads it takes part in, by a watermark on creation times.               *)
(*                                                                          *)
(* A post is one transaction.  Its created_at is the time the transaction    *)
(* begins, so creation times and commits may come in different orders; a row *)
(* is named by its created_at.  An action is what happens up to the next     *)
(* statement that another transaction can influence: the columns Begin reads *)
(* never change, and the row lock the last UPDATE takes is released by the   *)
(* COMMIT behind it.                                                         *)
(***************************************************************************)
EXTENDS Naturals, FiniteSets

CONSTANTS
  BoardProcs,   \* server processes, the author_session of a message
  BoardCalls,   \* tool calls that may be under way at once
  BoardProcOf,  \* the process a call runs in
  Bodies,       \* texts
  MaxPosts      \* bounds the transactions of a behaviour

ASSUME BoardProcsOfCalls == BoardProcOf \in [BoardCalls -> BoardProcs]
ASSUME MaxPostsTyped == MaxPosts \in Nat

VARIABLES
  clock,      \* transactions begun
  commits,    \* transactions committed
  messages,   \* agent_messages, by created_at
  post,       \* the transaction of a call
  watermark,  \* nudgeWatermarkIso
  told        \* how often a process has named a message in a nudge

boardVars == <<clock, commits, messages, post, watermark, told>>

Times == 1 .. MaxPosts
Types == {"note", "handoff"}

NoPost == [at |-> "idle", time |-> 0, body |-> 0, type |-> "note", root |-> 0,
           resolves |-> 0]

BoardTypeOK ==
  /\ clock \in 0 .. MaxPosts
  /\ commits \in 0 .. clock
  /\ DOMAIN messages \subseteq Times
  /\ \A t \in DOMAIN messages :
       /\ messages[t].author \in BoardProcs
       /\ messages[t].body \in Bodies
       /\ messages[t].type \in Types
       /\ messages[t].root \in DOMAIN messages
       /\ messages[t].status \in {"open", "resolved"}
       /\ messages[t].by \in DOMAIN messages \cup {0}
       /\ messages[t].answers \in DOMAIN messages \cup {0}
       /\ messages[t].order \in 1 .. commits
  /\ \A c \in BoardCalls :
       /\ post[c].at \in {"idle", "insert", "resolve"}
       /\ post[c].root \in DOMAIN messages \cup {0}
       /\ post[c].resolves \in DOMAIN messages \cup {0}
  /\ watermark \in [BoardProcs -> 0 .. MaxPosts]
  /\ told \in [BoardProcs -> [Times -> 0 .. 2]]

BoardInit ==
  /\ clock = 0
  /\ commits = 0
  /\ messages = [t \in {} |-> 0]
  /\ post = [c \in BoardCalls |-> NoPost]
  /\ watermark = [p \in BoardProcs |-> 0]
  /\ told = [p \in BoardProcs |-> [t \in Times |-> 0]]

----------------------------------------------------------------------------
\* Rows whose (author_session, body) is that of the call's message.
SamePost(c) ==
  {t \in DOMAIN messages : /\ messages[t].author = BoardProcOf[c]
                           /\ messages[t].body = post[c].body}

\* Calls that have inserted the same key and not committed it.
Inserting(c) ==
  {d \in BoardCalls \ {c} : /\ post[d].at = "resolve"
                            /\ BoardProcOf[d] = BoardProcOf[c]
                            /\ post[d].body = post[c].body}

\* postMessageInTransaction up to the INSERT: a message without a thread of its
\* own joins the one it answers, and a thread is named by its root.
BeginPost(c) ==
  /\ post[c].at = "idle"
  /\ clock < MaxPosts
  /\ clock' = clock + 1
  /\ \E b \in Bodies, ty \in Types, th, re \in DOMAIN messages \cup {0} :
       LET of == IF th # 0 THEN th ELSE re
       IN post' = [post EXCEPT ![c] =
                     [at |-> "insert", time |-> clock', body |-> b, type |-> ty,
                      root |-> IF of = 0 THEN 0 ELSE messages[of].root,
                      resolves |-> re]]
  /\ UNCHANGED <<commits, messages, watermark, told>>

\* INSERT .. ON CONFLICT DO NOTHING waits for a transaction that may take its key.
Insert(c) ==
  /\ post[c].at = "insert"
  /\ SamePost(c) # {} \/ Inserting(c) = {}
  /\ post' = [post EXCEPT ![c].at = "resolve"]
  /\ UNCHANGED <<clock, commits, messages, watermark, told>>

\* The row the call answers with: its own, or the one that has its key already.
MessageOf(c) ==
  IF SamePost(c) = {} THEN post[c].time ELSE CHOOSE t \in SamePost(c) : TRUE

\* The row of the call's message.
NewRow(c) ==
  [author |-> BoardProcOf[c], body |-> post[c].body, type |-> post[c].type,
   root |-> IF post[c].root = 0 THEN post[c].time ELSE post[c].root,
   status |-> "open", by |-> 0, answers |-> post[c].resolves, order |-> commits + 1]

WithRow(c) ==
  [t \in DOMAIN messages \cup {post[c].time} |->
     IF t = post[c].time THEN NewRow(c) ELSE messages[t]]

\* Wrong on purpose: a duplicate is one that was there when the transaction began.
PostedUnkeyed(c) ==
  IF \E t \in SamePost(c) : t < post[c].time THEN messages ELSE WithRow(c)

\* The table with the call's message, if it is new.
Posted(c) == IF SamePost(c) # {} THEN messages ELSE WithRow(c)

\* Wrong on purpose: the message answered is closed by the retry.
ResolveLater(c, table) ==
  IF post[c].resolves = 0 \/ SamePost(c) = {} THEN table
  ELSE [table EXCEPT ![post[c].resolves].status = "resolved",
                     ![post[c].resolves].by = MessageOf(c)]

\* UPDATE .. WHERE status = 'open'.
Resolve(c, table) ==
  IF post[c].resolves = 0 THEN table
  ELSE IF table[post[c].resolves].status # "open" THEN table
  ELSE [table EXCEPT ![post[c].resolves].status = "resolved",
                     ![post[c].resolves].by = MessageOf(c)]

\* The answered row is closed and everything commits.
CommitPost(c) ==
  /\ post[c].at = "resolve"
  /\ messages' = Resolve(c, Posted(c))
  /\ commits' = commits + 1
  /\ post' = [post EXCEPT ![c] = NoPost]
  /\ UNCHANGED <<clock, watermark, told>>

\* A throw, a lost connection or a dead process: the transaction is undone.
AbortPost(c) ==
  /\ post[c].at # "idle"
  /\ post' = [post EXCEPT ![c] = NoPost]
  /\ UNCHANGED <<clock, commits, messages, watermark, told>>

----------------------------------------------------------------------------
\* Threads a process has posted in.
Threads(p) == {messages[t].root : t \in {u \in DOMAIN messages : messages[u].author = p}}

\* The query of boardNudge.
News(p) ==
  {t \in DOMAIN messages :
     /\ t > watermark[p]
     /\ messages[t].author # p
     /\ \/ messages[t].root \in Threads(p)
        \/ messages[t].type = "handoff" /\ messages[t].status = "open"}

\* Wrong on purpose: the watermark is the time of the query.
NewestNow(S) == clock

Newest(S) == CHOOSE t \in S : \A u \in S : u <= t

\* boardNudge, when it has anything to say.
Nudge(p) ==
  /\ News(p) # {}
  /\ watermark' = [watermark EXCEPT ![p] = Newest(News(p))]
  /\ told' = [told EXCEPT ![p] = [t \in Times |->
                IF t \in News(p) /\ @[t] < 2 THEN @[t] + 1 ELSE @[t]]]
  /\ UNCHANGED <<clock, commits, messages, post>>

BoardNext ==
  \/ \E c \in BoardCalls : BeginPost(c) \/ Insert(c) \/ CommitPost(c) \/ AbortPost(c)
  \/ \E p \in BoardProcs : Nudge(p)

BoardSpec == BoardInit /\ [][BoardNext]_boardVars

----------------------------------------------------------------------------
(* A retried post is stored once per process and text, also when the retry  *)
(* runs while the first attempt is still under way (ON CONFLICT in           *)
(* postMessageInTransaction).                                                *)
StoredOnce ==
  \A t, u \in DOMAIN messages :
    /\ messages[t].author = messages[u].author
    /\ messages[t].body = messages[u].body
    => t = u

(* A message that was sent to close another is not stored without the other *)
(* being closed, wherever a transaction ends (postMessageInTransaction:      *)
(* "a crash between them cannot leave the reply posted but the target open").*)
ReplyCloses ==
  \A t \in DOMAIN messages :
    messages[t].answers # 0 => messages[messages[t].answers].status # "open"

\* The process took part in the message's thread before it was committed.
TookPart(p, t) ==
  \E u \in DOMAIN messages : /\ messages[u].author = p
                             /\ messages[u].root = messages[t].root
                             /\ messages[u].order < messages[t].order

(* The watermark of boardNudge passes a message of a thread the process takes *)
(* part in untold only when a message created later committed before it: in  *)
(* commit order nothing is skipped.                                          *)
SkippedOnlyIfOvertaken ==
  \A p \in BoardProcs, t \in DOMAIN messages :
    /\ messages[t].author # p
    /\ TookPart(p, t)
    /\ t <= watermark[p]
    /\ told[p][t] = 0
    => \E u \in DOMAIN messages : /\ u > t
                                  /\ told[p][u] > 0
                                  /\ messages[u].order < messages[t].order
=============================================================================
