------------------------------- MODULE Ideas -------------------------------
(***************************************************************************)
(* The roadmap board (src/src/ideas.ts): agents park ideas and move them to   *)
(* building and shipped, the operator moves, edits and reorders them in the   *)
(* dashboard.  A band is the ideas of one project, status and priority; a     *)
(* write locks the bands it touches (advisory locks, in the order of their    *)
(* keys), then the idea, then the rows of the target band.                    *)
(*                                                                          *)
(* Bands are numbered in the order of their keys and differ here in status    *)
(* only.  Ideas are numbered in the order of their creation.  An action is    *)
(* one statement of the transaction; the last one includes COMMIT.  Ranks     *)
(* count in thousands.                                                        *)
(***************************************************************************)
EXTENDS Integers, Sequences, FiniteSets, FiniteSetsExt, Functions

CONSTANTS
  IdeaCalls,     \* requests that may be under way at once
  Columns,       \* statuses of the bands, in the order of the band keys
  Parked,        \* bands of the ideas on the board at first
  MaxIdeas,      \* bounds the ideas
  MaxIdeaWrites  \* bounds the writes of a behaviour

ASSUME IdeaBounds == MaxIdeas \in Nat /\ MaxIdeaWrites \in Nat
ASSUME ColumnsTyped ==
  /\ Columns \in Seq({"idea", "planned", "building", "shipped", "dropped"})
  /\ \E b \in DOMAIN Columns : Columns[b] = "idea"
ASSUME ParkedTyped == Parked \in Seq(DOMAIN Columns) /\ Len(Parked) <= MaxIdeas

VARIABLES
  ideas,     \* the table: band and rank of an idea, and whether an operator gave the rank
  ideaCall,  \* the request
  ideaWrites \* writes committed

ideaVars == <<ideas, ideaCall, ideaWrites>>

Bands == DOMAIN Columns
Ids == 1 .. MaxIdeas
Ranks == -MaxIdeaWrites .. MaxIdeas + MaxIdeaWrites
Inbox == CHOOSE b \in Bands : Columns[b] = "idea"

NoCall == [at |-> "idle", kind |-> "none", idea |-> 0, from |-> 0, to |-> 0,
           rank |-> 0, given |-> FALSE, seen |-> {}, order |-> <<>>, tries |-> 0,
           held |-> {}, rows |-> {}]

IdeasTypeOK ==
  /\ DOMAIN ideas \in {1 .. n : n \in 0 .. MaxIdeas}
  /\ \A i \in DOMAIN ideas : ideas[i] \in [band : Bands, rank : Ranks, given : BOOLEAN]
  /\ ideaWrites \in 0 .. MaxIdeaWrites
  /\ \A c \in IdeaCalls :
       /\ ideaCall[c].at \in {"idle", "read", "lock", "row", "target", "write"}
       /\ ideaCall[c].rank \in Ranks
       /\ ideaCall[c].tries \in 0 .. 2
       /\ ideaCall[c].held \subseteq {ideaCall[c].from, ideaCall[c].to}
       /\ ideaCall[c].rows \subseteq DOMAIN ideas

IdeasInit ==
  /\ ideas = [i \in DOMAIN Parked |-> [band |-> Parked[i], rank |-> i, given |-> FALSE]]
  /\ ideaCall = [c \in IdeaCalls |-> NoCall]
  /\ ideaWrites = 0

----------------------------------------------------------------------------
IdeasIn(b) == {i \in DOMAIN ideas : ideas[i].band = b}

\* A band as it is shown: which idea comes before which.
Before(i, j) ==
  \/ ideas[i].rank < ideas[j].rank
  \/ ideas[i].rank = ideas[j].rank /\ i < j
InOrder(b) == {p \in IdeasIn(b) \X IdeasIn(b) : p[1] = p[2] \/ Before(p[1], p[2])}

\* AGENT_TRANSITIONS: the statuses an agent may move to, and the one it needs.
AgentFrom == [building |-> "planned", shipped |-> "building"]

Busy(c) == ideaCall[c].at # "idle"

\* ideaAddForProject.
AskAdd(c) ==
  /\ ~Busy(c)
  /\ ideaWrites < MaxIdeaWrites
  /\ Cardinality(DOMAIN ideas) < MaxIdeas
  /\ ideaCall' = [ideaCall EXCEPT ![c] = [NoCall EXCEPT !.at = "lock", !.kind = "add",
                                            !.from = Inbox, !.to = Inbox]]
  /\ UNCHANGED <<ideas, ideaWrites>>

\* The idea is in the status an agent may move it to this band from.
AgentMay(i, b) ==
  /\ Columns[b] \in DOMAIN AgentFrom
  /\ Columns[ideas[i].band] = AgentFrom[Columns[b]]

\* The request for a move, to a place that is given or at the edge of the band.
Move(i, b, kind, given) ==
  [NoCall EXCEPT !.at = "lock", !.kind = kind, !.idea = i, !.from = ideas[i].band, !.to = b,
                 !.given = given, !.rank = IF given THEN 1 ELSE 0]

\* ideaAgentMove, ideaOperatorMove and ideaOperatorUpdate up to the locks: the
\* candidate is read without one.
AskMove(c) ==
  /\ ~Busy(c)
  /\ ideaWrites < MaxIdeaWrites
  /\ \E i \in DOMAIN ideas, b \in Bands, kind \in {"agent", "operator"}, g \in BOOLEAN :
       /\ kind = "agent" => AgentMay(i, b) /\ ~g
       /\ ideaCall' = [ideaCall EXCEPT ![c] = Move(i, b, kind, g)]
  /\ UNCHANGED <<ideas, ideaWrites>>

\* ideaOperatorReorder: the browser sends the column it shows, and ideas with the
\* places they shall have, the idea that was dragged among them.
AskReorder(c) ==
  /\ ~Busy(c)
  /\ ideaWrites < MaxIdeaWrites
  /\ \E S \in SUBSET DOMAIN ideas, b \in Bands : \E i \in S :
       \E order \in Bijection(S, 1 .. Cardinality(S)) :
         ideaCall' = [ideaCall EXCEPT ![c] =
           [NoCall EXCEPT !.at = "read", !.kind = "reorder", !.idea = i, !.to = b,
                          !.seen = InOrder(b), !.order = order]]
  /\ UNCHANGED <<ideas, ideaWrites>>

\* The candidate of a reorder, or of another attempt.
ReadIdea(c) ==
  /\ ideaCall[c].at = "read"
  /\ ideaCall[c].kind = "agent" => AgentMay(ideaCall[c].idea, ideaCall[c].to)
  /\ ideaCall' = [ideaCall EXCEPT ![c].at = "lock",
                                  ![c].from = ideas[ideaCall[c].idea].band]
  /\ UNCHANGED <<ideas, ideaWrites>>

\* Wrong on purpose: the band an idea comes to is not locked.
ToLockSource(c) == {ideaCall[c].from} \ ideaCall[c].held

\* The bands that are not locked yet.
ToLock(c) == {ideaCall[c].from, ideaCall[c].to} \ ideaCall[c].held

NextBand(c) == Min(ToLock(c))

BandHolders(b) == {d \in IdeaCalls : b \in ideaCall[d].held}
RowHolders(S) == {d \in IdeaCalls : ideaCall[d].rows \cap S # {}}

\* lockIdeaBands, one lock.
LockBand(c) ==
  /\ ideaCall[c].at = "lock"
  /\ BandHolders(NextBand(c)) = {}
  /\ LET b == NextBand(c)
     IN ideaCall' = [ideaCall EXCEPT
          ![c].held = @ \cup {b},
          ![c].at = IF ToLock(c) # {b} THEN "lock"
                    ELSE IF ideaCall[c].kind = "add" THEN "target" ELSE "row"]
  /\ UNCHANGED <<ideas, ideaWrites>>

Stayed(c) == ideas[ideaCall[c].idea].band = ideaCall[c].from

\* SELECT .. FOR UPDATE; an explicit rank, or the band the idea is in already, needs
\* no other row.
LockIdea(c) ==
  /\ ideaCall[c].at = "row"
  /\ RowHolders({ideaCall[c].idea}) = {}
  /\ Stayed(c)
  /\ LET i == ideaCall[c].idea
         settled == /\ ideaCall[c].kind = "operator"
                    /\ ideaCall[c].given \/ ideaCall[c].from = ideaCall[c].to
     IN ideaCall' = [ideaCall EXCEPT
          ![c].rows = {i},
          ![c].at = IF settled THEN "write" ELSE "target",
          ![c].rank = IF settled /\ ~ideaCall[c].given THEN ideas[i].rank ELSE @,
          ![c].given = IF settled /\ ~@ THEN ideas[i].given ELSE @]
  /\ UNCHANGED <<ideas, ideaWrites>>

\* Wrong on purpose: the next attempt is made in the same transaction.
DriftHolding(c) ==
  /\ ideaCall[c].at = "row"
  /\ RowHolders({ideaCall[c].idea}) = {}
  /\ ~Stayed(c)
  /\ ideaCall' = [ideaCall EXCEPT ![c] =
       IF @.tries = 2 THEN NoCall
       ELSE [ideaCall[c] EXCEPT !.at = "read", !.tries = ideaCall[c].tries + 1, !.from = 0]]
  /\ UNCHANGED <<ideas, ideaWrites>>

\* IDENTITY_DRIFT: rolled back and tried again, three times.
Drift(c) ==
  /\ ideaCall[c].at = "row"
  /\ RowHolders({ideaCall[c].idea}) = {}
  /\ ~Stayed(c)
  /\ ideaCall' = [ideaCall EXCEPT ![c] =
       IF @.tries = 2 THEN NoCall
       ELSE [ideaCall[c] EXCEPT !.at = "read", !.tries = ideaCall[c].tries + 1, !.from = 0,
                                !.held = {}]]
  /\ UNCHANGED <<ideas, ideaWrites>>

\* bandEdgeRankLocked: a move comes to the top, a new idea to the bottom.
EdgeRank(c) ==
  LET ranks == {ideas[i].rank : i \in IdeasIn(ideaCall[c].to) \ {ideaCall[c].idea}}
  IN IF ranks = {} THEN 1
     ELSE IF ideaCall[c].kind = "add" THEN Max(ranks) + 1 ELSE Min(ranks) - 1

\* Wrong on purpose: an order is applied to whatever is there now.
AsShownUnchecked(c) == IdeasIn(ideaCall[c].to) \subseteq DOMAIN ideaCall[c].order

\* A reorder is for exactly the column the operator was shown, and the idea.
AsShown(c) ==
  /\ InOrder(ideaCall[c].to) = ideaCall[c].seen
  /\ DOMAIN ideaCall[c].order = IdeasIn(ideaCall[c].to) \cup {ideaCall[c].idea}

\* The rows of the target band are locked and judged.
LockTarget(c) ==
  /\ ideaCall[c].at = "target"
  /\ RowHolders(IdeasIn(ideaCall[c].to)) \subseteq {c}
  /\ ideaCall[c].kind = "reorder" => AsShown(c)
  /\ ideaCall' = [ideaCall EXCEPT
       ![c].at = "write",
       ![c].rank = IF ideaCall[c].kind = "reorder" THEN 0 ELSE EdgeRank(c),
       ![c].rows = @ \cup IdeasIn(ideaCall[c].to)]
  /\ UNCHANGED <<ideas, ideaWrites>>

\* The row a move, or a new idea, ends as.
Placed(c) == [band |-> ideaCall[c].to, rank |-> ideaCall[c].rank, given |-> ideaCall[c].given]

\* The table once the UPDATE or INSERT of the call is through.
IdeasWritten(c) ==
  LET i == IF ideaCall[c].kind = "add" THEN Cardinality(DOMAIN ideas) + 1 ELSE ideaCall[c].idea
      order == ideaCall[c].order
  IN IF ideaCall[c].kind # "reorder"
     THEN [j \in DOMAIN ideas \cup {i} |-> IF j = i THEN Placed(c) ELSE ideas[j]]
     ELSE [j \in DOMAIN ideas |->
             IF j \notin DOMAIN order THEN ideas[j]
             ELSE [band |-> IF j = i THEN ideaCall[c].to ELSE ideas[j].band,
                   rank |-> order[j], given |-> FALSE]]

WriteIdeas(c) ==
  /\ ideaCall[c].at = "write"
  /\ ideaWrites < MaxIdeaWrites
  /\ ideaCall[c].kind = "add" => Cardinality(DOMAIN ideas) < MaxIdeas
  /\ ideas' = IdeasWritten(c)
  /\ ideaWrites' = ideaWrites + 1
  /\ ideaCall' = [ideaCall EXCEPT ![c] = NoCall]

\* Refused ("move rejected", "board changed", "must exactly describe"), or a lost
\* connection: rolled back.
RollBack(c) ==
  /\ Busy(c)
  /\ ideaCall' = [ideaCall EXCEPT ![c] = NoCall]
  /\ UNCHANGED <<ideas, ideaWrites>>

IdeasNext ==
  \E c \in IdeaCalls :
    \/ AskAdd(c) \/ AskMove(c) \/ AskReorder(c) \/ ReadIdea(c)
    \/ LockBand(c) \/ LockIdea(c) \/ Drift(c) \/ LockTarget(c) \/ WriteIdeas(c) \/ RollBack(c)

IdeasSpec == IdeasInit /\ [][IdeasNext]_ideaVars

----------------------------------------------------------------------------
(* Two ideas of a band have one rank only if an operator has given one of    *)
(* them a rank: moves into a band, new ideas and reorders, interleaved, never *)
(* choose the same place (bandEdgeRankLocked under the band's lock).          *)
RanksDistinct ==
  \A i, j \in DOMAIN ideas :
    /\ i # j
    /\ ideas[i].band = ideas[j].band
    /\ ideas[i].rank = ideas[j].rank
    => ideas[i].given \/ ideas[j].given

(* What a reorder is about to write over is the column the operator was       *)
(* shown: no move, addition or reorder comes between ("rejects stale          *)
(* concurrent views instead of losing a move").                               *)
ReorderReplacesShown ==
  \A c \in IdeaCalls :
    ideaCall[c].at = "write" /\ ideaCall[c].kind = "reorder" =>
      InOrder(ideaCall[c].to) = ideaCall[c].seen

\* The requests a request waits for.
WaitsFor(c) ==
  {d \in IdeaCalls :
     \/ ideaCall[c].at = "lock" /\ NextBand(c) \in ideaCall[d].held
     \/ ideaCall[c].at = "row" /\ ideaCall[c].idea \in ideaCall[d].rows
     \/ /\ ideaCall[c].at = "target" /\ d # c
        /\ ideaCall[d].rows \cap IdeasIn(ideaCall[c].to) # {}}

(* Board writes never wait for one another in a circle (lockIdeaBands, then   *)
(* the idea, then the target band).                                           *)
NoCircleOfWrites ==
  ~\E S \in (SUBSET IdeaCalls) \ {{}} : \A c \in S : WaitsFor(c) \cap S # {}
=============================================================================
