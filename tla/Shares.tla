------------------------------- MODULE Shares -------------------------------
(***************************************************************************)
(* Cross-project references (src/src/shares.ts): operators grant another      *)
(* project a read-only copy of an artifact and revoke it again, every change  *)
(* with an audit event.                                                       *)
(*                                                                          *)
(* Two projects, 1 before 2 in the order of their UUIDs, with one artifact    *)
(* each.  A share is named by its created_at, the time its transaction        *)
(* begins.  An action is one statement; the last statements of a transaction, *)
(* which nobody can disturb any more, are one action with its COMMIT.                    *)
(***************************************************************************)
EXTENDS Naturals, Sequences, FiniteSets, FiniteSetsExt

CONSTANTS
  ShareCalls,  \* operator requests that may be under way at once
  MaxShares,   \* bounds the grants of a behaviour
  MaxTexts     \* bounds the versions of an artifact

ASSUME ShareBounds == MaxShares \in Nat /\ MaxTexts \in Nat

VARIABLES
  grants,      \* transactions of shareCreate begun
  shares,      \* project_shares, by created_at
  events,      \* share_events, of a share
  artifacts,   \* the artifact of a project: its text, and whether it is retracted
  shareCall    \* the transaction of a request

shareVars == <<grants, shares, events, artifacts, shareCall>>

Projects == {1, 2}
Other(p) == 3 - p

NoShareCall == [at |-> "idle", kind |-> "none", source |-> 1, share |-> 0, held |-> {},
                copy |-> 0, regrant |-> FALSE]

SharesTypeOK ==
  /\ grants \in 0 .. MaxShares
  /\ DOMAIN shares \subseteq 1 .. grants
  /\ DOMAIN events = DOMAIN shares
  /\ \A s \in DOMAIN shares :
       /\ shares[s].source \in Projects
       /\ shares[s].copy \in 0 .. MaxTexts
       /\ shares[s].active \in BOOLEAN
       /\ events[s] \in {<<"grant">>, <<"regrant">>, <<"grant", "revoke">>,
                         <<"regrant", "revoke">>}
  /\ artifacts \in [Projects -> [text : 0 .. MaxTexts, gone : BOOLEAN]]
  /\ \A c \in ShareCalls :
       /\ shareCall[c].at \in {"idle", "lock", "snapshot", "prior", "insert", "revoke"}
       /\ shareCall[c].held \subseteq Projects

SharesInit ==
  /\ grants = 0
  /\ shares = [s \in {} |-> 0]
  /\ events = [s \in {} |-> 0]
  /\ artifacts = [p \in Projects |-> [text |-> 0, gone |-> FALSE]]
  /\ shareCall = [c \in ShareCalls |-> NoShareCall]

----------------------------------------------------------------------------
Active == {s \in DOMAIN shares : shares[s].active}
SharesFrom(p) == {s \in DOMAIN shares : shares[s].source = p}

\* shareCreate: the target's id is looked up without a lock.
BeginGrant(c) ==
  /\ shareCall[c].at = "idle"
  /\ grants < MaxShares
  /\ grants' = grants + 1
  /\ \E p \in Projects :
       shareCall' = [shareCall EXCEPT ![c] = [NoShareCall EXCEPT !.at = "lock", !.kind = "grant",
                                                !.source = p, !.share = grants']]
  /\ UNCHANGED <<shares, events, artifacts>>

\* shareRevoke: the share is looked up without a lock.
BeginRevoke(c) ==
  /\ shareCall[c].at = "idle"
  /\ \E s \in Active :
       shareCall' = [shareCall EXCEPT ![c] = [NoShareCall EXCEPT !.at = "lock", !.kind = "revoke",
                                                !.source = shares[s].source, !.share = s]]
  /\ UNCHANGED <<grants, shares, events, artifacts>>

\* Wrong on purpose: the source's row is locked first.
NextProjectUnsorted(c) ==
  IF shareCall[c].source \notin shareCall[c].held THEN shareCall[c].source
  ELSE Other(shareCall[c].source)

\* ORDER BY id FOR UPDATE.
NextProject(c) == Min(Projects \ shareCall[c].held)

ProjectHolders(p) == {d \in ShareCalls : p \in shareCall[d].held}

\* Wrong on purpose: the rows of the projects are read and not locked.
LockNoProject(c) ==
  /\ shareCall[c].at = "lock"
  /\ shareCall' = [shareCall EXCEPT
       ![c].at = IF shareCall[c].kind = "grant" THEN "snapshot" ELSE "revoke"]
  /\ UNCHANGED <<grants, shares, events, artifacts>>

LockProject(c) ==
  /\ shareCall[c].at = "lock"
  /\ ProjectHolders(NextProject(c)) = {}
  /\ shareCall' = [shareCall EXCEPT
       ![c].held = @ \cup {NextProject(c)},
       ![c].at = IF shareCall[c].held = {} THEN "lock"
                 ELSE IF shareCall[c].kind = "grant" THEN "snapshot" ELSE "revoke"]
  /\ UNCHANGED <<grants, shares, events, artifacts>>

\* buildSnapshot: SELECT .. FOR SHARE of the artifact; a tombstone is refused.
CopyArtifact(c) ==
  /\ shareCall[c].at = "snapshot"
  /\ ~artifacts[shareCall[c].source].gone
  /\ shareCall' = [shareCall EXCEPT ![c].at = "prior",
                                    ![c].copy = artifacts[shareCall[c].source].text]
  /\ UNCHANGED <<grants, shares, events, artifacts>>

\* Has the artifact been shared with the target before?
ReadPrior(c) ==
  /\ shareCall[c].at = "prior"
  /\ shareCall' = [shareCall EXCEPT
       ![c].at = "insert",
       ![c].regrant = \E s \in SharesFrom(shareCall[c].source) : ~shares[s].active]
  /\ UNCHANGED <<grants, shares, events, artifacts>>

\* Grant and event; project_shares_active_uniq refuses a second active grant.
InsertShare(c) ==
  /\ shareCall[c].at = "insert"
  /\ SharesFrom(shareCall[c].source) \cap Active = {}
  /\ LET id == shareCall[c].share
         row == [source |-> shareCall[c].source, copy |-> shareCall[c].copy, active |-> TRUE]
         event == IF shareCall[c].regrant THEN "regrant" ELSE "grant"
     IN /\ shares' = [s \in DOMAIN shares \cup {id} |-> IF s = id THEN row ELSE shares[s]]
        /\ events' = [s \in DOMAIN shares \cup {id} |-> IF s = id THEN <<event>> ELSE events[s]]
  /\ shareCall' = [shareCall EXCEPT ![c] = NoShareCall]
  /\ UNCHANGED <<grants, artifacts>>

\* The share is locked if it is still active; the change and its event.
CommitRevoke(c) ==
  /\ shareCall[c].at = "revoke"
  /\ shareCall[c].share \in Active
  /\ LET id == shareCall[c].share
     IN /\ shares' = [shares EXCEPT ![id].active = FALSE]
        /\ events' = [events EXCEPT ![id] = <<@[1], "revoke">>]
  /\ shareCall' = [shareCall EXCEPT ![c] = NoShareCall]
  /\ UNCHANGED <<grants, artifacts>>

\* A refusal, a conflict, a lost connection.
UndoShareCall(c) ==
  /\ shareCall[c].at # "idle"
  /\ shareCall' = [shareCall EXCEPT ![c] = NoShareCall]
  /\ UNCHANGED <<grants, shares, events, artifacts>>

\* Wrong on purpose: the artifact is copied without a lock on its row.
Unlocked(p) == TRUE

\* No grant has the artifact's row locked.
ArtifactFree(p) ==
  \A c \in ShareCalls : shareCall[c].source = p => shareCall[c].at \notin {"prior", "insert"}

\* The source project edits or retracts its artifact.
Touch(p) ==
  /\ ArtifactFree(p)
  /\ ~artifacts[p].gone
  /\ \/ artifacts[p].text < MaxTexts /\ artifacts' = [artifacts EXCEPT ![p].text = @ + 1]
     \/ artifacts' = [artifacts EXCEPT ![p].gone = TRUE]
  /\ UNCHANGED <<grants, shares, events, shareCall>>

SharesNext ==
  \/ \E c \in ShareCalls :
       \/ BeginGrant(c) \/ BeginRevoke(c) \/ LockProject(c) \/ CopyArtifact(c) \/ ReadPrior(c)
       \/ InsertShare(c) \/ CommitRevoke(c) \/ UndoShareCall(c)
  \/ \E p \in Projects : Touch(p)

SharesSpec == SharesInit /\ [][SharesNext]_shareVars

----------------------------------------------------------------------------
(* The audit trail tells the history of the grants: a share has a second      *)
(* event exactly when it is revoked, and its first one says "regrant" exactly *)
(* when it is not the first share of its artifact, whichever grants and       *)
(* revocations ran against each other (shareCreate, shareRevoke).             *)
TrailTellsGrants ==
  \A s \in DOMAIN shares :
    /\ shares[s].active <=> Len(events[s]) = 1
    /\ events[s][1] = "regrant" => Cardinality(SharesFrom(shares[s].source)) > 1
    /\ Cardinality({t \in SharesFrom(shares[s].source) : events[t][1] = "grant"}) = 1

(* A grant copies the artifact as it is when the grant commits, and never a   *)
(* retracted one (the row locks of buildSnapshot).                            *)
CopiesWhatStands ==
  [][\A s \in DOMAIN shares' \ DOMAIN shares :
       LET artifact == artifacts[shares'[s].source]
       IN ~artifact.gone /\ shares'[s].copy = artifact.text]_shareVars

\* The requests a request waits for.
ShareWaits(c) == IF shareCall[c].at = "lock" THEN ProjectHolders(NextProject(c)) ELSE {}

(* Grants and revocations in both directions between two projects never wait  *)
(* for one another in a circle ("preventing grant/revoke wait cycles").       *)
NoCircleOfShares ==
  ~\E S \in (SUBSET ShareCalls) \ {{}} : \A c \in S : ShareWaits(c) \cap S # {}
=============================================================================
