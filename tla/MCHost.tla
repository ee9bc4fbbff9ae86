------------------------------- MODULE MCHost -------------------------------
(***************************************************************************)
(* What else goes on on one host, for TLC: the graph watcher and writers, the *)
(* semantic index of the graph, the managed dashboard, and the cutting of     *)
(* answers to size.  They share no state, so the specification is their sum:  *)
(* a behaviour is one of one component, the others staying in their initial   *)
(* states, where none of their fair actions is enabled (the graph's in the one *)
(* of the two in which there is none).                                         *)
(***************************************************************************)
EXTENDS GraphWatch, SemanticIndex, Dashboard, PrimeBudget, ReadPages

\* Three sources: one with a high floor, one whose floor is its minimum.
MCFloors == <<4, 1, 2>>
MCRecoveries == <<2, 1, 1>>

Init == GraphInit /\ SemanticInit /\ DashInit /\ PrimeInit /\ PagesInit

Next ==
  \/ /\ SemanticInit /\ DashInit /\ PrimeInit /\ PagesInit
     /\ GraphNext
     /\ UNCHANGED <<semanticVars, dashVars, primeVars, pageVars>>
  \/ /\ GraphInit /\ ~built /\ DashInit /\ PrimeInit /\ PagesInit
     /\ SemanticNext
     /\ UNCHANGED <<graphVars, dashVars, primeVars, pageVars>>
  \/ /\ GraphInit /\ ~built /\ SemanticInit /\ PrimeInit /\ PagesInit
     /\ DashNext
     /\ UNCHANGED <<graphVars, semanticVars, primeVars, pageVars>>
  \/ /\ GraphInit /\ ~built /\ SemanticInit /\ DashInit /\ PagesInit
     /\ PrimeNext
     /\ UNCHANGED <<graphVars, semanticVars, dashVars, pageVars>>
  \/ /\ GraphInit /\ ~built /\ SemanticInit /\ DashInit /\ PrimeInit
     /\ PagesNext
     /\ UNCHANGED <<graphVars, semanticVars, dashVars, primeVars>>

Spec == /\ Init
        /\ [][Next]_<<graphVars, semanticVars, dashVars, primeVars, pageVars>>
        /\ GraphFairness /\ DashFairness

(* The states of every component have their types. *)
HostTypeOK ==
  GraphTypeOK /\ SemanticTypeOK /\ DashTypeOK /\ PrimeTypeOK /\ PagesTypeOK
=============================================================================
