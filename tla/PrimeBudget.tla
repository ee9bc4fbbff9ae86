---------------------------- MODULE PrimeBudget ----------------------------
(***************************************************************************)
(* How the answer of mai_prime is shared out among its sources                *)
(* (src/src/prime-budget.ts): every source has a length it would like, a       *)
(* minimum that tells where to read the rest, and a floor it is meant to have; *)
(* what the sources leave of their shares when they are rendered is offered    *)
(* once more, in the order of their priority.                                   *)
(*                                                                         *)
(* Texts are their lengths.  A source is its number in PRIME_SOURCE_KEYS.       *)
(***************************************************************************)
EXTENDS Naturals, FiniteSets, Sequences, Functions

CONSTANTS
  Floors,      \* PRIME_SOURCE_FLOORS, in the order of PRIME_SOURCE_KEYS
  Recoveries,  \* length of a source's recovery sentence with its heading
  Demands,     \* lengths of complete sources
  Budgets      \* what the envelope leaves of the answer

Sources == DOMAIN Floors

ASSUME PrimeTyped ==
  /\ Floors \in Seq(Nat) /\ Recoveries \in [Sources -> Nat \ {0}]
  /\ Demands \subseteq Nat /\ Budgets \subseteq Nat /\ Budgets # {}

VARIABLES
  full,        \* length of the complete source; 0 is a source with nothing to say
  available,
  share,       \* what allocatePrimeBudget gives it
  fragment,    \* what it has rendered
  final,       \* what that may take
  pool,        \* what has not been taken
  rendering    \* the pass over the sources and the next source

primeVars == <<full, available, share, fragment, final, pool, rendering>>

PrimeTypeOK ==
  /\ full \in [Sources -> Demands \cup {0}]
  /\ available \in Budgets
  /\ {share, fragment, final} \subseteq [Sources -> Nat]
  /\ pool \in Nat
  /\ rendering \in [pass : {"none", "first", "second"}, source : 1 .. Len(Floors) + 1]

AllZero == [k \in Sources |-> 0]

PrimeInit ==
  /\ full = AllZero
  /\ available = CHOOSE b \in Budgets : TRUE
  /\ share = AllZero /\ fragment = AllZero /\ final = AllZero
  /\ pool = 0
  /\ rendering = [pass |-> "none", source |-> 1]

----------------------------------------------------------------------------
Lesser(a, b) == IF a < b THEN a ELSE b
Beyond(a, b) == IF a > b THEN a - b ELSE 0

\* A source shorter than its recovery sentence is its own minimum.
MinimumOf(f) == [k \in Sources |-> Lesser(f[k], Recoveries[k])]

\* What a source lacks, above its minimum, to the lesser of its floor and itself.
Targets(f) == [k \in Sources |-> Beyond(Lesser(Floors[k], f[k]), MinimumOf(f)[k])]

\* The targets, or what remains divided in their proportion: the parts left over
\* by the division go to the largest remainders.
Scaled(targets, remaining) ==
  LET total == SumFunction(targets)
      base == [k \in Sources |-> (targets[k] * remaining) \div total]
      rest == [k \in Sources |-> (targets[k] * remaining) % total]
      ahead(k) == {j \in Sources : rest[j] > rest[k] \/ (rest[j] = rest[k] /\ j < k)}
      left == remaining - SumFunction(base)
  IN IF total <= remaining THEN targets
     ELSE [k \in Sources |-> base[k] + IF Cardinality(ahead(k)) < left THEN 1 ELSE 0]

\* Minima, then targets, then what is left to the first that want more.
Allocated(f, room) ==
  LET minimum == MinimumOf(f)
      scaled == Scaled(Targets(f), room - SumFunction(minimum))
      given == [k \in Sources |-> Lesser(minimum[k] + scaled[k], f[k])]
      wants == [k \in Sources |-> f[k] - given[k]]
      capacity == room - SumFunction(given)
  IN [k \in Sources |-> given[k] + Lesser(wants[k], Beyond(capacity, SumFunctionOnSet(wants, 1 .. k - 1)))]

\* allocatePrimeBudget: "prime structural minimum exceeds available budget" is an
\* error, and there is no answer.
Allocate(f, room) ==
  /\ rendering.pass = "none"
  /\ SumFunction(MinimumOf(f)) <= room
  /\ full' = f
  /\ available' = room
  /\ share' = Allocated(f, room)
  /\ rendering' = [pass |-> "first", source |-> 1]
  /\ UNCHANGED <<fragment, final, pool>>

\* preparePrimeSource: the complete source if it fits, else a text between the
\* minimum and the budget.
Renders(k, budget) ==
  IF budget >= full[k] THEN {full[k]} ELSE MinimumOf(full)[k] .. budget

\* The next source, or the next pass, begins.
Turn(pass) ==
  /\ rendering.pass = pass /\ rendering.source \in Sources
  /\ rendering' = IF pass = "first" /\ rendering.source = Len(Floors)
                  THEN [pass |-> "second", source |-> 1]
                  ELSE [rendering EXCEPT !.source = @ + 1]

\* Wrong on purpose: a source keeps the share it has not filled.
Kept(k, length) == share[k]

\* "Release the actual residual before any grant: never baseline on shares."
Baseline(k, length) == length

\* Every source is rendered once, at its share.
RenderFirst ==
  LET k == rendering.source
  IN /\ Turn("first")
     /\ \E length \in Renders(k, share[k]) :
          /\ fragment' = [fragment EXCEPT ![k] = length]
          /\ final' = [final EXCEPT ![k] = Baseline(k, length)]
          /\ pool' = pool + share[k] - length
     /\ UNCHANGED <<full, available, share>>

\* What a shortened source is offered of the pool, if that gets it further than
\* its share did.
Grant(k) ==
  IF fragment[k] = full[k] \/ pool <= share[k] - fragment[k] THEN 0
  ELSE Lesser(pool, full[k] - fragment[k])

RenderAgain ==
  LET k == rendering.source
      offered == final[k] + Grant(k)
  IN /\ Turn("second")
     /\ Grant(k) > 0
     /\ \E length \in Renders(k, offered) : fragment' = [fragment EXCEPT ![k] = length]
     /\ final' = [final EXCEPT ![k] = offered]
     /\ pool' = pool - Grant(k)
     /\ UNCHANGED <<full, available, share>>

Pass ==
  /\ Turn("second")
  /\ Grant(rendering.source) = 0
  /\ UNCHANGED <<full, available, share, fragment, final, pool>>

PrimeNext ==
  \/ \E f \in [Sources -> Demands], room \in Budgets : Allocate(f, room)
  \/ RenderFirst \/ RenderAgain \/ Pass

PrimeSpec == PrimeInit /\ [][PrimeNext]_primeVars

----------------------------------------------------------------------------
\* "Integer shares conserve every available character": none is lost, none is
\* given twice, and a source is short of its floor only if there is no room for
\* every floor.
SharesConserve ==
  LET floor == [k \in Sources |-> MinimumOf(full)[k] + Targets(full)[k]]
  IN /\ SumFunction(share) = Lesser(available, SumFunction(full))
     /\ \A k \in Sources : share[k] \in MinimumOf(full)[k] .. full[k]
     /\ SumFunction(floor) <= available => \A k \in Sources : share[k] >= floor[k]

\* What has been rendered, what may still be and what is left to offer never
\* exceed the answer; a second attempt has more room than the first.
FragmentsFit ==
  LET done == {k \in Sources : rendering.pass = "second" \/ k < rendering.source}
      took == [k \in Sources |-> IF k \in done THEN final[k] ELSE share[k]]
  IN /\ SumFunction(took) + pool = SumFunction(share)
     /\ \A k \in done : /\ fragment[k] \in MinimumOf(full)[k] .. final[k]
                        /\ final[k] <= full[k]
                        /\ final[k] # fragment[k] => final[k] > share[k]

(* The characters of an answer are shared out to the last one, and the answer *)
(* never exceeds them, however short the sources render (allocatePrimeBudget, *)
(* renderPrimeAllocation).                                                     *)
PrimeFits == rendering.pass # "none" => SharesConserve /\ FragmentsFit
=============================================================================
