----------------------------- MODULE ReadPages -----------------------------
(***************************************************************************)
(* Reading a long text in parts (budgetPage of src/src/read-budget.ts): every *)
(* page says which part to ask for next, and every request computes anew how  *)
(* the text is cut, from what the header of the page takes.  Here the text is *)
(* the synthesis of a review pass, which nothing changes, below the status    *)
(* and the finding counts of its plan, which others change (planText).        *)
(*                                                                         *)
(* Lengths are in characters; they are those of the code.                     *)
(***************************************************************************)
EXTENDS Naturals, Sequences, FiniteSets

CONSTANTS
  Bodies,        \* lengths of syntheses
  Headers,       \* lengths of the line that says which plan and pass this is
  Nudges,        \* lengths of what is appended to an answer; 0 is nothing
  MaxMoves       \* bound: changes of the header during one reading

ASSUME PageLengths ==
  /\ Bodies \subseteq Nat /\ Bodies # {} /\ Headers \subseteq Nat /\ Headers # {}
  /\ Nudges \subseteq Nat /\ MaxMoves \in Nat

VARIABLES
  body,      \* the text that is read
  header,    \* the length of the header now
  moves,     \* how often it has changed since the first page
  wanted,    \* the part the reader asks for next; 0 when it is told there is no more
  got,       \* the stretches of the text on the pages it has
  readingAt

pageVars == <<body, header, moves, wanted, got, readingAt>>

PagesTypeOK ==
  /\ body \in Bodies
  /\ header \in Headers
  /\ moves \in 0 .. MaxMoves
  /\ wanted \in Nat
  /\ got \in Seq([from : Nat, to : Nat, nudged : BOOLEAN])
  /\ readingAt \in {"idle", "reading", "done", "failed"}

PagesInit ==
  /\ body = CHOOSE n \in Bodies : TRUE
  /\ header = CHOOSE h \in Headers : TRUE
  /\ moves = 0
  /\ wanted = 0
  /\ got = <<>>
  /\ readingAt = "idle"

----------------------------------------------------------------------------
ReadCharBudget == 6000
NudgeReserve == 512
PageBudget == ReadCharBudget - NudgeReserve

Least(a, b) == IF a < b THEN a ELSE b

\* A string has less than 10^10 characters.
Powers == <<10, 100, 1000, 10000, 100000, 1000000, 10000000, 100000000, 1000000000>>
Digits(n) == 1 + Cardinality({k \in 1 .. 9 : Powers[k] <= n})
Parts(n, size) == IF n = 0 THEN 1 ELSE (n + size - 1) \div size

\* A longer header is cut ("metadata shortened").
Prefix(h) == Least(h, Least(1000, PageBudget \div 4))

\* The frame around the text (pageFrame and its end) and the blank lines.
Frame == 38 + 25 + 4

\* "_Review synthesis part 1/9; next: call mai_plan with pass:"1:2"._", of a pass below 10
Pointer(part, total) ==
  IF part < total THEN 62 + Digits(part) + Digits(total) + Digits(part + 1)
                  ELSE 36 + 2 * Digits(total)

\* Room for text on every page of total, if the longest pointer is needed.
Room(h, total) == PageBudget - Prefix(h) - Frame - (62 + 3 * Digits(total))

\* Wrong on purpose: the parts are counted before their number takes its room.
TotalOnce(h, n) == Parts(n, Room(h, 1))

\* Every try asks how many parts the room of the last one's number makes.
Tries(h, n) ==
  LET tried[try \in 0 .. 32] == IF try = 0 THEN 1 ELSE Parts(n, Room(h, tried[try - 1]))
  IN tried

\* How many parts there are: the number a try has confirmed, which all after it
\* confirm as well, if one of 32 has.
Total(h, n) == IF Tries(h, n)[32] = Tries(h, n)[31] THEN Tries(h, n)[32] ELSE 0

PageText(h, part, total, chars) == Prefix(h) + Frame + chars + Pointer(part, total)

\* compactNudge leaves room for its own blank line.
Delivered(text, nudge) == IF nudge = 0 THEN text ELSE text + 2 + Least(nudge, NudgeReserve - 2)

----------------------------------------------------------------------------
OpenReview(n, h) ==
  /\ readingAt = "idle"
  /\ body' = n
  /\ header' = h
  /\ wanted' = 1
  /\ readingAt' = "reading"
  /\ UNCHANGED <<moves, got>>

\* budgetPage: no such part, no number of parts, or a page that is too long is
\* an error; else the reader gets one stretch, and the number of the next part.
\* A nudge that does not fit below the page is left out (finalizeToolResult).
FetchPage(nudge) ==
  /\ readingAt = "reading"
  /\ LET total == Total(header, body)
         from == (wanted - 1) * Room(header, total)
         to == Least(from + Room(header, total), body)
         text == PageText(header, wanted, total, to - from)
     IN IF total = 0 \/ wanted > total \/ text > PageBudget
        THEN /\ readingAt' = "failed"
             /\ UNCHANGED <<wanted, got>>
        ELSE /\ got' = Append(got, [from |-> from, to |-> to,
                                    nudged |-> Delivered(text, nudge) <= ReadCharBudget])
             /\ wanted' = IF wanted < total THEN wanted + 1 ELSE 0
             /\ readingAt' = IF wanted < total THEN "reading" ELSE "done"
  /\ UNCHANGED <<body, header, moves>>

\* Another agent posts or closes a finding, or moves the plan on: the header is
\* one character longer or shorter.
HeaderMoves(h) ==
  /\ readingAt = "reading" /\ wanted > 1
  /\ moves < MaxMoves
  /\ h \in {header - 1, header + 1}
  /\ header' = h
  /\ moves' = moves + 1
  /\ UNCHANGED <<body, wanted, got, readingAt>>

PagesNext ==
  \/ \E n \in Bodies, h \in Headers : OpenReview(n, h)
  \/ \E nudge \in Nudges : FetchPage(nudge)
  \/ \E h \in Headers : HeaderMoves(h)

PagesSpec == PagesInit /\ [][PagesNext]_pageVars

----------------------------------------------------------------------------
\* The pages, one after the other, are the text: nothing is missing or twice.
Whole ==
  /\ got[1].from = 0
  /\ \A i \in 1 .. Len(got) - 1 : got[i + 1].from = got[i].to
  /\ got[Len(got)].to = body

(* While the header keeps its length every page is delivered, with its nudge, *)
(* and the pages together are the text, whatever its length: the number of     *)
(* parts is one that fits its own digits (budgetPage, finalizeToolResult).     *)
PagesReconstruct ==
  moves = 0 => /\ readingAt # "failed"
               /\ \A i \in DOMAIN got : got[i].nudged
               /\ readingAt = "done" => Whole

(* "Concatenating the framed body parts reproduces the synthesis              *)
(* byte-for-byte" (planText): a reader that followed the pointers to the end   *)
(* has the whole synthesis.                                                     *)
Reconstructed == readingAt = "done" => Whole
=============================================================================
