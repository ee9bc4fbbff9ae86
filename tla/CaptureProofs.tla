---------------------------- MODULE CaptureProofs ----------------------------
(***************************************************************************)
(* Proofs about Capture for any hooks, sweeps, lines and lengths of the       *)
(* transcript.                                                                *)
(*                                                                          *)
(* Unless ingests have overlapped one ingest runs at a time (Alone).  Between  *)
(* two segments, each entry before the place it has reached is in one row and  *)
(* the others are in none (Filed), whatever has been appended (FiledKept) and  *)
(* however the entries were divided into segments; when it is done, the last    *)
(* row has what was in the file when the ingest looked at it (Holds).  The     *)
(* watermark says the same of the file, unless the file is shorter than it     *)
(* says (Marked).                                                              *)
(***************************************************************************)
EXTENDS Capture, FiniteSetTheorems, WellFoundedInduction, TLAPS

TranscriptType ==
  [entries : Seq(Entry), torn : BOOLEAN, mtime : 0 .. MaxMtime, writes : 0 .. MaxWrites]

MarkType == [seq : Nat, start : Nat, mtime : Nat, size : Nat]

IngestType ==
  [at : {"idle", "lock", "recheck", "stat", "plan", "unmark", "read", "mark", "tidy"},
   mtime : Nat, size : Nat, seq : Nat, from : Nat, start : Nat]

\* No two entries have the same text, and a text to come is in no row.
Fresh ==
  /\ \A k \in 1 .. Len(transcript.entries) : transcript.entries[k].text <= transcript.writes
  /\ \A k, l \in 1 .. Len(transcript.entries) :
       transcript.entries[k].text = transcript.entries[l].text => k = l
  /\ \A s \in 0 .. MaxFile : \A t \in segments[s] : t <= transcript.writes

CaptureTables ==
  /\ transcript \in TranscriptType /\ Len(transcript.entries) <= MaxFile
  /\ transcript.torn => Len(transcript.entries) >= 1
  /\ segments \in [0 .. MaxFile -> SUBSET (1 .. MaxWrites)]
  /\ Fresh
  /\ mark \in MarkType /\ mark.start <= MaxFile /\ (mark = NoMark \/ mark.seq < mark.start)
  /\ sweeping \in Sweeps \cup {NoSweep}
  /\ ingest \in [Ingests -> IngestType]
  /\ \A i \in Ingests : /\ ingest[i].seq < ingest[i].start
                        /\ ingest[i].at = "mark" => ingest[i].start <= MaxFile
  /\ mishaps \in SUBSET Mishaps

Overlapped == "overlap" \in mishaps

\* One ingest at a time, unless one without the lock has run beside another.
Alone ==
  /\ \A i \in Sweeps : Ingesting(i) \/ ingest[i].at \in {"recheck", "stat"} => sweeping = i
  /\ ~Overlapped => \A i, j \in Ingests : Ingesting(i) /\ Ingesting(j) => i = j

----------------------------------------------------------------------------
\* The entries before p are each in one of the rows before s, the others in none.
Filed(es, rows, s, p) ==
  \A k \in 1 .. Len(es) :
    /\ k < p => \E r \in 0 .. s - 1 :
                  /\ es[k].text \in rows[r]
                  /\ \A q \in 0 .. s - 1 : es[k].text \in rows[q] => q = r
    /\ k >= p => \A r \in 0 .. s - 1 : es[k].text \notin rows[r]

\* Row s has the entries from p on that are within a size, and none before p.
Holds(es, rows, s, p, size) ==
  \A k \in 1 .. Len(es) :
    /\ k < p => es[k].text \notin rows[s]
    /\ k >= p /\ 2 * k <= size => es[k].text \in rows[s]

\* A time and a size of the file: what is older is within the size.
Looked(mtime, size) ==
  /\ mtime <= transcript.mtime
  /\ \A k \in 1 .. Len(Readable) : Readable[k].time < mtime => 2 * k <= size

Marked ==
  /\ Looked(mark.mtime, mark.size)
  /\ mark # NoMark /\ mishaps = {} /\ mark.size <= Size =>
       /\ mark.start <= Len(Readable) + 1
       /\ Filed(Readable, segments, mark.seq, mark.start)
       /\ TakenForDone => Holds(Readable, segments, mark.seq, mark.start, mark.size)

\* What an ingest has read is so.  One that goes on from the watermark has seen
\* a later file, and leaves the rows before the watermark alone.
Reads(i) ==
  LET R == ingest[i]
      Right == /\ R.start <= Len(Readable) + 1
               /\ Filed(Readable, segments, R.seq, R.start)
  IN /\ Ingesting(i) => Looked(R.mtime, R.size) /\ R.size <= Size
     /\ R.at \in {"plan", "unmark"} => R.seq = 0 /\ R.start = 1
     /\ R.at \in {"plan", "unmark"} /\ R.size < mark.size => Size < mark.size \/ mishaps # {}
     /\ R.at = "unmark" => R.size < mark.size
     /\ R.at \in {"read", "mark"} /\ i \notin Forced /\ mark # NoMark =>
          mark.mtime < R.mtime /\ mark.seq <= R.seq
     /\ (i \in Forced \/ mishaps = {}) /\ R.at = "read" => Right
     /\ (i \in Forced \/ mishaps = {}) /\ R.at = "mark" =>
          Right /\ Holds(Readable, segments, R.seq, R.start, R.size)
     /\ R.at = "tidy" => mark.seq = R.seq

CaptureInv ==
  CaptureTables /\ Alone /\ (~Overlapped => Marked /\ \A i \in Ingests : Reads(i))

----------------------------------------------------------------------------
\* Sets of numbers have ends.
LEMMA LeastNumber ==
  ASSUME NEW T \in SUBSET Nat, T # {}
  PROVE  \E x \in T : \A y \in T : x <= y
<1>1. PICK x \in T : \A y \in T : ~(<<y, x>> \in OpToRel(<, Nat))
  BY NatLessThanWellFounded, WFMin
<1>2. ASSUME NEW y \in T PROVE x <= y
  <2>1. ~(y < x)
    BY <1>1 DEF OpToRel
  <2> QED
    BY <2>1
<1> QED
  BY <1>2

\* A segment ends in the file.
LEMMA SegmentEnds ==
  ASSUME NEW es \in Seq(Entry), NEW from \in Nat, NEW start \in 1 .. Len(es)
  PROVE  SegmentEnd(es, from, start) \in start .. Len(es)
<1> DEFINE T == {j \in start .. Len(es) : \A k \in start + 1 .. j : ~Opens(es, from, start, k)}
           Down == {Len(es) - t : t \in T}
<1>1. start \in Nat /\ Len(es) \in Nat /\ start <= Len(es)
  OBVIOUS
<1>2. start \in T
  BY <1>1
<1> HIDE DEF T
<1>3. T \in SUBSET (start .. Len(es))
  BY DEF T
<1>4. Down \in SUBSET Nat /\ Len(es) - start \in Down
  BY <1>1, <1>2, <1>3
<1>5. PICK x \in Down : \A y \in Down : x <= y
  BY <1>4, LeastNumber
<1>6. PICK m \in T : x = Len(es) - m
  BY <1>5
<1>7. \A t \in T : m >= t
  <2>1. ASSUME NEW t \in T PROVE m >= t
    <3>1. Len(es) - m <= Len(es) - t
      BY <1>5, <1>6, <2>1
    <3>2. m \in Nat /\ t \in Nat
      BY <1>1, <1>3, <2>1
    <3> QED
      BY <1>1, <3>1, <3>2
  <2> QED
    BY <2>1
<1>8. SegmentEnd(es, from, start) \in T
  BY <1>6, <1>7 DEF SegmentEnd, Max, T
<1> QED
  BY <1>3, <1>8

\* A change of the file leaves the rows right: an entry is one that was there, or
\* its text is new.
LEMMA FiledKept ==
  ASSUME NEW es \in Seq(Entry), NEW fs \in Seq(Entry), NEW rows, NEW n \in Nat,
         NEW s \in Nat, NEW p \in Nat, p <= Len(es) + 1,
         \A r \in 0 .. s - 1 : \A t \in rows[r] : t \in Nat /\ t <= n,
         \A k \in 1 .. Len(fs) : \/ k \in 1 .. Len(es) /\ fs[k] = es[k]
                                 \/ k > Len(es) /\ fs[k].text > n,
         Filed(es, rows, s, p)
  PROVE  Filed(fs, rows, s, p)
<1>1. Len(es) \in Nat /\ Len(fs) \in Nat
  OBVIOUS
<1>2. ASSUME NEW k \in 1 .. Len(fs), k \in 1 .. Len(es), fs[k] = es[k]
      PROVE  /\ k < p => \E r \in 0 .. s - 1 :
                           /\ fs[k].text \in rows[r]
                           /\ \A q \in 0 .. s - 1 : fs[k].text \in rows[q] => q = r
             /\ k >= p => \A r \in 0 .. s - 1 : fs[k].text \notin rows[r]
  BY <1>2 DEF Filed
<1>3. ASSUME NEW k \in 1 .. Len(fs), k > Len(es), fs[k].text > n
      PROVE  ~(k < p) /\ \A r \in 0 .. s - 1 : fs[k].text \notin rows[r]
  <2>1. fs[k] \in Entry
    OBVIOUS
  <2>0. fs[k].text \in Nat
    BY <2>1, CaptureBounds DEF Entry
  <2>2. ~(k < p)
    BY <1>1, <1>3
  <2> QED
    BY <1>3, <2>0, <2>2
<1> QED
  BY <1>2, <1>3 DEF Filed

\* What the next segment adds to the rows.
LEMMA FiledNext ==
  ASSUME NEW es \in Seq(Entry), NEW rows \in [0 .. MaxFile -> SUBSET (1 .. MaxWrites)],
         \A k, l \in 1 .. Len(es) : es[k].text = es[l].text => k = l,
         NEW q \in 0 .. MaxFile, NEW p \in 1 .. Len(es), NEW to \in p .. Len(es), NEW size \in Nat,
         Filed(es, rows, q, p)
  PROVE  LET new == [rows EXCEPT ![q] = Texts(es, p, to)]
         IN /\ to < Len(es) => Filed(es, new, q + 1, to + 1)
            /\ to = Len(es) => Filed(es, new, q, p) /\ Holds(es, new, q, p, size)
<1> DEFINE new == [rows EXCEPT ![q] = Texts(es, p, to)]
<1>1. /\ q \in Nat /\ p \in Nat /\ to \in Nat /\ Len(es) \in Nat /\ MaxFile \in Nat /\ p <= to
      /\ to <= Len(es)
  BY CaptureBounds
<1>2. new[q] = Texts(es, p, to) /\ \A r \in 0 .. q - 1 : new[r] = rows[r]
  BY <1>1
<1> HIDE DEF new
<1>3. \A k \in 1 .. Len(es) : es[k].text \in new[q] <=> k \in p .. to
  BY <1>1, <1>2 DEF Texts
<1>4. Filed(es, new, q, p)
  BY <1>2 DEF Filed
<1>5. Filed(es, new, q + 1, to + 1)
  <2>0. 0 .. (q + 1) - 1 = 0 .. q /\ \A r \in 0 .. q : r = q \/ r \in 0 .. q - 1
    BY <1>1
  <2>1. ASSUME NEW k \in 1 .. Len(es), k < p
        PROVE  \E r \in 0 .. q : /\ es[k].text \in new[r]
                                 /\ \A u \in 0 .. q : es[k].text \in new[u] => u = r
    <3>1. PICK r \in 0 .. q - 1 : /\ es[k].text \in new[r]
                                  /\ \A u \in 0 .. q - 1 : es[k].text \in new[u] => u = r
      BY <1>4, <2>1 DEF Filed
    <3>2. es[k].text \notin new[q]
      BY <1>1, <1>3, <2>1
    <3>3. r \in 0 .. q
      BY <1>1
    <3> QED
      BY <2>0, <3>1, <3>2, <3>3
  <2>2. ASSUME NEW k \in 1 .. Len(es), k >= p
        PROVE  \A r \in 0 .. q - 1 : es[k].text \notin new[r]
    BY <1>4, <2>2 DEF Filed
  <2>3. ASSUME NEW k \in 1 .. Len(es), k >= p, k < to + 1
        PROVE  \E r \in 0 .. q : /\ es[k].text \in new[r]
                                 /\ \A u \in 0 .. q : es[k].text \in new[u] => u = r
    <3>1. es[k].text \in new[q] /\ q \in 0 .. q
      BY <1>1, <1>3, <2>3
    <3> QED
      BY <2>0, <2>2, <2>3, <3>1
  <2>4. ASSUME NEW k \in 1 .. Len(es), k >= to + 1
        PROVE  \A r \in 0 .. q : es[k].text \notin new[r]
    <3>1. es[k].text \notin new[q] /\ k >= p
      BY <1>1, <1>3, <2>4
    <3> QED
      BY <2>0, <2>2, <3>1
  <2>5. \A k \in 1 .. Len(es) : (k < p \/ k >= p) /\ (k < to + 1 => ~(k >= to + 1))
    BY <1>1
  <2> QED
    BY <2>0, <2>1, <2>3, <2>4, <2>5 DEF Filed
<1>6. to = Len(es) => Holds(es, new, q, p, size)
  BY <1>1, <1>3 DEF Holds
<1> QED
  BY <1>4, <1>5, <1>6 DEF new

----------------------------------------------------------------------------
\* What every proof below takes from the tables.
FileFacts ==
  /\ Size \in Nat /\ MaxFile \in Nat /\ MaxMtime \in Nat /\ MaxWrites \in Nat
  /\ transcript.entries \in Seq(Entry) /\ transcript.mtime \in Nat
  /\ transcript.writes \in Nat /\ Len(transcript.entries) \in Nat
  /\ Readable \in Seq(Entry) /\ Len(Readable) \in Nat
  /\ Len(Readable) <= Len(transcript.entries) /\ Len(transcript.entries) <= MaxFile
  /\ transcript.torn => /\ Len(Readable) = Len(transcript.entries) - 1
                        /\ Size = 2 * Len(transcript.entries) - 1
  /\ ~transcript.torn => Readable = transcript.entries /\ Size = 2 * Len(transcript.entries)
  /\ \A k \in 1 .. Len(Readable) : Readable[k] = transcript.entries[k]
  /\ \A k, l \in 1 .. Len(Readable) : Readable[k].text = Readable[l].text => k = l
  /\ \A k \in 1 .. Len(Readable) : Readable[k].text <= transcript.writes

\* They follow from the tables.
LEMMA CaptureFacts ==
  ASSUME CaptureTables
  PROVE  FileFacts
<1>1. /\ transcript.entries \in Seq(Entry) /\ transcript.mtime \in Nat /\ transcript.writes \in Nat
      /\ Len(transcript.entries) \in Nat /\ Len(transcript.entries) <= MaxFile
      /\ MaxFile \in Nat /\ MaxMtime \in Nat /\ MaxWrites \in Nat
      /\ transcript.torn \in BOOLEAN /\ (transcript.torn => Len(transcript.entries) >= 1)
  BY CaptureBounds DEF CaptureTables, TranscriptType
<1>2. /\ Size \in Nat
      /\ transcript.torn => Size = 2 * Len(transcript.entries) - 1
      /\ ~transcript.torn => Size = 2 * Len(transcript.entries)
  <2>1. CASE transcript.torn
    <3>1. Size = 2 * Len(transcript.entries) - 1
      BY <2>1 DEF Size, SizeOf
    <3> QED
      BY <1>1, <2>1, <3>1
  <2>2. CASE ~transcript.torn
    <3>1. Size = 2 * Len(transcript.entries) - 0
      BY <2>2 DEF Size, SizeOf
    <3> QED
      BY <1>1, <2>2, <3>1
  <2> QED
    BY <2>1, <2>2
<1>3. /\ Readable \in Seq(Entry) /\ Len(Readable) \in Nat
      /\ transcript.torn => Len(Readable) = Len(transcript.entries) - 1
      /\ ~transcript.torn => Len(Readable) = Len(transcript.entries)
      /\ \A k \in 1 .. Len(Readable) : Readable[k] = transcript.entries[k]
  <2>1. CASE transcript.torn
    <3>1. Readable = SubSeq(transcript.entries, 1, Len(transcript.entries) - 1)
      BY <2>1 DEF Readable, Front
    <3> QED
      BY <1>1, <2>1, <3>1
  <2>2. CASE ~transcript.torn
    BY <1>1, <2>2 DEF Readable
  <2> QED
    BY <2>1, <2>2
<1>4. /\ \A k, l \in 1 .. Len(Readable) : Readable[k].text = Readable[l].text => k = l
      /\ \A k \in 1 .. Len(Readable) : Readable[k].text <= transcript.writes
  <2>1. \A k \in 1 .. Len(Readable) : k \in 1 .. Len(transcript.entries)
    BY <1>1, <1>3
  <2> QED
    BY <1>3, <2>1 DEF CaptureTables, Fresh
<1>5. ~transcript.torn => Readable = transcript.entries
  BY DEF Readable
<1>6. Len(Readable) <= Len(transcript.entries)
  BY <1>1, <1>3
<1> QED
  BY <1>1, <1>2, <1>3, <1>4, <1>5, <1>6 DEF FileFacts

\* The invariant at the start.
LEMMA CaptureInitInv == CaptureInit => CaptureInv
<1> SUFFICES ASSUME CaptureInit PROVE CaptureInv
  OBVIOUS
<1>1. CaptureTables
  <2>1. /\ transcript \in TranscriptType /\ Len(transcript.entries) = 0
        /\ ~transcript.torn
    <3>1. <<>> \in Seq(Entry) /\ Len(<<>>) = 0
      OBVIOUS
    <3>2. 0 \in 0 .. MaxMtime /\ 0 \in 0 .. MaxWrites
      BY CaptureBounds
    <3> QED
      BY <3>1, <3>2 DEF CaptureInit, TranscriptType
  <2>2. /\ segments \in [0 .. MaxFile -> SUBSET (1 .. MaxWrites)]
        /\ \A s \in 0 .. MaxFile : segments[s] = {}
    BY DEF CaptureInit
  <2>3. mark \in MarkType /\ mark = NoMark /\ mark.start <= MaxFile
    BY CaptureBounds DEF CaptureInit, NoMark, MarkType
  <2>4. NotIngesting \in IngestType /\ NotIngesting.seq < NotIngesting.start
        /\ NotIngesting.at = "idle"
    BY DEF NotIngesting, IngestType
  <2>5. ingest \in [Ingests -> IngestType] /\ \A i \in Ingests : ingest[i] = NotIngesting
    BY <2>4 DEF CaptureInit
  <2>6. Fresh
    BY <2>1, <2>2 DEF Fresh
  <2> QED
    BY <2>1, <2>2, <2>3, <2>4, <2>5, <2>6, CaptureBounds DEF CaptureInit, CaptureTables
<1>2. Alone
  BY DEF CaptureInit, Alone, Ingesting, NotIngesting, Ingests
<1>3. Marked
  <2>1. mark = NoMark /\ mark.mtime = 0 /\ transcript.mtime = 0
    BY DEF CaptureInit, NoMark
  <2>2. Len(Readable) = 0
    BY <1>1, CaptureFacts DEF CaptureInit, FileFacts
  <2> QED
    BY <2>1, <2>2 DEF Marked, Looked
<1>4. \A i \in Ingests : Reads(i)
  BY DEF CaptureInit, Reads, Ingesting, NotIngesting
<1> QED
  BY <1>1, <1>2, <1>3, <1>4 DEF CaptureInv

\* What the watermark says, and what an ingest has read, while nothing changes.
LEMMA MarkedKept ==
  ASSUME Marked, UNCHANGED <<transcript, segments, mark, mishaps>>
  PROVE  Marked'
<1>1. Size' = Size /\ Readable' = Readable
  BY DEF Size, SizeOf, Readable
<1>2. TakenForDone' = TakenForDone
  BY <1>1 DEF TakenForDone
<1> QED
  BY <1>1, <1>2 DEF Marked, Looked

\* And what is said of an ingest that has not moved.
LEMMA ReadsKept ==
  ASSUME NEW i \in Ingests, Reads(i), UNCHANGED <<transcript, segments, mark, mishaps>>,
         ingest'[i] = ingest[i]
  PROVE  Reads(i)'
<1>1. Size' = Size /\ Readable' = Readable
  BY DEF Size, SizeOf, Readable
<1> QED
  BY <1>1 DEF Reads, Ingesting, Looked

\* Nothing is said of ingests that read nothing.
LEMMA ReadsNothing ==
  ASSUME NEW i \in Ingests, ~Ingesting(i)'
  PROVE  Reads(i)'
BY DEF Reads, Ingesting

\* An ingest ends and leaves everything as it is.
LEMMA EndsKeeps ==
  ASSUME CaptureTables, Alone, NEW i \in Ingests, Ends(i), Overlapped' = Overlapped
  PROVE  /\ Alone'
         /\ sweeping' \in Sweeps \cup {NoSweep} /\ ingest' \in [Ingests -> IngestType]
         /\ ~Ingesting(i)' /\ ingest'[i].at # "mark" /\ ingest'[i].seq < ingest'[i].start
         /\ \A j \in Ingests \ {i} : ingest'[j] = ingest[j]
<1>1. /\ ingest \in [Ingests -> IngestType] /\ sweeping \in Sweeps \cup {NoSweep}
      /\ NotIngesting \in IngestType
  BY DEF CaptureTables, NotIngesting, IngestType
<1>2. /\ ingest' \in [Ingests -> IngestType] /\ ingest'[i] = NotIngesting
      /\ \A j \in Ingests \ {i} : ingest'[j] = ingest[j]
  BY <1>1 DEF Ends
<1>4. ~Ingesting(i)' /\ ingest'[i].at = "idle" /\ ingest'[i].seq < ingest'[i].start
  BY <1>2 DEF Ingesting, NotIngesting
<1>5. \A j \in Ingests \ {i} : Ingesting(j)' <=> Ingesting(j)
  BY <1>2 DEF Ingesting
<1>6. Sweeps \subseteq Ingests
  BY DEF Ingests
<1>7. ASSUME NEW j \in Sweeps, Ingesting(j)' \/ ingest'[j].at \in {"recheck", "stat"}
      PROVE  sweeping' = j
  <2>1. j # i /\ sweeping = j
    BY <1>2, <1>4, <1>5, <1>6, <1>7 DEF Alone
  <2> QED
    BY <2>1 DEF Ends
<1> QED
  BY <1>1, <1>2, <1>4, <1>5, <1>7 DEF Alone, Ends

\* An ingest that does not start goes on, alone if it was.
LEMMA GoesOnAlone ==
  ASSUME CaptureTables, Alone, NEW i \in Ingests, Ingesting(i), UNCHANGED sweeping,
         Overlapped' = Overlapped,
         \A j \in Ingests \ {i} : ingest'[j] = ingest[j],
         ingest'[i].at \notin {"recheck", "stat"}
  PROVE  Alone' /\ (~Overlapped' => \A j \in Ingests \ {i} : ~Ingesting(j)')
<1>1. \A j \in Ingests \ {i} : Ingesting(j)' <=> Ingesting(j)
  BY DEF Ingesting
<1>2. Sweeps \subseteq Ingests
  BY DEF Ingests
<1> QED
  BY <1>1, <1>2 DEF Alone

----------------------------------------------------------------------------
\* What a change of the file leaves: an entry is one that was there, or a new one
\* that is behind the old size; and if the file is not shorter than the watermark
\* says it was not before either, or a mishap is recorded.
Changed ==
  /\ CaptureTables' /\ UNCHANGED <<segments, mark, sweeping, ingest>>
  /\ transcript.mtime <= transcript'.mtime /\ Overlapped' = Overlapped
  /\ \A k \in 1 .. Len(Readable') :
       \/ k \in 1 .. Len(Readable) /\ Readable'[k] = Readable[k]
       \/ /\ k > Len(Readable) /\ Readable'[k].text > transcript.writes
          /\ Readable'[k].time = transcript'.mtime /\ Size < 2 * k
  /\ mishaps' = {} => mishaps = {}
  /\ mark.size <= Size' /\ Size < mark.size => mishaps' # {}
  /\ mishaps' = {} /\ mark.size <= Size' =>
       (mark.start <= Len(Readable) + 1 => mark.start <= Len(Readable') + 1)

Grown == Size <= Size' /\ Len(Readable) <= Len(Readable')

\* The tables after a change, and the mishap it may be.
LEMMA PutFacts ==
  ASSUME CaptureTables, NEW es \in Seq(Entry), NEW torn \in BOOLEAN, NEW now \in Now, NEW writes \in Nat,
         Put(es, torn, now, writes), Len(es) <= MaxFile, torn => Len(es) >= 1,
         transcript.writes <= writes, writes <= MaxWrites,
         \A k \in 1 .. Len(es) : es[k].text <= writes,
         \A k, l \in 1 .. Len(es) : es[k].text = es[l].text => k = l
  PROVE  /\ CaptureTables' /\ UNCHANGED <<segments, mark, sweeping, ingest>>
         /\ transcript.mtime <= now /\ Overlapped' = Overlapped
         /\ transcript'.entries = es /\ transcript'.torn = torn /\ transcript'.mtime = now
         /\ mishaps' = {} => mishaps = {}
         /\ mark.size <= Size' /\ (Size < mark.size \/ Len(es) + 1 < mark.start) => mishaps' # {}
<1>1. /\ transcript \in TranscriptType /\ transcript.mtime \in Nat /\ MaxFile \in Nat
      /\ MaxWrites \in Nat /\ transcript.writes \in Nat
  BY CaptureFacts DEF CaptureTables, FileFacts
<1>2. now \in 0 .. MaxMtime /\ transcript.mtime <= now
  BY <1>1 DEF Now
<1>3. /\ transcript' = [entries |-> es, torn |-> torn, mtime |-> now, writes |-> writes]
      /\ mishaps' = IF Unnoticed(es, torn) THEN mishaps \cup {"unnoticed"} ELSE mishaps
      /\ UNCHANGED <<segments, mark, sweeping, ingest>>
  BY DEF Put
<1>4. transcript' \in TranscriptType /\ transcript'.writes = writes
  BY <1>1, <1>2, <1>3 DEF TranscriptType
<1>5. Fresh'
  <2>1. \A s \in 0 .. MaxFile : \A t \in segments[s] : t \in Nat /\ t <= transcript.writes
    BY <1>1 DEF CaptureTables, Fresh
  <2>2. \A s \in 0 .. MaxFile : \A t \in segments'[s] : t <= transcript'.writes
    BY <1>1, <1>3, <1>4, <2>1
  <2> QED
    BY <1>3, <2>2 DEF Fresh
<1>6. mishaps' \in SUBSET Mishaps /\ Overlapped' = Overlapped
  BY <1>3 DEF CaptureTables, Mishaps, Overlapped
<1>7. CaptureTables'
  BY <1>3, <1>4, <1>5, <1>6 DEF CaptureTables
<1>8. SizeOf(es, torn) = Size'
  BY <1>3 DEF Size, SizeOf
<1>9. mark.size <= Size' /\ (Size < mark.size \/ Len(es) + 1 < mark.start) => mishaps' # {}
  BY <1>3, <1>8 DEF Unnoticed
<1> QED
  BY <1>2, <1>3, <1>6, <1>7, <1>8, <1>9

\* The file grows: the harness writes an entry, or the rest of one.
LEMMA FileGrows ==
  ASSUME CaptureTables, NEW line \in Lines, NEW torn \in BOOLEAN, ~(transcript.torn /\ torn),
         Len(Readable) < MaxFile, AppendTo(Readable, line, torn)
  PROVE  Changed /\ Grown
<1> DEFINE w == transcript.writes + 1
<1>1. PICK now \in Now :
        Put(Append(Readable, [line |-> line, text |-> w, time |-> now]), torn, now, w)
  BY DEF AppendTo
<1> DEFINE new == [line |-> line, text |-> w, time |-> now]
           es == Append(Readable, new)
<1>2. /\ Readable \in Seq(Entry) /\ Len(Readable) \in Nat /\ MaxFile \in Nat
      /\ transcript.writes \in Nat /\ w \in Nat /\ w <= MaxWrites /\ MaxWrites \in Nat
      /\ \A k, l \in 1 .. Len(Readable) : Readable[k].text = Readable[l].text => k = l
      /\ \A k \in 1 .. Len(Readable) : Readable[k].text <= transcript.writes
  BY CaptureFacts DEF AppendTo, FileFacts
<1>13. /\ Size \in Nat /\ Size <= 2 * Len(Readable) + 1
       /\ ~transcript.torn => Size = 2 * Len(Readable)
  BY CaptureFacts DEF FileFacts
<1>3. new \in Entry /\ new.text = w /\ new.time = now
  BY <1>2 DEF Entry, Now
<1> HIDE DEF new
<1>4. /\ es \in Seq(Entry) /\ Len(es) = Len(Readable) + 1 /\ es[Len(Readable) + 1] = new
      /\ \A k \in 1 .. Len(Readable) : es[k] = Readable[k]
  BY <1>2, <1>3
<1> HIDE DEF es
<1>5. \A k \in 1 .. Len(es) : \/ k \in 1 .. Len(Readable) /\ es[k] = Readable[k]
                              \/ k = Len(Readable) + 1 /\ es[k] = new
  BY <1>2, <1>4
<1>6. \A k \in 1 .. Len(Readable) : Readable[k].text \in Nat /\ Readable[k].text < w
  <2>1. \A k \in 1 .. Len(Readable) : Readable[k] \in Entry
    BY <1>2
  <2> QED
    BY <1>2, <2>1 DEF Entry
<1>7. /\ \A k \in 1 .. Len(es) : es[k].text <= w
      /\ \A k, l \in 1 .. Len(es) : es[k].text = es[l].text => k = l
  <2> HIDE DEF w
  <2>1. \A k \in 1 .. Len(es) : es[k].text <= w
    BY <1>2, <1>3, <1>5, <1>6
  <2>2. ASSUME NEW k \in 1 .. Len(es), NEW l \in 1 .. Len(es), es[k].text = es[l].text
        PROVE  k = l
    <3>1. CASE k \in 1 .. Len(Readable) /\ es[k] = Readable[k]
      <4>0. es[k].text \in Nat /\ es[k].text < w
        BY <1>6, <3>1
      <4>1. es[l].text # w
        BY <2>2, <4>0
      <4>2. l \in 1 .. Len(Readable) /\ es[l] = Readable[l]
        BY <1>3, <1>5, <4>1
      <4> QED
        BY <1>2, <2>2, <3>1, <4>2
    <3>2. CASE k = Len(Readable) + 1 /\ es[k] = new
      <4>1. es[l].text = w
        BY <1>3, <2>2, <3>2
      <4>2. ~(l \in 1 .. Len(Readable) /\ es[l] = Readable[l])
        BY <1>2, <1>6, <4>1
      <4> QED
        BY <1>5, <3>2, <4>2
    <3> QED
      BY <1>5, <3>1, <3>2
  <2> QED
    BY <2>1, <2>2
<1>8. /\ CaptureTables' /\ UNCHANGED <<segments, mark, sweeping, ingest>>
      /\ transcript.mtime <= now /\ Overlapped' = Overlapped
      /\ transcript'.entries = es /\ transcript'.torn = torn /\ transcript'.mtime = now
      /\ mishaps' = {} => mishaps = {}
      /\ mark.size <= Size' /\ (Size < mark.size \/ Len(es) + 1 < mark.start) => mishaps' # {}
  <2>1. Len(es) <= MaxFile /\ Len(es) >= 1 /\ transcript.writes <= w
    BY <1>2, <1>4
  <2>2. Put(es, torn, now, w)
    BY <1>1 DEF es, new
  <2> HIDE DEF w
  <2> QED
    BY <1>2, <1>4, <1>7, <2>1, <2>2, PutFacts
<1>9. /\ Len(Readable') \in Nat /\ Size' \in Nat
      /\ torn => Len(Readable') = Len(Readable) /\ Size' = 2 * Len(Readable) + 1
      /\ ~torn => Len(Readable') = Len(Readable) + 1 /\ Size' = 2 * Len(Readable) + 2
      /\ \A k \in 1 .. Len(Readable') : Readable'[k] = es[k]
  <2>1. FileFacts'
    BY <1>8, CaptureFacts, PTL
  <2>2. /\ Len(Readable') \in Nat /\ Size' \in Nat
        /\ torn => Len(Readable') = Len(es) - 1 /\ Size' = 2 * Len(es) - 1
        /\ ~torn => Len(Readable') = Len(es) /\ Size' = 2 * Len(es)
        /\ \A k \in 1 .. Len(Readable') : Readable'[k] = es[k]
    BY <1>8, <2>1 DEF FileFacts
  <2> QED
    BY <1>2, <1>4, <2>2
<1>10. Grown
  <2>1. Len(Readable) <= Len(Readable')
    BY <1>2, <1>9
  <2>2. Size <= Size'
    BY <1>2, <1>9, <1>13
  <2> QED
    BY <2>1, <2>2 DEF Grown
<1>11. ASSUME NEW k \in 1 .. Len(Readable')
       PROVE  \/ k \in 1 .. Len(Readable) /\ Readable'[k] = Readable[k]
              \/ /\ k > Len(Readable) /\ Readable'[k].text > transcript.writes
                 /\ Readable'[k].time = transcript'.mtime /\ Size < 2 * k
  <2>1. k \in 1 .. Len(es) /\ Readable'[k] = es[k] /\ k \in Nat
    BY <1>2, <1>4, <1>9
  <2>2. ASSUME k = Len(Readable) + 1, es[k] = new
        PROVE  /\ k > Len(Readable) /\ Readable'[k].text > transcript.writes
               /\ Readable'[k].time = transcript'.mtime /\ Size < 2 * k
    <3>2. Size < 2 * k
      BY <1>2, <1>13, <2>2
    <3> QED
      BY <1>2, <1>3, <1>8, <2>1, <2>2, <3>2
  <2> QED
    BY <1>5, <2>1, <2>2
<1>12. mark.start <= Len(Readable) + 1 => mark.start <= Len(Readable') + 1
  <2>1. mark.start \in Nat
    BY DEF CaptureTables, MarkType
  <2> QED
    BY <1>2, <1>9, <2>1
<1> QED
  BY <1>8, <1>10, <1>11, <1>12 DEF Changed

\* The file is cut.
LEMMA FileCut ==
  ASSUME CaptureTables, CutFile
  PROVE  Changed /\ \A i \in Ingests : ingest[i].at = "idle"
<1>1. /\ transcript.entries \in Seq(Entry) /\ Len(transcript.entries) \in Nat
      /\ Len(transcript.entries) <= MaxFile /\ MaxFile \in Nat /\ transcript.writes \in Nat
      /\ Readable \in Seq(Entry) /\ Len(Readable) \in Nat
      /\ Len(Readable) >= Len(transcript.entries) - 1
      /\ \A k \in 1 .. Len(Readable) : Readable[k] = transcript.entries[k]
  BY CaptureFacts DEF FileFacts
<1>2. PICK n \in 0 .. Len(transcript.entries) - 1, now \in Now :
        Put(SubSeq(transcript.entries, 1, n), FALSE, now, transcript.writes)
  BY DEF CutFile
<1> DEFINE es == SubSeq(transcript.entries, 1, n)
<1>3. es \in Seq(Entry) /\ Len(es) = n /\ \A k \in 1 .. n : es[k] = transcript.entries[k]
  BY <1>1
<1>4. n \in Nat /\ n <= Len(Readable) /\ \A k \in 1 .. n : es[k] = Readable[k]
  BY <1>1, <1>3
<1> HIDE DEF es
<1>5. /\ \A k \in 1 .. Len(es) : es[k].text <= transcript.writes
      /\ \A k, l \in 1 .. Len(es) : es[k].text = es[l].text => k = l
  <2>1. \A k \in 1 .. n : k \in 1 .. Len(transcript.entries)
    BY <1>1
  <2> QED
    BY <1>3, <2>1 DEF CaptureTables, Fresh
<1>6. /\ CaptureTables' /\ UNCHANGED <<segments, mark, sweeping, ingest>>
      /\ transcript.mtime <= now /\ Overlapped' = Overlapped
      /\ transcript'.entries = es /\ transcript'.torn = FALSE /\ transcript'.mtime = now
      /\ mishaps' = {} => mishaps = {}
      /\ mark.size <= Size' /\ (Size < mark.size \/ Len(es) + 1 < mark.start) => mishaps' # {}
  <2>1. Put(es, FALSE, now, transcript.writes)
    BY <1>2 DEF es
  <2>2. Len(es) <= MaxFile /\ transcript.writes <= MaxWrites
    BY <1>1, <1>3, CaptureBounds DEF CaptureTables, TranscriptType
  <2> QED
    <3>1. FALSE \in BOOLEAN /\ transcript.writes <= transcript.writes
      BY <1>1
    <3> QED
      BY <1>1, <1>3, <1>5, <2>1, <2>2, <3>1, PutFacts
<1>7. Readable' = es
  BY <1>6 DEF Readable
<1>8. \A k \in 1 .. Len(Readable') : k \in 1 .. Len(Readable) /\ Readable'[k] = Readable[k]
  BY <1>1, <1>3, <1>4, <1>7
<1>9. mishaps' = {} /\ mark.size <= Size' => mark.start <= Len(Readable') + 1
  <2>1. mark.start \in Nat
    BY DEF CaptureTables, MarkType
  <2> QED
    BY <1>3, <1>4, <1>6, <1>7, <2>1
<1> QED
  BY <1>6, <1>8, <1>9 DEF Changed, CutFile

\* Its time and size stay what they were.
LEMMA LookedKept ==
  ASSUME CaptureTables, Changed, NEW mtime \in Nat, NEW size \in Nat, Looked(mtime, size)
  PROVE  Looked(mtime, size)'
<1>1. /\ transcript.mtime \in Nat /\ transcript'.mtime \in Nat /\ Readable' \in Seq(Entry)
      /\ transcript.mtime <= transcript'.mtime
  <2>1. FileFacts'
    BY CaptureFacts, PTL DEF Changed
  <2> QED
    BY <2>1, CaptureFacts DEF Changed, Entry, FileFacts
<1>2. mtime <= transcript.mtime
  BY DEF Looked
<1>3. ASSUME NEW k \in 1 .. Len(Readable'), Readable'[k].time < mtime
      PROVE  2 * k <= size
  <2>1. Readable'[k].time # transcript'.mtime
    BY <1>1, <1>2, <1>3
  <2>2. k \in 1 .. Len(Readable) /\ Readable'[k] = Readable[k]
    BY <1>3, <2>1 DEF Changed
  <2> QED
    BY <1>3, <2>2 DEF Looked
<1> QED
  BY <1>1, <1>2, <1>3 DEF Looked

\* And so do the rows.
LEMMA RowsKept ==
  ASSUME CaptureTables, Changed, NEW s \in Nat, NEW p \in Nat, NEW size \in Nat, s < p, p <= MaxFile + 1,
         p <= Len(Readable) + 1
  PROVE  /\ Filed(Readable, segments, s, p) => Filed(Readable, segments, s, p)'
         /\ Holds(Readable, segments, s, p, size) /\ size <= Size /\ s <= MaxFile =>
              Holds(Readable, segments, s, p, size)'
<1>1. /\ Readable \in Seq(Entry) /\ Len(Readable) \in Nat /\ Size \in Nat /\ MaxFile \in Nat
      /\ transcript.writes \in Nat /\ MaxWrites \in Nat
  BY CaptureFacts DEF FileFacts
<1>2. Readable' \in Seq(Entry) /\ Len(Readable') \in Nat
  <2>1. FileFacts'
    BY CaptureFacts, PTL DEF Changed
  <2> QED
    BY <2>1 DEF Entry, FileFacts
<1>3. /\ segments' = segments
      /\ \A k \in 1 .. Len(Readable') :
           \/ k \in 1 .. Len(Readable) /\ Readable'[k] = Readable[k]
           \/ k > Len(Readable) /\ Readable'[k].text > transcript.writes /\ Size < 2 * k
  BY DEF Changed
<1>4. \A r \in 0 .. MaxFile : \A t \in segments[r] : t \in Nat /\ t <= transcript.writes
  BY <1>1 DEF CaptureTables, Fresh
<1>5. ASSUME Filed(Readable, segments, s, p) PROVE Filed(Readable', segments, s, p)
  <2>1. \A r \in 0 .. s - 1 : r \in 0 .. MaxFile
    BY <1>1
  <2>2. \A r \in 0 .. s - 1 : \A t \in segments[r] : t \in Nat /\ t <= transcript.writes
    BY <1>4, <2>1
  <2>3. \A k \in 1 .. Len(Readable') : \/ k \in 1 .. Len(Readable) /\ Readable'[k] = Readable[k]
                                       \/ k > Len(Readable) /\ Readable'[k].text > transcript.writes
    BY <1>3
  <2> QED
    BY <1>1, <1>2, <1>5, <2>2, <2>3, FiledKept
<1>6. ASSUME Holds(Readable, segments, s, p, size), size <= Size, s <= MaxFile
      PROVE  Holds(Readable', segments, s, p, size)
  <2>1. ASSUME NEW k \in 1 .. Len(Readable')
        PROVE  /\ k < p => Readable'[k].text \notin segments[s]
               /\ k >= p /\ 2 * k <= size => Readable'[k].text \in segments[s]
    <3>1. CASE k \in 1 .. Len(Readable) /\ Readable'[k] = Readable[k]
      BY <1>6, <3>1 DEF Holds
    <3>2. CASE k > Len(Readable) /\ Readable'[k].text > transcript.writes /\ Size < 2 * k
      BY <1>1, <1>2, <1>6, <3>2
    <3> QED
      BY <1>3, <3>1, <3>2
  <2> QED
    BY <2>1 DEF Holds
<1> QED
  BY <1>3, <1>5, <1>6

\* The invariant when the file changes.
LEMMA ChangeInv ==
  ASSUME CaptureInv, Changed, Grown \/ \A i \in Ingests : ingest[i].at = "idle"
  PROVE  CaptureInv'
<1>1. /\ CaptureTables /\ CaptureTables' /\ UNCHANGED <<segments, mark, sweeping, ingest>>
      /\ Overlapped' = Overlapped /\ mark \in MarkType /\ ingest \in [Ingests -> IngestType]
      /\ mark.seq \in Nat /\ mark.start \in Nat /\ mark.mtime \in Nat /\ mark.size \in Nat
      /\ mark.start <= MaxFile /\ (mark = NoMark \/ mark.seq < mark.start) /\ MaxFile \in Nat
  BY CaptureBounds DEF CaptureInv, Changed, CaptureTables, MarkType
<1>2. Alone'
  BY <1>1 DEF CaptureInv, Alone, Ingesting
<1>3. /\ Size \in Nat /\ Size' \in Nat /\ Len(Readable) \in Nat /\ Len(Readable') \in Nat
      /\ transcript.mtime \in Nat /\ transcript'.mtime \in Nat
      /\ transcript.mtime <= transcript'.mtime
  <2>1. FileFacts'
    BY <1>1, CaptureFacts, PTL
  <2> QED
    BY <1>1, <2>1, CaptureFacts DEF Changed, FileFacts
<1> SUFFICES ASSUME ~Overlapped, Marked, \A i \in Ingests : Reads(i)
             PROVE  Marked' /\ \A i \in Ingests : Reads(i)'
  BY <1>1, <1>2 DEF CaptureInv
<1>4. Marked'
  <2>1. Looked(mark.mtime, mark.size)'
    BY <1>1, LookedKept DEF Marked
  <2>2. ASSUME mark # NoMark, mishaps' = {}, mark.size <= Size'
        PROVE  /\ mark.start <= Len(Readable') + 1
               /\ Filed(Readable, segments, mark.seq, mark.start)'
               /\ TakenForDone' => Holds(Readable, segments, mark.seq, mark.start, mark.size)'
    <3>1. mishaps = {} /\ mark.size <= Size
      BY <1>1, <1>3, <2>2 DEF Changed
    <3>2. /\ mark.start <= Len(Readable) + 1 /\ Filed(Readable, segments, mark.seq, mark.start)
          /\ TakenForDone => Holds(Readable, segments, mark.seq, mark.start, mark.size)
      BY <2>2, <3>1 DEF Marked
    <3>3. mark.start <= Len(Readable') + 1
      BY <2>2, <3>2 DEF Changed
    <3>4. TakenForDone' => TakenForDone
      BY <1>1, <1>3, <3>1 DEF TakenForDone
    <3>5. mark.seq < mark.start /\ mark.start <= MaxFile + 1 /\ mark.seq <= MaxFile
      BY <1>1, <2>2
    <3> QED
      BY <1>1, <3>1, <3>2, <3>3, <3>4, <3>5, RowsKept
  <2> QED
    BY <1>1, <2>1, <2>2 DEF Marked
<1>5. ASSUME NEW i \in Ingests PROVE Reads(i)'
  <2>1. CASE ingest[i].at = "idle"
    BY <1>1, <2>1, ReadsNothing DEF Ingesting
  <2>2. CASE ingest[i].at # "idle" /\ Grown
    <3> DEFINE R == ingest[i]
    <3>1. /\ R \in IngestType /\ ingest'[i] = R /\ Reads(i)
          /\ R.start \in Nat /\ R.seq \in Nat /\ R.mtime \in Nat /\ R.size \in Nat
          /\ R.seq < R.start
      BY <1>1, <1>5 DEF IngestType, CaptureTables
    <3>2. Size <= Size' /\ Len(Readable) <= Len(Readable')
      BY <2>2 DEF Grown
    <3>3. Ingesting(i)' <=> Ingesting(i)
      BY <3>1 DEF Ingesting
    <3>4. Ingesting(i) => Looked(R.mtime, R.size) /\ R.size <= Size
      BY <3>1 DEF Reads
    <3>5. R.at \in {"plan", "unmark"} /\ R.size < mark.size => Size < mark.size \/ mishaps # {}
      BY <3>1 DEF Reads
    <3>6. (i \in Forced \/ mishaps = {}) /\ R.at \in {"read", "mark"} =>
            R.start <= Len(Readable) + 1 /\ Filed(Readable, segments, R.seq, R.start)
      BY <3>1 DEF Reads
    <3>7. (i \in Forced \/ mishaps = {}) /\ R.at = "mark" =>
            Holds(Readable, segments, R.seq, R.start, R.size)
      BY <3>1 DEF Reads
    <3>8. R.at = "mark" => R.size <= Size /\ R.start <= MaxFile
      BY <1>1, <3>4 DEF Ingesting, CaptureTables
    <3>9. mishaps' = {} => mishaps = {}
      BY DEF Changed
    <3>10. Len(Readable) <= MaxFile
      BY <1>1, CaptureFacts DEF FileFacts
    <3>11. UNCHANGED <<mark, segments>>
      BY <1>1
    <3> HIDE DEF R
    <3>12. Ingesting(i) => Looked(R.mtime, R.size)' /\ R.size <= Size'
      <4>1. (Ingesting(i) => Looked(R.mtime, R.size)) => (Ingesting(i) => (Looked(R.mtime, R.size))')
        <5>1. \A m, s \in Nat : Looked(m, s) => Looked(m, s)'
          BY <1>1, LookedKept
        <5>2. R' = R
          BY <1>1 DEF R
        <5> QED
          BY <3>1, <5>1, <5>2
      <4> QED
        BY <1>3, <3>1, <3>2, <3>4, <4>1
    <3>13. R.at \in {"plan", "unmark"} /\ R.size < mark.size => Size' < mark.size \/ mishaps' # {}
      BY <1>1, <1>3, <3>5, <3>9 DEF Changed
    <3>14. (i \in Forced \/ mishaps' = {}) /\ R.at \in {"read", "mark"} =>
             R.start <= Len(Readable') + 1 /\ Filed(Readable', segments, R.seq, R.start)
      <4>1. \A s, p \in Nat : /\ s < p /\ p <= MaxFile + 1 /\ p <= Len(Readable) + 1
                              /\ Filed(Readable, segments, s, p)
                              => Filed(Readable', segments, s, p)
        <5>1. 0 \in Nat
          OBVIOUS
        <5> QED
          BY <1>1, <3>11, <5>1, RowsKept
      <4>2. R.start <= Len(Readable) + 1 => R.start <= Len(Readable') + 1 /\ R.start <= MaxFile + 1
        BY <1>1, <1>3, <3>1, <3>2, <3>10
      <4> QED
        BY <3>1, <3>6, <3>9, <4>1, <4>2
    <3>15. (i \in Forced \/ mishaps' = {}) /\ R.at = "mark" =>
             Holds(Readable', segments, R.seq, R.start, R.size)
      <4>1. \A s, p, z \in Nat : /\ s < p /\ p <= MaxFile + 1 /\ p <= Len(Readable) + 1
                                 /\ Holds(Readable, segments, s, p, z) /\ z <= Size /\ s <= MaxFile
                                 => Holds(Readable', segments, s, p, z)
        BY <1>1, <3>11, RowsKept
      <4>2. R.at = "mark" => R.seq <= MaxFile /\ R.start <= MaxFile + 1
        BY <1>1, <3>1, <3>8
      <4> QED
        BY <3>1, <3>6, <3>7, <3>8, <3>9, <4>1, <4>2
    <3>16. /\ R.at \in {"plan", "unmark"} => R.seq = 0 /\ R.start = 1
           /\ R.at = "unmark" => R.size < mark.size
           /\ R.at \in {"read", "mark"} /\ i \notin Forced /\ mark # NoMark =>
                mark.mtime < R.mtime /\ mark.seq <= R.seq
           /\ R.at = "tidy" => mark.seq = R.seq
      BY <3>1 DEF Reads, R
    <3>17. R' = R
      BY <1>1 DEF R
    <3> QED
      BY <3>1, <3>3, <3>11, <3>12, <3>13, <3>14, <3>15, <3>16, <3>17 DEF Reads, R
  <2> QED
    BY <2>1, <2>2
<1> QED
  BY <1>4, <1>5

\* The harness's steps.
LEMMA FileInv ==
  ASSUME CaptureInv, (\E torn \in BOOLEAN : WriteEntry(torn)) \/ CompleteEntry \/ CutFile
  PROVE  CaptureInv'
<1>1. /\ CaptureTables /\ Len(transcript.entries) <= MaxFile /\ Len(transcript.entries) \in Nat
      /\ transcript.entries \in Seq(Entry)
      /\ transcript.torn => Len(Readable) = Len(transcript.entries) - 1
      /\ MaxFile \in Nat
  BY CaptureFacts DEF CaptureInv, FileFacts
<1>2. ASSUME NEW torn \in BOOLEAN, WriteEntry(torn) PROVE CaptureInv'
  <2>1. ~transcript.torn /\ Readable = transcript.entries /\ Len(transcript.entries) < MaxFile
    BY <1>2 DEF WriteEntry, Readable
  <2>2. PICK line \in Lines : AppendTo(Readable, line, torn)
    BY <1>2, <2>1 DEF WriteEntry
  <2> QED
    BY <1>1, <2>1, <2>2, FileGrows, ChangeInv
<1>3. CASE CompleteEntry
  <2>1. transcript.torn /\ Len(transcript.entries) >= 1
    BY <1>1, <1>3 DEF CompleteEntry, CaptureTables
  <2>2. Last(transcript.entries).line \in Lines
    <3>1. transcript.entries[Len(transcript.entries)] \in Entry
      BY <1>1, <2>1
    <3> QED
      BY <3>1 DEF Last, Entry
  <2>3. AppendTo(Readable, Last(transcript.entries).line, FALSE)
    BY <1>3 DEF CompleteEntry
  <2>4. Len(Readable) < MaxFile
    BY <1>1, <2>1
  <2>5. FALSE \in BOOLEAN /\ ~(transcript.torn /\ FALSE)
    OBVIOUS
  <2> QED
    BY <1>1, <2>2, <2>3, <2>4, <2>5, FileGrows, ChangeInv
<1>4. CASE CutFile
  BY <1>1, <1>4, FileCut, ChangeInv
<1> QED
  BY <1>2, <1>3, <1>4

----------------------------------------------------------------------------
\* An ingest that changes no row and no watermark, and reads nothing.
LEMMA IdleInv ==
  ASSUME CaptureInv, NEW i \in Ingests, UNCHANGED <<transcript, segments, mark, mishaps>>,
         ingest' \in [Ingests -> IngestType], sweeping' \in Sweeps \cup {NoSweep}, Alone',
         ~Ingesting(i)', ingest'[i].seq < ingest'[i].start,
         \A j \in Ingests \ {i} : ingest'[j] = ingest[j]
  PROVE  CaptureInv'
<1>1. CaptureTables'
  BY DEF CaptureInv, CaptureTables, Ingesting, Fresh
<1>2. ASSUME ~Overlapped' PROVE Marked' /\ \A j \in Ingests : Reads(j)'
  <2>1. ~Overlapped
    BY <1>2 DEF Overlapped
  <2>2. Marked'
    BY <2>1, MarkedKept DEF CaptureInv
  <2>3. ASSUME NEW j \in Ingests PROVE Reads(j)'
    <3>1. CASE j = i
      BY <3>1, ReadsNothing
    <3>2. CASE j # i
      BY <2>1, <3>2, ReadsKept DEF CaptureInv
    <3> QED
      BY <3>1, <3>2
  <2> QED
    BY <2>2, <2>3
<1> QED
  BY <1>1, <1>2 DEF CaptureInv

\* Ingests that find nothing, and those that die.
LEMMA EndsInv ==
  ASSUME CaptureInv, NEW i \in Ingests, Ends(i), UNCHANGED <<transcript, segments, mark, mishaps>>
  PROVE  CaptureInv'
<1>1. Overlapped' = Overlapped
  BY DEF Overlapped
<1> QED
  BY <1>1, EndsKeeps, IdleInv DEF CaptureInv

\* A sweep before its ingest.
LEMMA SweepInv ==
  ASSUME CaptureInv, NEW i \in Sweeps, ConsiderSweep(i) \/ LockSweep(i) \/ RecheckSweep(i)
  PROVE  CaptureInv'
<1>1. /\ i \in Ingests /\ CaptureTables /\ Alone /\ ingest[i] \in IngestType
      /\ ingest \in [Ingests -> IngestType] /\ transcript.mtime \in Nat
      /\ ingest[i].seq < ingest[i].start /\ sweeping \in Sweeps \cup {NoSweep}
      /\ Sweeps \subseteq Ingests /\ NoSweep \notin Sweeps
  BY CaptureFacts, CaptureCallers DEF CaptureInv, CaptureTables, Ingests, NoSweep, FileFacts
<1>2. CASE Ends(i) /\ UNCHANGED <<transcript, segments, mark, mishaps>>
  BY <1>1, <1>2, EndsInv
<1>3. ASSUME ~(Ends(i) /\ UNCHANGED <<transcript, segments, mark, mishaps>>) PROVE CaptureInv'
  <2>1. /\ UNCHANGED <<transcript, segments, mark, mishaps>>
        /\ \A j \in Ingests \ {i} : ingest'[j] = ingest[j]
        /\ ingest' \in [Ingests -> IngestType]
        /\ ingest'[i].seq = ingest[i].seq /\ ingest'[i].start = ingest[i].start
        /\ \/ ingest'[i].at = "lock" /\ ingest[i].at = "idle" /\ UNCHANGED sweeping
           \/ ingest'[i].at = "recheck" /\ sweeping = NoSweep /\ sweeping' = i
           \/ ingest'[i].at = "stat" /\ ingest[i].at = "recheck" /\ UNCHANGED sweeping
    <3>1. CASE ConsiderSweep(i)
      <4>1. [ingest[i] EXCEPT !.at = "lock", !.mtime = transcript.mtime] \in IngestType
        BY <1>1 DEF IngestType
      <4>2. ingest' = [ingest EXCEPT ![i] = [ingest[i] EXCEPT !.at = "lock", !.mtime = transcript.mtime]]
        BY <1>1, <3>1 DEF ConsiderSweep
      <4> QED
        BY <1>1, <3>1, <4>1, <4>2 DEF ConsiderSweep, IngestType
    <3>2. ASSUME NEW at \in {"recheck", "stat"}, ingest' = Goto(i, at)
          PROVE  /\ \A j \in Ingests \ {i} : ingest'[j] = ingest[j]
                 /\ ingest' \in [Ingests -> IngestType] /\ ingest'[i].at = at
                 /\ ingest'[i].seq = ingest[i].seq /\ ingest'[i].start = ingest[i].start
      <4>1. [ingest[i] EXCEPT !.at = at] \in IngestType
        BY <1>1, <3>2 DEF IngestType
      <4>2. ingest' = [ingest EXCEPT ![i] = [ingest[i] EXCEPT !.at = at]]
        BY <1>1, <3>2 DEF Goto
      <4> QED
        BY <1>1, <3>2, <4>1, <4>2 DEF IngestType
    <3>3. CASE LockSweep(i)
      BY <1>3, <3>2, <3>3 DEF LockSweep, MayIngest
    <3>4. CASE RecheckSweep(i)
      BY <1>3, <3>2, <3>4 DEF RecheckSweep
    <3> QED
      BY <3>1, <3>3, <3>4
  <2>2. ~Ingesting(i)' /\ \A j \in Ingests \ {i} : Ingesting(j)' <=> Ingesting(j)
    BY <2>1 DEF Ingesting
  <2>3. ASSUME NEW j \in Sweeps, Ingesting(j)' \/ ingest'[j].at \in {"recheck", "stat"}
        PROVE  sweeping' = j
    BY <1>1, <2>1, <2>2, <2>3 DEF Alone
  <2>4. Alone'
    BY <1>1, <2>1, <2>2, <2>3 DEF Alone, Overlapped
  <2>5. sweeping' \in Sweeps \cup {NoSweep}
    BY <1>1, <2>1
  <2> QED
    BY <1>1, <2>1, <2>2, <2>4, <2>5, IdleInv
<1> QED
  BY <1>2, <1>3

----------------------------------------------------------------------------
\* What an action of an ingest takes from the invariant, and what it has to show:
\* its own part, since unless ingests overlap no other one is under way.
LEMMA IngestFacts ==
  ASSUME CaptureInv, NEW i \in Ingests
  PROVE  /\ CaptureTables /\ Alone
         /\ ingest \in [Ingests -> IngestType] /\ ingest[i] \in IngestType
         /\ ingest[i].seq \in Nat /\ ingest[i].from \in Nat
         /\ ingest[i].start \in Nat /\ ingest[i].start >= 1
         /\ ingest[i].mtime \in Nat /\ ingest[i].size \in Nat
         /\ ingest[i].seq < ingest[i].start
         /\ mark \in MarkType /\ mark.seq \in Nat /\ mark.start \in Nat
         /\ mark.mtime \in Nat /\ mark.size \in Nat /\ mark.start <= MaxFile
         /\ mark = NoMark \/ mark.seq < mark.start
         /\ transcript \in TranscriptType
         /\ mishaps \in SUBSET Mishaps
         /\ segments \in [0 .. MaxFile -> SUBSET (1 .. MaxWrites)]
         /\ FileFacts
<1>1. /\ CaptureTables /\ Alone /\ FileFacts
      /\ ingest \in [Ingests -> IngestType] /\ ingest[i] \in IngestType
      /\ ingest[i].seq < ingest[i].start /\ mark \in MarkType
  BY CaptureFacts DEF CaptureInv, CaptureTables
<1>2. /\ mark.start <= MaxFile /\ (mark = NoMark \/ mark.seq < mark.start)
      /\ transcript \in TranscriptType /\ mishaps \in SUBSET Mishaps
      /\ segments \in [0 .. MaxFile -> SUBSET (1 .. MaxWrites)]
  BY DEF CaptureInv, CaptureTables
<1>3. /\ ingest[i].seq \in Nat /\ ingest[i].from \in Nat /\ ingest[i].start \in Nat
      /\ ingest[i].mtime \in Nat /\ ingest[i].size \in Nat
  BY <1>1 DEF IngestType
<1>4. mark.seq \in Nat /\ mark.start \in Nat /\ mark.mtime \in Nat /\ mark.size \in Nat
  BY <1>1 DEF MarkType
<1>5. ingest[i].start >= 1
  BY <1>1, <1>3
<1> QED
  BY <1>1, <1>2, <1>3, <1>4, <1>5

\* A step of an ingest between its look at the file and its end.
LEMMA IngestStep ==
  ASSUME CaptureInv, NEW i \in Ingests, Ingesting(i), UNCHANGED <<transcript, sweeping>>,
         NEW R \in IngestType, ingest' = [ingest EXCEPT ![i] = R],
         R.at \notin {"recheck", "stat"},
         R.seq < R.start, R.at = "mark" => R.start <= MaxFile,
         segments' \in [0 .. MaxFile -> SUBSET (1 .. MaxWrites)],
         \A s \in 0 .. MaxFile : \A t \in segments'[s] : t <= transcript.writes,
         mark' \in MarkType, mark'.start <= MaxFile, mark' = NoMark \/ mark'.seq < mark'.start,
         mishaps' \in SUBSET Mishaps, Overlapped' = Overlapped,
         ~Overlapped => Marked' /\ Reads(i)'
  PROVE  CaptureInv'
<1>1. /\ ingest' \in [Ingests -> IngestType] /\ ingest'[i] = R
      /\ \A j \in Ingests \ {i} : ingest'[j] = ingest[j]
  BY IngestFacts
<1>2. CaptureTables'
  BY <1>1 DEF CaptureInv, CaptureTables, Fresh
<1>3. Alone' /\ (~Overlapped' => \A j \in Ingests \ {i} : ~Ingesting(j)')
  BY <1>1, GoesOnAlone DEF CaptureInv
<1>4. ~Overlapped' => \A j \in Ingests : Reads(j)'
  BY <1>3, ReadsNothing
<1> QED
  BY <1>2, <1>3, <1>4 DEF CaptureInv

\* The rows as they are.
LEMMA RowsFresh ==
  ASSUME CaptureInv
  PROVE  \A s \in 0 .. MaxFile : \A t \in segments[s] : t <= transcript.writes
BY DEF CaptureInv, CaptureTables, Fresh

\* What an ingest has looked at stays what it was while the file stays.
LEMMA LookedStays ==
  ASSUME NEW i \in Ingests, UNCHANGED transcript,
         ingest'[i].mtime = ingest[i].mtime, ingest'[i].size = ingest[i].size,
         Looked(ingest[i].mtime, ingest[i].size)
  PROVE  Looked(ingest[i].mtime, ingest[i].size)'
BY DEF Looked, Readable

\* An ingest begins.
LEMMA StatInv ==
  ASSUME CaptureInv, NEW i \in Ingests, Stat(i)
  PROVE  CaptureInv'
<1>1. /\ CaptureTables /\ Alone /\ Size \in Nat /\ transcript.mtime \in Nat
      /\ ingest \in [Ingests -> IngestType] /\ mark \in MarkType /\ mark.size \in Nat
      /\ Readable \in Seq(Entry) /\ Len(Readable) \in Nat
      /\ \A k \in 1 .. Len(Readable) : 2 * k <= Size
  <2>1. \A k \in 1 .. Len(Readable) : 2 * k <= Size
    BY IngestFacts DEF FileFacts, CaptureTables, TranscriptType
  <2> QED
    BY <2>1, IngestFacts DEF FileFacts
<1> DEFINE R == [NotIngesting EXCEPT !.at = "plan", !.mtime = transcript.mtime, !.size = Size]
<1>2. /\ R \in IngestType /\ R.seq = 0 /\ R.start = 1 /\ R.at = "plan"
      /\ R.mtime = transcript.mtime /\ R.size = Size
  BY <1>1 DEF NotIngesting, IngestType
<1> HIDE DEF R
<1>3. /\ ingest' \in [Ingests -> IngestType] /\ ingest'[i] = R
      /\ \A j \in Ingests \ {i} : ingest'[j] = ingest[j]
      /\ UNCHANGED <<transcript, segments, mark, sweeping>>
  BY <1>1, <1>2 DEF Stat, R
<1>0. /\ mishaps' \in SUBSET Mishaps
      /\ ~Overlapped' => ~Overlapped /\ UNCHANGED mishaps
      /\ ~Overlapped' => ~\E j \in Ingests \ {i} : Ingesting(j) /\ {i, j} \cap Hooks # {}
  BY <1>1 DEF Stat, CaptureTables, Mishaps, Overlapped
<1>4. CaptureTables'
  <2>1. Fresh'
    BY <1>1, <1>3 DEF CaptureTables, Fresh
  <2> QED
    BY <1>0, <1>1, <1>2, <1>3, <2>1 DEF CaptureTables
<1>5. \A j \in Ingests \ {i} : Ingesting(j)' <=> Ingesting(j)
  BY <1>3 DEF Ingesting
<1>6. Alone'
  <2>1. Sweeps \subseteq Ingests /\ Ingests = Hooks \cup Sweeps
    BY DEF Ingests
  <2>2. ASSUME NEW j \in Sweeps, Ingesting(j)' \/ ingest'[j].at \in {"recheck", "stat"}
        PROVE  sweeping' = j
    BY <1>1, <1>3, <1>5, <2>1, <2>2 DEF Alone, Stat
  <2>3. ASSUME ~Overlapped', NEW j \in Ingests \ {i}, Ingesting(j)' PROVE FALSE
    <3>1. Ingesting(j) /\ {i, j} \cap Hooks = {}
      BY <1>0, <1>5, <2>3
    <3>2. i \in Sweeps /\ j \in Sweeps /\ ingest[i].at = "stat"
      BY <2>1, <3>1 DEF Stat
    <3>3. i = j
      BY <1>1, <3>1, <3>2 DEF Alone
    <3> QED
      BY <2>3, <3>3
  <2>4. ~Overlapped' => ~Overlapped
    BY <1>0
  <2> QED
    BY <1>1, <1>5, <2>2, <2>3, <2>4 DEF Alone
<1>7. ASSUME ~Overlapped' PROVE Marked' /\ \A j \in Ingests : Reads(j)'
  <2>1. ~Overlapped /\ Marked /\ (\A j \in Ingests : Reads(j)) /\ UNCHANGED mishaps
    BY <1>0, <1>7 DEF CaptureInv
  <2>2. Marked'
    BY <1>3, <2>1, MarkedKept
  <2>3. ASSUME NEW j \in Ingests \ {i} PROVE Reads(j)'
    BY <1>3, <2>1, <2>3, ReadsKept
  <2>4. Size' = Size /\ Readable' = Readable
    BY <1>3 DEF Size, SizeOf, Readable
  <2>5. Looked(ingest[i].mtime, ingest[i].size)'
    BY <1>1, <1>2, <1>3, <2>4 DEF Looked
  <2>6. Reads(i)'
    <3>1. Size <= Size
      BY <1>1
    <3> QED
      BY <1>1, <1>2, <1>3, <2>4, <2>5, <3>1 DEF Reads
  <2> QED
    BY <2>2, <2>3, <2>6
<1> QED
  BY <1>4, <1>6, <1>7 DEF CaptureInv

\* Where to read from.
LEMMA PlanInv ==
  ASSUME CaptureInv, NEW i \in Ingests, Plan(i)
  PROVE  CaptureInv'
<1>1. /\ CaptureTables /\ ingest \in [Ingests -> IngestType] /\ ingest[i] \in IngestType
      /\ ingest[i].mtime \in Nat /\ ingest[i].size \in Nat
      /\ ingest[i].seq \in Nat /\ ingest[i].start \in Nat /\ ingest[i].seq < ingest[i].start
      /\ mark \in MarkType /\ mark.seq \in Nat /\ mark.start \in Nat /\ mark.size \in Nat
      /\ Size \in Nat /\ Len(Readable) \in Nat
      /\ ingest[i].at = "plan" /\ Ingesting(i) /\ UNCHANGED <<transcript, mark, mishaps>>
      /\ mark.start <= MaxFile /\ (mark = NoMark \/ mark.seq < mark.start)
      /\ segments \in [0 .. MaxFile -> SUBSET (1 .. MaxWrites)]
      /\ mishaps \in SUBSET Mishaps
  BY IngestFacts DEF Plan, Ingesting, FileFacts
<1>2. Size' = Size /\ Readable' = Readable /\ Overlapped' = Overlapped
  BY <1>1 DEF Size, SizeOf, Readable, Overlapped
<1>3. ~Overlapped => /\ Marked /\ Looked(ingest[i].mtime, ingest[i].size)
                     /\ ingest[i].size <= Size /\ ingest[i].seq = 0 /\ ingest[i].start = 1
                     /\ (ingest[i].size < mark.size => Size < mark.size \/ mishaps # {})
  BY <1>1 DEF CaptureInv, Reads
<1>9. \A m, z : Looked(m, z) => Looked(m, z)'
  BY <1>1, <1>2 DEF Looked
<1>4. CASE /\ i \in Forced \/ mark = NoMark
           /\ ingest' = Goto(i, "read") /\ UNCHANGED <<segments, sweeping>>
  <2> DEFINE R == [ingest[i] EXCEPT !.at = "read"]
  <2>1. /\ R \in IngestType /\ R.at = "read" /\ R.seq = ingest[i].seq /\ R.start = ingest[i].start
        /\ R.mtime = ingest[i].mtime /\ R.size = ingest[i].size
    BY <1>1 DEF IngestType
  <2>2. ingest' = [ingest EXCEPT ![i] = R]
    BY <1>1, <1>4 DEF Goto
  <2> HIDE DEF R
  <2>3. ASSUME ~Overlapped PROVE Marked' /\ Reads(i)'
    <3>1. Marked'
      BY <1>1, <1>3, <1>4, <2>3, MarkedKept
    <3>2. Filed(Readable, segments, 0, 1)' /\ 1 <= Len(Readable) + 1
      BY <1>1 DEF Filed
    <3>3. ingest'[i] = R
      BY <1>1, <2>2
    <3>4. Looked(ingest[i].mtime, ingest[i].size)'
      BY <1>1, <1>3, <2>1, <2>3, <3>3, LookedStays
    <3> QED
      BY <1>1, <1>2, <1>3, <1>4, <2>1, <2>3, <3>1, <3>2, <3>3, <3>4 DEF Reads
  <2> QED
    BY <1>1, <1>2, <1>4, <2>1, <2>2, <2>3, RowsFresh, IngestStep
<1>5. CASE /\ Shrunk(i) /\ segments' = [s \in 0 .. MaxFile |-> {}] /\ ingest' = Goto(i, "unmark")
           /\ UNCHANGED sweeping
  <2> DEFINE R == [ingest[i] EXCEPT !.at = "unmark"]
  <2>1. /\ R \in IngestType /\ R.at = "unmark" /\ R.seq = ingest[i].seq /\ R.start = ingest[i].start
        /\ R.mtime = ingest[i].mtime /\ R.size = ingest[i].size
    BY <1>1 DEF IngestType
  <2>2. ingest' = [ingest EXCEPT ![i] = R]
    BY <1>1, <1>5 DEF Goto
  <2> HIDE DEF R
  <2>5. ingest[i].size < mark.size
    BY <1>1, <1>5 DEF Shrunk
  <2>3. ASSUME ~Overlapped PROVE Marked' /\ Reads(i)'
    <3>1. ~(mishaps = {} /\ mark.size <= Size)
      BY <1>1, <1>3, <2>3, <2>5
    <3>2. Marked'
      BY <1>1, <1>2, <1>3, <1>9, <2>3, <3>1 DEF Marked
    <3>3. ingest'[i] = R
      BY <1>1, <2>2
    <3>4. Looked(ingest[i].mtime, ingest[i].size)'
      BY <1>1, <1>3, <2>1, <2>3, <3>3, LookedStays
    <3> QED
      BY <1>1, <1>2, <1>3, <2>1, <2>3, <2>5, <3>2, <3>3, <3>4 DEF Reads
  <2>4. /\ segments' \in [0 .. MaxFile -> SUBSET (1 .. MaxWrites)]
        /\ \A s \in 0 .. MaxFile : \A t \in segments'[s] : t <= transcript.writes
    BY <1>5
  <2> QED
    BY <1>1, <1>2, <1>5, <2>1, <2>2, <2>3, <2>4, IngestStep
<1>6. CASE /\ i \notin Forced /\ mark # NoMark /\ ~Shrunk(i) /\ mark.mtime < ingest[i].mtime
           /\ ingest' = [ingest EXCEPT ![i].at = "read", ![i].seq = mark.seq,
                                       ![i].from = mark.start, ![i].start = mark.start]
           /\ UNCHANGED <<segments, sweeping>>
  <2> DEFINE R == [ingest[i] EXCEPT !.at = "read", !.seq = mark.seq, !.from = mark.start,
                                    !.start = mark.start]
  <2>1. /\ R \in IngestType /\ R.at = "read" /\ R.seq = mark.seq /\ R.start = mark.start
        /\ R.mtime = ingest[i].mtime /\ R.size = ingest[i].size
    BY <1>1 DEF IngestType
  <2>2. ingest' = [ingest EXCEPT ![i] = R]
    BY <1>1, <1>6
  <2> HIDE DEF R
  <2>3. ASSUME ~Overlapped PROVE Marked' /\ Reads(i)'
    <3>1. Marked'
      BY <1>1, <1>3, <1>6, <2>3, MarkedKept
    <3>2. ingest'[i] = R
      BY <1>1, <2>2
    <3>3. mark.size <= Size
      BY <1>1, <1>3, <1>6, <2>3 DEF Shrunk
    <3>4. mishaps = {} => /\ mark.start <= Len(Readable) + 1
                          /\ Filed(Readable, segments, mark.seq, mark.start)
      BY <1>3, <1>6, <2>3, <3>3 DEF Marked
    <3>5. mishaps' = {} => /\ R.start <= Len(Readable') + 1
                           /\ Filed(Readable', segments', R.seq, R.start)
      BY <1>1, <1>2, <1>6, <2>1, <3>4
    <3>6. Looked(ingest[i].mtime, ingest[i].size)'
      BY <1>1, <1>3, <2>1, <2>3, <3>2, LookedStays
    <3>7. mark'.seq <= R.seq /\ mark'.mtime < R.mtime
      BY <1>1, <1>6, <2>1
    <3> QED
      BY <1>1, <1>2, <1>3, <1>6, <2>1, <2>3, <3>1, <3>2, <3>5, <3>6, <3>7 DEF Reads
  <2> QED
    BY <1>1, <1>2, <1>6, <2>1, <2>2, <2>3, RowsFresh, IngestStep
<1>7. CASE Ends(i) /\ UNCHANGED segments
  BY <1>1, <1>7, EndsInv
<1> QED
  BY <1>4, <1>5, <1>6, <1>7 DEF Plan

\* After a file was found shorter.
LEMMA UnmarkInv ==
  ASSUME CaptureInv, NEW i \in Ingests, Unmark(i)
  PROVE  CaptureInv'
<1>1. /\ CaptureTables /\ ingest \in [Ingests -> IngestType] /\ ingest[i] \in IngestType
      /\ ingest[i].mtime \in Nat /\ ingest[i].size \in Nat
      /\ ingest[i].seq \in Nat /\ ingest[i].start \in Nat /\ ingest[i].seq < ingest[i].start
      /\ Size \in Nat /\ transcript.mtime \in Nat /\ Len(Readable) \in Nat /\ MaxFile \in Nat
      /\ Readable \in Seq(Entry)
      /\ ingest[i].at = "unmark" /\ Ingesting(i) /\ UNCHANGED <<transcript, segments, sweeping>>
      /\ segments \in [0 .. MaxFile -> SUBSET (1 .. MaxWrites)]
      /\ mark' = NoMark /\ mishaps' = mishaps \cap {"overlap"} /\ mishaps \in SUBSET Mishaps
  BY IngestFacts DEF Unmark, Ingesting, FileFacts
<1>2. Overlapped' = Overlapped /\ mishaps' \in SUBSET Mishaps
  BY <1>1 DEF Overlapped
<1>3. Size' = Size /\ Readable' = Readable
  BY <1>1 DEF Size, SizeOf, Readable
<1> DEFINE R == [ingest[i] EXCEPT !.at = "read"]
<1>4. /\ R \in IngestType /\ R.at = "read" /\ R.seq = ingest[i].seq /\ R.start = ingest[i].start
      /\ R.mtime = ingest[i].mtime /\ R.size = ingest[i].size
  BY <1>1 DEF IngestType
<1>5. ingest' = [ingest EXCEPT ![i] = R]
  BY <1>1 DEF Unmark, Goto
<1> HIDE DEF R
<1>6. ingest'[i] = R
  BY <1>1, <1>5
<1>7. ASSUME ~Overlapped PROVE Marked' /\ Reads(i)'
  <2>1. /\ Looked(ingest[i].mtime, ingest[i].size) /\ ingest[i].size <= Size
        /\ ingest[i].seq = 0 /\ ingest[i].start = 1
    BY <1>1, <1>7 DEF CaptureInv, Reads
  <2>2. Marked'
    <3>1. \A k \in 1 .. Len(Readable) : ~(Readable[k].time < 0)
      <4>1. \A k \in 1 .. Len(Readable) : Readable[k] \in Entry
        BY <1>1
      <4> QED
        BY <4>1, CaptureBounds DEF Entry
    <3>2. Looked(0, 0)'
      BY <1>1, <1>3, <3>1 DEF Looked
    <3> QED
      BY <1>1, <3>2 DEF Marked, NoMark
  <2>3. Filed(Readable, segments, 0, 1)' /\ 1 <= Len(Readable) + 1
    BY <1>1 DEF Filed
  <2>4. Looked(ingest[i].mtime, ingest[i].size)'
    BY <1>1, <1>4, <1>6, <2>1, LookedStays
  <2> QED
    BY <1>1, <1>3, <1>4, <1>6, <2>1, <2>2, <2>3, <2>4 DEF Reads
<1>8. mark' \in MarkType /\ mark'.start <= MaxFile
  BY <1>1 DEF NoMark, MarkType
<1> QED
  BY <1>1, <1>2, <1>4, <1>5, <1>7, <1>8, RowsFresh, IngestStep

\* A segment is written: it is what it should be, whatever else was written.
LEMMA PersistInv ==
  ASSUME CaptureInv, NEW i \in Ingests, PersistOne(i)
  PROVE  CaptureInv'
<1>0. PICK p \in Nat, q \in Nat, f \in Nat :
        ingest[i].start = p /\ ingest[i].seq = q /\ ingest[i].from = f
  BY IngestFacts
<1> DEFINE to == SegmentEnd(Readable, f, p)
<1>1. /\ CaptureTables /\ ingest \in [Ingests -> IngestType] /\ ingest[i] \in IngestType
      /\ ingest[i].mtime \in Nat /\ ingest[i].size \in Nat /\ q < p
      /\ MaxFile \in Nat /\ transcript.mtime \in Nat
      /\ ingest[i].at = "read" /\ Ingesting(i)
      /\ UNCHANGED <<transcript, mark, sweeping>>
      /\ mark \in MarkType /\ mark.seq \in Nat /\ mark.mtime \in Nat
      /\ mark.start <= MaxFile /\ (mark = NoMark \/ mark.seq < mark.start)
      /\ segments \in [0 .. MaxFile -> SUBSET (1 .. MaxWrites)]
      /\ Readable \in Seq(Entry) /\ Len(Readable) \in Nat /\ Len(Readable) <= MaxFile
      /\ \A k, l \in 1 .. Len(Readable) : Readable[k].text = Readable[l].text => k = l
      /\ \A k \in 1 .. Len(Readable) : Readable[k].text <= transcript.writes
      /\ p <= Len(Readable) /\ p \in 1 .. Len(Readable) /\ q \in 0 .. MaxFile
      /\ segments' = [segments EXCEPT ![q] = Texts(Readable, p, to)]
  <2>1. /\ ingest[i].at = "read" /\ ingest[i].start <= Len(Readable)
        /\ UNCHANGED <<transcript, mark, sweeping>>
        /\ segments' = [segments EXCEPT ![q] = Texts(Readable, p, to)]
    BY <1>0 DEF PersistOne
  <2>2. Ingesting(i)
    BY <2>1 DEF Ingesting
  <2> HIDE DEF to
  <2>3. /\ q < p /\ p >= 1 /\ p <= Len(Readable) /\ Len(Readable) \in Nat /\ p \in 1 .. Len(Readable)
        /\ Len(Readable) <= MaxFile /\ MaxFile \in Nat
    BY <1>0, <2>1, IngestFacts DEF FileFacts
  <2>4. q \in 0 .. MaxFile
    BY <1>0, <2>3
  <2> QED
    BY <1>0, <2>1, <2>2, <2>3, <2>4, IngestFacts DEF FileFacts
<1>2. Size' = Size /\ Readable' = Readable
  BY <1>1 DEF Size, SizeOf, Readable
<1>3. to \in p .. Len(Readable)
  BY <1>1, SegmentEnds
<1>4. /\ Texts(Readable, p, to) \in (SUBSET (1 .. MaxWrites))
      /\ \A t \in Texts(Readable, p, to) : t <= transcript.writes
  <2>1. \A k \in p .. to : Readable[k] \in Entry /\ k \in 1 .. Len(Readable)
    BY <1>1, <1>3
  <2> QED
    <3>1. \A k \in p .. to : Readable[k].text \in 1 .. MaxWrites /\ Readable[k].text <= transcript.writes
      BY <1>1, <2>1 DEF Entry
    <3> QED
      BY <3>1 DEF Texts
<1>5. /\ segments' \in [0 .. MaxFile -> SUBSET (1 .. MaxWrites)]
      /\ \A s \in 0 .. MaxFile : \A t \in segments'[s] : t <= transcript.writes
      /\ \A s \in 0 .. MaxFile : s # q => segments'[s] = segments[s]
  BY <1>1, <1>4, RowsFresh
<1> DEFINE R == IF to < Len(Readable) THEN [ingest[i] EXCEPT !.seq = q + 1, !.start = to + 1]
                ELSE [ingest[i] EXCEPT !.at = "mark"]
<1>6. /\ R \in IngestType /\ R.mtime = ingest[i].mtime /\ R.size = ingest[i].size
      /\ to < Len(Readable) => R.at = "read" /\ R.seq = q + 1 /\ R.start = to + 1
      /\ ~(to < Len(Readable)) => R.at = "mark" /\ R.seq = q /\ R.start = p /\ to = Len(Readable)
  <2>1. to \in Nat /\ (~(to < Len(Readable)) => to = Len(Readable))
    BY <1>1, <1>3
  <2>2. CASE to < Len(Readable)
    <3>1. R = [ingest[i] EXCEPT !.seq = q + 1, !.start = to + 1]
      BY <2>2
    <3> HIDE DEF R, to
    <3> QED
      <4>1. q + 1 \in Nat /\ to + 1 \in Nat
        BY <1>0, <2>1
      <4> QED
        BY <1>1, <2>2, <3>1, <4>1 DEF IngestType
  <2>3. CASE ~(to < Len(Readable))
    <3>1. R = [ingest[i] EXCEPT !.at = "mark"]
      BY <2>3
    <3> HIDE DEF R, to
    <3> QED
      BY <1>0, <1>1, <2>1, <2>3, <3>1 DEF IngestType
  <2> QED
    BY <2>2, <2>3
<1>7. ingest' = [ingest EXCEPT ![i] = R]
  BY <1>0, <1>1 DEF PersistOne, Goto
<1>8. /\ mishaps' \in SUBSET Mishaps /\ Overlapped' = Overlapped
      /\ mishaps' = {} => mishaps = {} /\ (i \notin Forced \/ mark = NoMark)
  <2>1. /\ i \in Forced /\ mark # NoMark => mishaps' = mishaps \cup {"rewriting"}
        /\ ~(i \in Forced /\ mark # NoMark) => mishaps' = mishaps
    BY DEF PersistOne
  <2>2. mishaps \in SUBSET Mishaps
    BY IngestFacts
  <2>3. CASE i \in Forced /\ mark # NoMark
    <3>1. mishaps' = mishaps \cup {"rewriting"}
      BY <2>1, <2>3
    <3>2. mishaps' # {} /\ mishaps' \in SUBSET Mishaps /\ Overlapped' = Overlapped
      BY <2>2, <3>1 DEF Mishaps, Overlapped
    <3> QED
      BY <3>2
  <2>4. CASE ~(i \in Forced /\ mark # NoMark)
    BY <2>1, <2>2, <2>4 DEF Overlapped
  <2> QED
    BY <2>3, <2>4
<1> HIDE DEF R, to
<1>9. ingest'[i] = R
  BY <1>1, <1>7
<1>10. ASSUME ~Overlapped PROVE Marked' /\ Reads(i)'
  <2>1. /\ Marked /\ Looked(ingest[i].mtime, ingest[i].size) /\ ingest[i].size <= Size
        /\ i \notin Forced /\ mark # NoMark => mark.mtime < ingest[i].mtime /\ mark.seq <= q
        /\ i \in Forced \/ mishaps = {} => Filed(Readable, segments, q, p)
    BY <1>0, <1>1, <1>10 DEF CaptureInv, Reads
  <2>2. \A m, z : Looked(m, z) => Looked(m, z)'
    BY <1>1, <1>2 DEF Looked
  <2>3. Marked'
    <3>1. Looked(mark.mtime, mark.size)'
      BY <1>1, <2>1, <2>2 DEF Marked
    <3>2. ASSUME mark # NoMark, mishaps' = {}, mark.size <= Size
          PROVE  /\ mark.start <= Len(Readable) + 1
                 /\ Filed(Readable, segments', mark.seq, mark.start)
                 /\ ~TakenForDone'
      <4>1. mishaps = {} /\ i \notin Forced
        BY <1>8, <3>2
      <4>2. mark.seq <= q /\ mark.mtime < ingest[i].mtime
        BY <2>1, <3>2, <4>1
      <4>3. mark.start <= Len(Readable) + 1 /\ Filed(Readable, segments, mark.seq, mark.start)
        BY <2>1, <3>2, <4>1 DEF Marked
      <4>4. ASSUME NEW r \in 0 .. mark.seq - 1 PROVE segments'[r] = segments[r]
        <5>1. r \in 0 .. MaxFile /\ r # q
          BY <1>1, <4>2
        <5> QED
          BY <1>5, <5>1
      <4>5. Filed(Readable, segments', mark.seq, mark.start)
        BY <4>3, <4>4 DEF Filed
      <4>6. mark.mtime < transcript.mtime
        BY <1>1, <2>1, <4>2 DEF Looked
      <4> QED
        BY <1>1, <4>3, <4>5, <4>6 DEF TakenForDone
    <3> QED
      BY <1>1, <1>2, <3>1, <3>2 DEF Marked
  <2>4. ASSUME i \in Forced \/ mishaps' = {}
        PROVE  /\ to < Len(Readable) => Filed(Readable, segments', q + 1, to + 1)
               /\ to = Len(Readable) => /\ Filed(Readable, segments', q, p)
                                        /\ Holds(Readable, segments', q, p, ingest[i].size)
    <3>1. Filed(Readable, segments, q, p)
      BY <1>8, <2>1, <2>4
    <3> QED
      BY <1>1, <1>3, <3>1, FiledNext
  <2>5. Looked(ingest[i].mtime, ingest[i].size)' /\ R.size <= Size'
    BY <1>1, <1>2, <1>6, <1>9, <2>1, LookedStays
  <2>6. i \notin Forced /\ mark' # NoMark => mark'.mtime < R.mtime /\ mark'.seq <= R.seq
    BY <1>0, <1>1, <1>6, <2>1
  <2>7. to \in Nat /\ to + 1 <= Len(Readable) + 1 /\ p <= Len(Readable) + 1
    BY <1>1, <1>3
  <2>8. Reads(i)'
    <3>1. CASE to < Len(Readable)
      BY <1>2, <1>6, <1>9, <2>4, <2>5, <2>6, <2>7, <3>1 DEF Reads
    <3>2. CASE ~(to < Len(Readable))
      BY <1>2, <1>6, <1>9, <2>4, <2>5, <2>6, <2>7, <3>2 DEF Reads
    <3> QED
      BY <3>1, <3>2
  <2> QED
    BY <2>3, <2>8
<1>11. R.seq < R.start /\ (R.at = "mark" => R.start <= MaxFile) /\ R.at \notin {"recheck", "stat"}
  BY <1>0, <1>1, <1>3, <1>6
<1> QED
  BY <1>1, <1>5, <1>6, <1>7, <1>8, <1>10, <1>11, IngestStep

\* The watermark is written.
LEMMA WriteMarkInv ==
  ASSUME CaptureInv, NEW i \in Ingests, WriteMark(i)
  PROVE  CaptureInv'
<1>0. PICK p \in Nat, q \in Nat : ingest[i].start = p /\ ingest[i].seq = q
  BY IngestFacts
<1>1. /\ CaptureTables /\ Alone /\ ingest \in [Ingests -> IngestType] /\ ingest[i] \in IngestType
      /\ ingest[i].mtime \in Nat /\ ingest[i].size \in Nat
      /\ q < p /\ p <= MaxFile /\ MaxFile \in Nat /\ mishaps \in SUBSET Mishaps
      /\ ingest[i].at = "mark" /\ UNCHANGED <<transcript, segments>> /\ Ingesting(i)
      /\ segments \in [0 .. MaxFile -> SUBSET (1 .. MaxWrites)]
      /\ mark' = MarkOf(i)
  BY <1>0, IngestFacts DEF CaptureTables, WriteMark, FileFacts, Ingesting
<1>3. Size' = Size /\ Readable' = Readable
  BY <1>1 DEF Size, SizeOf, Readable
<1>4. /\ mark' \in MarkType
      /\ mark'.seq = q /\ mark'.start = p /\ mark'.mtime = ingest[i].mtime
      /\ mark'.size = ingest[i].size
  BY <1>0, <1>1 DEF MarkOf, MarkType
<1>5. ASSUME ~Overlapped, mishaps' = {} => i \in Forced \/ mishaps = {} PROVE Marked'
  <2>1. /\ Looked(ingest[i].mtime, ingest[i].size)
        /\ mishaps' = {} => /\ Filed(Readable, segments, q, p) /\ p <= Len(Readable) + 1
                            /\ Holds(Readable, segments, q, p, ingest[i].size)
    BY <1>0, <1>1, <1>5 DEF CaptureInv, Reads
  <2>2. Looked(mark.mtime, mark.size)'
    BY <1>1, <1>3, <1>4, <2>1 DEF Looked
  <2> QED
    BY <1>1, <1>3, <1>4, <2>1, <2>2 DEF Marked
<1>6. CASE /\ i \in Forced /\ ingest' = Goto(i, "tidy") /\ mishaps' = mishaps \cap {"overlap"}
           /\ UNCHANGED sweeping
  <2> DEFINE R == [ingest[i] EXCEPT !.at = "tidy"]
  <2>1. /\ R \in IngestType /\ R.at = "tidy" /\ R.seq = q /\ R.start = p
        /\ R.mtime = ingest[i].mtime /\ R.size = ingest[i].size
    BY <1>0, <1>1 DEF IngestType
  <2>2. ingest' = [ingest EXCEPT ![i] = R]
    BY <1>1, <1>6 DEF Goto
  <2> HIDE DEF R
  <2>3. ingest'[i] = R
    BY <1>1, <2>2
  <2>4. ASSUME ~Overlapped PROVE Reads(i)'
    <3>1. Looked(ingest[i].mtime, ingest[i].size) /\ ingest[i].size <= Size
      BY <1>1, <2>4 DEF CaptureInv, Reads
    <3>2. Looked(ingest[i].mtime, ingest[i].size)'
      BY <1>1, <2>1, <2>3, <3>1, LookedStays
    <3> QED
      BY <1>3, <1>4, <2>1, <2>3, <3>1, <3>2 DEF Reads
  <2>5. /\ R.seq < R.start /\ R.start <= MaxFile /\ R.at \notin {"recheck", "stat"}
        /\ mark'.start <= MaxFile /\ mark'.seq < mark'.start
    BY <1>1, <1>4, <2>1
  <2>6. mishaps' \in SUBSET Mishaps /\ Overlapped' = Overlapped
    BY <1>1, <1>6 DEF Overlapped
  <2>7. ~Overlapped => Marked' /\ Reads(i)'
    BY <1>5, <1>6, <2>4
  <2>8. segments' \in [0 .. MaxFile -> SUBSET (1 .. MaxWrites)]
    BY <1>1
  <2>9. \A s \in 0 .. MaxFile : \A t \in segments'[s] : t <= transcript.writes
    BY <1>1, RowsFresh
  <2> QED
    BY <1>1, <1>4, <1>6, <2>1, <2>2, <2>5, <2>6, <2>7, <2>8, <2>9, IngestStep
<1>7. CASE Ends(i) /\ UNCHANGED mishaps
  <2>0. Overlapped' = Overlapped
    BY <1>7 DEF Overlapped
  <2>1. /\ Alone' /\ sweeping' \in Sweeps \cup {NoSweep} /\ ingest' \in [Ingests -> IngestType]
        /\ ~Ingesting(i)' /\ ingest'[i].at # "mark" /\ ingest'[i].seq < ingest'[i].start
        /\ \A j \in Ingests \ {i} : ingest'[j] = ingest[j]
    BY <1>1, <1>7, <2>0, EndsKeeps
  <2>2. CaptureTables'
    BY <1>1, <1>4, <1>7, <2>1 DEF CaptureTables, Fresh
  <2>3. ASSUME ~Overlapped', NEW j \in Ingests PROVE Reads(j)'
    <3>1. ~Ingesting(j)'
      BY <1>1, <2>0, <2>1, <2>3 DEF Alone, Ingesting
    <3> QED
      BY <3>1, ReadsNothing
  <2> QED
    BY <1>5, <1>7, <2>0, <2>1, <2>2, <2>3 DEF CaptureInv
<1> QED
  BY <1>6, <1>7 DEF WriteMark

\* A reingest deletes the rows of segments there are no more.
LEMMA TidyInv ==
  ASSUME CaptureInv, NEW i \in Ingests, Tidy(i)
  PROVE  CaptureInv'
<1>1. /\ CaptureTables /\ Alone /\ ingest[i].seq \in Nat
      /\ ingest[i].at = "tidy" /\ Ingesting(i) /\ Ends(i) /\ UNCHANGED <<transcript, mark, mishaps>>
      /\ segments \in [0 .. MaxFile -> SUBSET (1 .. MaxWrites)] /\ MaxFile \in Nat
      /\ segments' = [s \in 0 .. MaxFile |-> IF s > ingest[i].seq THEN {} ELSE segments[s]]
      /\ mark \in MarkType /\ mark.seq \in Nat /\ mark.start \in Nat
      /\ mark.start <= MaxFile /\ (mark = NoMark \/ mark.seq < mark.start)
  BY IngestFacts DEF Tidy, Ingesting, FileFacts
<1>0. Overlapped' = Overlapped
  BY <1>1 DEF Overlapped
<1>2. /\ Alone' /\ sweeping' \in Sweeps \cup {NoSweep} /\ ingest' \in [Ingests -> IngestType]
      /\ ~Ingesting(i)' /\ ingest'[i].at # "mark" /\ ingest'[i].seq < ingest'[i].start
      /\ \A j \in Ingests \ {i} : ingest'[j] = ingest[j]
  BY <1>0, <1>1, EndsKeeps
<1>3. Size' = Size /\ Readable' = Readable
  BY <1>1 DEF Size, SizeOf, Readable
<1>4. CaptureTables'
  <2>1. segments' \in [0 .. MaxFile -> SUBSET (1 .. MaxWrites)]
    BY <1>1
  <2>2. \A s \in 0 .. MaxFile : \A t \in segments'[s] : t <= transcript.writes
    BY <1>1, RowsFresh
  <2>3. Fresh'
    BY <1>1, <2>2 DEF CaptureTables, Fresh
  <2> QED
    BY <1>1, <1>2, <2>1, <2>3 DEF CaptureTables
<1>5. ASSUME ~Overlapped' PROVE Marked' /\ \A j \in Ingests : Reads(j)'
  <2>1. ~Overlapped /\ Marked /\ mark.seq = ingest[i].seq
    BY <1>0, <1>1, <1>5 DEF CaptureInv, Reads
  <2>2. \A s \in 0 .. MaxFile : s <= mark.seq => segments'[s] = segments[s]
    BY <1>1, <2>1
  <2>3. mark # NoMark => mark.seq \in 0 .. MaxFile /\ \A r \in 0 .. mark.seq - 1 : r \in 0 .. MaxFile /\ r <= mark.seq
    BY <1>1
  <2>4. TakenForDone' = TakenForDone
    BY <1>1, <1>3 DEF TakenForDone
  <2>5. ASSUME mark # NoMark
        PROVE  /\ Filed(Readable, segments, mark.seq, mark.start)
                    => Filed(Readable, segments', mark.seq, mark.start)
               /\ Holds(Readable, segments, mark.seq, mark.start, mark.size)
                    => Holds(Readable, segments', mark.seq, mark.start, mark.size)
    <3>1. /\ \A r \in 0 .. mark.seq - 1 : segments'[r] = segments[r]
          /\ segments'[mark.seq] = segments[mark.seq]
      <4>1. mark.seq \in Nat /\ mark.seq <= MaxFile
        BY <1>1, <2>3, <2>5
      <4>2. \A r \in 0 .. mark.seq : r \in 0 .. MaxFile /\ r <= mark.seq
        BY <1>1, <4>1
      <4>3. \A r \in 0 .. mark.seq : segments'[r] = segments[r]
        BY <2>2, <4>2
      <4>4. mark.seq \in 0 .. mark.seq /\ \A r \in 0 .. mark.seq - 1 : r \in 0 .. mark.seq
        BY <4>1
      <4> QED
        BY <4>3, <4>4
    <3> QED
      BY <3>1 DEF Filed, Holds
  <2>6. Looked(mark.mtime, mark.size)'
    BY <1>1, <1>3, <2>1 DEF Marked, Looked
  <2>7. Marked'
    BY <1>1, <1>3, <2>1, <2>4, <2>5, <2>6 DEF Marked
  <2>8. ASSUME NEW j \in Ingests PROVE Reads(j)'
    <3>1. ~Ingesting(j)'
      BY <1>1, <1>2, <2>1 DEF Alone, Ingesting
    <3> QED
      BY <3>1, ReadsNothing
  <2> QED
    BY <2>7, <2>8
<1> QED
  BY <1>2, <1>4, <1>5 DEF CaptureInv

----------------------------------------------------------------------------
(* The inductive invariant of Capture: ingests keep out of each other's way   *)
(* or have been seen overlapping, and the watermark tells what has been read. *)
THEOREM CaptureInvariant == CaptureSpec => []CaptureInv
<1>1. CaptureInv /\ [CaptureNext]_captureVars => CaptureInv'
  <2> SUFFICES ASSUME CaptureInv, [CaptureNext]_captureVars
               PROVE  CaptureInv'
    OBVIOUS
  <2>1. CASE (\E torn \in BOOLEAN : WriteEntry(torn)) \/ CompleteEntry \/ CutFile
    BY <2>1, FileInv
  <2>3. ASSUME NEW i \in Sweeps, ConsiderSweep(i) \/ LockSweep(i) \/ RecheckSweep(i)
        PROVE  CaptureInv'
    BY <2>3, SweepInv
  <2>4. ASSUME NEW i \in Ingests, Stat(i) \/ Plan(i) \/ Unmark(i) PROVE CaptureInv'
    BY <2>4, StatInv, PlanInv, UnmarkInv
  <2>5. ASSUME NEW i \in Ingests, PersistOne(i) \/ WriteMark(i) \/ Tidy(i) PROVE CaptureInv'
    BY <2>5, PersistInv, WriteMarkInv, TidyInv
  <2>6. ASSUME NEW i \in Ingests, NothingToRead(i) \/ IngestDies(i) PROVE CaptureInv'
    BY <2>6, EndsInv DEF NothingToRead, IngestDies
  <2>7. CASE UNCHANGED captureVars
    <3>1. CaptureTables' /\ Alone'
      BY <2>7 DEF captureVars, CaptureInv, CaptureTables, Alone, Ingesting, Fresh, Overlapped
    <3>2. ~Overlapped' => Marked' /\ \A i \in Ingests : Reads(i)'
      BY <2>7, MarkedKept, ReadsKept DEF captureVars, CaptureInv, Overlapped
    <3> QED
      BY <3>1, <3>2 DEF CaptureInv
  <2> QED
    BY <2>1, <2>3, <2>4, <2>5, <2>6, <2>7 DEF CaptureNext
<1> QED
  BY <1>1, CaptureInitInv, PTL DEF CaptureSpec

(* The transcript, its rows, its watermark and its ingests keep their types,   *)
(* overlapping or not.                                                         *)
THEOREM CaptureTypes == CaptureSpec => []CaptureTypeOK
<1>1. CaptureInv => CaptureTypeOK
  <2> SUFFICES ASSUME CaptureInv PROVE CaptureTypeOK
    OBVIOUS
  <2>1. CaptureTables
    BY DEF CaptureInv
  <2>2. ToSet(transcript.entries) \subseteq Entry
    BY <2>1, CaptureFacts DEF ToSet, FileFacts
  <2> QED
    BY <2>1, <2>2 DEF CaptureTables, CaptureTypeOK, TranscriptType, IngestType
<1> QED
  BY <1>1, CaptureInvariant, PTL

(* A transcript whose watermark has its time or a later one, and is not longer *)
(* than it, has each entry that was there when the watermark's time and size   *)
(* were read in exactly one row of its segments, and each that was written     *)
(* before that millisecond, wherever ingests died and each of them began;      *)
(* unless an ingest without the lock has run beside another, the file was cut   *)
(* and has grown again unnoticed, or a reingest has ended between its first row *)
(* and its watermark (ingestTranscriptSegmented).                                *)
THEOREM EntriesAreIngested == CaptureSpec => []NothingSkipped
<1>1. CaptureInv => NothingSkipped
  <2> SUFFICES ASSUME CaptureInv, TakenForDone, mishaps = {}, NEW k \in 1 .. Len(Readable), Promised(k)
               PROVE  Cardinality({s \in 0 .. mark.seq : Readable[k].text \in segments[s]}) = 1
    BY DEF NothingSkipped
  <2> DEFINE Rows == {s \in 0 .. mark.seq : Readable[k].text \in segments[s]}
  <2>1. /\ mark # NoMark /\ mark.size <= Size /\ mark.seq \in Nat /\ mark.start \in Nat
        /\ Marked /\ k \in Nat
    BY DEF CaptureInv, CaptureTables, MarkType, TakenForDone, Overlapped
  <2>2. /\ Filed(Readable, segments, mark.seq, mark.start)
        /\ Holds(Readable, segments, mark.seq, mark.start, mark.size)
        /\ Looked(mark.mtime, mark.size)
    BY <2>1 DEF Marked
  <2>3. 2 * k <= mark.size
    BY <2>2 DEF Promised, Looked
  <2>4. 0 .. mark.seq = (0 .. mark.seq - 1) \cup {mark.seq}
    BY <2>1
  <2>5. \E s \in 0 .. mark.seq : Rows = {s}
    <3>1. CASE k < mark.start
      <4>1. PICK r \in 0 .. mark.seq - 1 :
              /\ Readable[k].text \in segments[r]
              /\ \A q \in 0 .. mark.seq - 1 : Readable[k].text \in segments[q] => q = r
        BY <2>2, <3>1 DEF Filed
      <4>2. Readable[k].text \notin segments[mark.seq]
        BY <2>2, <3>1 DEF Holds
      <4> QED
        BY <2>4, <4>1, <4>2
    <3>2. CASE k >= mark.start
      <4>1. \A r \in 0 .. mark.seq - 1 : Readable[k].text \notin segments[r]
        BY <2>2, <3>2 DEF Filed
      <4>2. Readable[k].text \in segments[mark.seq]
        BY <2>2, <2>3, <3>2 DEF Holds
      <4> QED
        BY <2>4, <4>1, <4>2
    <3> QED
      BY <2>1, <3>1, <3>2
  <2> QED
    BY <2>5, FS_Singleton
<1> QED
  BY <1>1, CaptureInvariant, PTL
=============================================================================
