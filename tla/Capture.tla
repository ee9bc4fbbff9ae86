------------------------------ MODULE Capture ------------------------------
(***************************************************************************)
(* The ingest of one transcript (src/src/capture/segment-ingest.ts), as the   *)
(* hooks, the commands and the sweep of orphans                               *)
(* (src/src/scripts/sweep-orphans.ts) run it: segment by segment, from the    *)
(* segment that was open when the watermark was written.                      *)
(*                                                                          *)
(* A transcript is a sequence of entries, the last one maybe half written.    *)
(* An entry has a line, which is what segmentEntries looks at, a text of its   *)
(* own, and the time of the write that made it readable.  A write has the      *)
(* time of the one before or a later one: the code rounds modification times   *)
(* up to a millisecond.  The file is cut only while nobody reads it.           *)
(***************************************************************************)
EXTENDS Naturals, Sequences, FiniteSets, FiniteSetsExt, SequencesExt

CONSTANTS
  Hooks,       \* ingests that take no lock: hooks and commands
  Sweeps,      \* sweeps, which take the advisory lock of the transcript
  Forced,      \* the hooks that are a reingest (forceFull)
  Lines,       \* the lines the harness writes
  MaxThinking, \* thinking blocks in a segment (maxThinkingBlocks)
  MaxFile,     \* bounds the entries of the transcript
  MaxWrites,   \* bounds the lines the harness writes
  MaxMtime     \* bounds the times of the transcript

\* A time stamp: none, one soon after the last stamp before it, or idleGapHours
\* later; and what else may open a segment.
Line == [stamp : {"none", "soon", "late"}, turn : {"plain", "compaction", "thinking"}]

ASSUME CaptureBounds == {MaxThinking, MaxFile, MaxWrites, MaxMtime} \subseteq Nat /\ Lines \subseteq Line
ASSUME CaptureCallers ==
  Hooks \cap Sweeps = {} /\ Forced \subseteq Hooks /\ "nobody" \notin Hooks \cup Sweeps

VARIABLES
  transcript,  \* the file
  segments,    \* its rows of code_sessions: segment -> texts of its entries
  mark,        \* its row of transcript_watermarks
  sweeping,    \* who holds the advisory lock of the transcript
  ingest,      \* the ingests
  mishaps      \* what has happened that the watermark does not tell of

captureVars == <<transcript, segments, mark, sweeping, ingest, mishaps>>

Ingests == Hooks \cup Sweeps
NoMark == [seq |-> 0, start |-> 0, mtime |-> 0, size |-> 0]
NoSweep == "nobody"
NotIngesting == [at |-> "idle", mtime |-> 0, size |-> 0, seq |-> 0, from |-> 1, start |-> 1]
Entry == [line : Lines, text : 1 .. MaxWrites, time : 0 .. MaxMtime]

\* An ingest without the lock has run beside another; the file has been cut and
\* its size does not show it; a reingest has written rows and not its watermark.
Mishaps == {"overlap", "unnoticed", "rewriting"}

CaptureTypeOK ==
  /\ ToSet(transcript.entries) \subseteq Entry /\ Len(transcript.entries) <= MaxFile
  /\ transcript.torn \in BOOLEAN
  /\ transcript.writes \in 0 .. MaxWrites /\ transcript.mtime \in 0 .. MaxMtime
  /\ segments \in [0 .. MaxFile -> SUBSET (1 .. MaxWrites)]
  /\ mark.start <= MaxFile /\ (mark = NoMark \/ mark.seq < mark.start)
  /\ sweeping \in Sweeps \cup {NoSweep}
  /\ \A i \in Ingests :
       ingest[i].at \in {"idle", "lock", "recheck", "stat", "plan", "unmark", "read", "mark",
                          "tidy"}
  /\ mishaps \subseteq Mishaps

CaptureInit ==
  /\ transcript = [entries |-> <<>>, torn |-> FALSE, mtime |-> 0, writes |-> 0]
  /\ segments = [s \in 0 .. MaxFile |-> {}]
  /\ mark = NoMark
  /\ sweeping = NoSweep
  /\ ingest = [i \in Ingests |-> NotIngesting]
  /\ mishaps = {}

----------------------------------------------------------------------------
\* An entry counts two, half an entry one.
SizeOf(es, torn) == 2 * Len(es) - (IF torn THEN 1 ELSE 0)
Size == SizeOf(transcript.entries, transcript.torn)

\* readEntries skips a line that does not parse.
Readable == IF transcript.torn THEN Front(transcript.entries) ELSE transcript.entries

\* segmentEntries: whether an entry opens a segment, for one who has read the
\* file from one entry on and is in the segment that starts with another.  A
\* reading knows of no stamp before its beginning.
Opens(es, from, start, k) ==
  \/ es[k].line.stamp = "late" /\ \E j \in from .. k - 1 : es[j].line.stamp # "none"
  \/ es[k].line.turn = "compaction"
  \/ /\ es[k].line.turn = "thinking"
     /\ Cardinality({ j \in start .. k - 1 : es[j].line.turn = "thinking" }) >= MaxThinking

\* The last entry of the segment that starts with an entry.
SegmentEnd(es, from, start) ==
  Max({ j \in start .. Len(es) : \A k \in start + 1 .. j : ~Opens(es, from, start, k) })

Texts(es, from, to) == { es[k].text : k \in from .. to }

Ingesting(i) == ingest[i].at \in {"plan", "unmark", "read", "mark", "tidy"}
Goto(i, at) == [ingest EXCEPT ![i].at = at]

\* An ingest ends or dies: a sweep unlocks, or its session is closed.
Ends(i) ==
  /\ ingest' = [ingest EXCEPT ![i] = NotIngesting]
  /\ sweeping' = IF sweeping = i THEN NoSweep ELSE sweeping

----------------------------------------------------------------------------
\* The file ends before the place the watermark goes on from, or did so, and is
\* not shorter than the watermark says.
Unnoticed(es, torn) ==
  mark.size <= SizeOf(es, torn) /\ (Size < mark.size \/ Len(es) + 1 < mark.start)

\* The time of a change, and the change.
Now == {transcript.mtime, transcript.mtime + 1} \cap 0 .. MaxMtime

Put(es, torn, now, writes) ==
  /\ transcript' = [entries |-> es, torn |-> torn, mtime |-> now, writes |-> writes]
  /\ mishaps' = IF Unnoticed(es, torn) THEN mishaps \cup {"unnoticed"} ELSE mishaps
  /\ UNCHANGED <<segments, mark, sweeping, ingest>>

\* The harness writes an entry, the last one maybe in two parts.
AppendTo(es, line, torn) ==
  /\ transcript.writes < MaxWrites
  /\ \E now \in Now :
       LET new == [line |-> line, text |-> transcript.writes + 1, time |-> now]
       IN Put(Append(es, new), torn, now, transcript.writes + 1)

WriteEntry(torn) ==
  /\ Len(transcript.entries) < MaxFile /\ ~transcript.torn
  /\ \E line \in Lines : AppendTo(transcript.entries, line, torn)

CompleteEntry ==
  transcript.torn /\ AppendTo(Readable, Last(transcript.entries).line, FALSE)

CutFile ==
  /\ \A i \in Ingests : ingest[i].at = "idle"
  /\ \E n \in 0 .. Len(transcript.entries) - 1, now \in Now :
       Put(SubSeq(transcript.entries, 1, n), FALSE, now, transcript.writes)

----------------------------------------------------------------------------
\* isOrphan.
Orphan(mtime) == mark = NoMark \/ mark.mtime < mtime

\* runSweep: the transcript is quiet and not empty.
ConsiderSweep(i) ==
  /\ ingest[i].at = "idle"
  /\ Size > 0
  /\ Orphan(transcript.mtime)
  /\ ingest' = [ingest EXCEPT ![i].at = "lock", ![i].mtime = transcript.mtime]
  /\ UNCHANGED <<transcript, segments, mark, sweeping, mishaps>>

\* pg_try_advisory_lock.
MayIngest(i) == sweeping = NoSweep

LockSweep(i) ==
  /\ ingest[i].at = "lock"
  /\ \/ MayIngest(i) /\ sweeping' = i /\ ingest' = Goto(i, "recheck")
     \/ ~MayIngest(i) /\ Ends(i)
  /\ UNCHANGED <<transcript, segments, mark, mishaps>>

RecheckSweep(i) ==
  /\ ingest[i].at = "recheck"
  /\ \/ Orphan(ingest[i].mtime) /\ ingest' = Goto(i, "stat") /\ UNCHANGED sweeping
     \/ ~Orphan(ingest[i].mtime) /\ Ends(i)
  /\ UNCHANGED <<transcript, segments, mark, mishaps>>

\* ingestTranscriptSegmented: the transcript's time and size, before it is read.
Stat(i) ==
  /\ ingest[i].at = IF i \in Sweeps THEN "stat" ELSE "idle"
  /\ ingest' = [ingest EXCEPT ![i] = [NotIngesting EXCEPT !.at = "plan", !.mtime = transcript.mtime,
                                                          !.size = Size]]
  /\ mishaps' = IF \E j \in Ingests \ {i} : Ingesting(j) /\ {i, j} \cap Hooks # {}
                THEN mishaps \cup {"overlap"} ELSE mishaps
  /\ UNCHANGED <<transcript, segments, mark, sweeping>>

Shrunk(i) == mark # NoMark /\ i \notin Forced /\ mark.size > ingest[i].size

\* Where to read from: the beginning, the open segment, or nowhere at all.
Plan(i) ==
  /\ ingest[i].at = "plan"
  /\ \/ /\ i \in Forced \/ mark = NoMark
        /\ ingest' = Goto(i, "read")
        /\ UNCHANGED <<segments, sweeping>>
     \/ /\ Shrunk(i)
        /\ segments' = [s \in 0 .. MaxFile |-> {}]
        /\ ingest' = Goto(i, "unmark")
        /\ UNCHANGED sweeping
     \/ /\ i \notin Forced /\ mark # NoMark /\ ~Shrunk(i)
        /\ mark.mtime < ingest[i].mtime
        /\ ingest' = [ingest EXCEPT ![i].at = "read", ![i].seq = mark.seq,
                                    ![i].from = mark.start, ![i].start = mark.start]
        /\ UNCHANGED <<segments, sweeping>>
     \/ /\ i \notin Forced /\ mark # NoMark /\ ~Shrunk(i)
        /\ mark.mtime >= ingest[i].mtime
        /\ Ends(i)
        /\ UNCHANGED segments
  /\ UNCHANGED <<transcript, mark, mishaps>>

Unmark(i) ==
  /\ ingest[i].at = "unmark"
  /\ mark' = NoMark
  /\ mishaps' = mishaps \cap {"overlap"}
  /\ ingest' = Goto(i, "read")
  /\ UNCHANGED <<transcript, segments, sweeping>>

\* persistOne: a segment that another one follows, or the one that stays open.
PersistOne(i) ==
  /\ ingest[i].at = "read"
  /\ ingest[i].start <= Len(Readable)
  /\ LET start == ingest[i].start
         to == SegmentEnd(Readable, ingest[i].from, start)
     IN /\ segments' = [segments EXCEPT ![ingest[i].seq] = Texts(Readable, start, to)]
        /\ ingest' = IF to < Len(Readable)
                     THEN [ingest EXCEPT ![i].seq = @ + 1, ![i].start = to + 1]
                     ELSE Goto(i, "mark")
  /\ mishaps' = IF i \in Forced /\ mark # NoMark THEN mishaps \cup {"rewriting"} ELSE mishaps
  /\ UNCHANGED <<transcript, mark, sweeping>>

NothingToRead(i) ==
  /\ ingest[i].at = "read"
  /\ ingest[i].start > Len(Readable)
  /\ Ends(i)
  /\ UNCHANGED <<transcript, segments, mark, mishaps>>

\* Wrong on purpose: the time is the one the file has now.
MarkOfNow(i) == [seq |-> ingest[i].seq, start |-> ingest[i].start,
                 mtime |-> transcript.mtime, size |-> Size]

MarkOf(i) == [seq |-> ingest[i].seq, start |-> ingest[i].start,
              mtime |-> ingest[i].mtime, size |-> ingest[i].size]

\* The watermark; a reingest goes on.
WriteMark(i) ==
  /\ ingest[i].at = "mark"
  /\ mark' = MarkOf(i)
  /\ \/ /\ i \in Forced
        /\ ingest' = Goto(i, "tidy") /\ mishaps' = mishaps \cap {"overlap"}
        /\ UNCHANGED sweeping
     \/ i \notin Forced /\ Ends(i) /\ UNCHANGED mishaps
  /\ UNCHANGED <<transcript, segments>>

\* A reingest deletes the rows of segments there are no more.
Tidy(i) ==
  /\ ingest[i].at = "tidy"
  /\ segments' = [s \in 0 .. MaxFile |-> IF s > ingest[i].seq THEN {} ELSE segments[s]]
  /\ Ends(i)
  /\ UNCHANGED <<transcript, mark, mishaps>>

\* The process dies, or a statement fails.
IngestDies(i) ==
  /\ ingest[i].at # "idle"
  /\ Ends(i)
  /\ UNCHANGED <<transcript, segments, mark, mishaps>>

CaptureNext ==
  \/ \E torn \in BOOLEAN : WriteEntry(torn)
  \/ CompleteEntry \/ CutFile
  \/ \E i \in Sweeps : ConsiderSweep(i) \/ LockSweep(i) \/ RecheckSweep(i)
  \/ \E i \in Ingests :
       \/ Stat(i) \/ Plan(i) \/ Unmark(i) \/ PersistOne(i) \/ NothingToRead(i)
       \/ WriteMark(i) \/ Tidy(i) \/ IngestDies(i)

CaptureSpec == CaptureInit /\ [][CaptureNext]_captureVars

----------------------------------------------------------------------------
\* The next ingest would find the file unchanged.
TakenForDone == mark # NoMark /\ mark.mtime >= transcript.mtime /\ mark.size <= Size

\* What was in the file when its time and size were read, or written before
\* that time: all but what came later in the same millisecond.
Promised(k) == 2 * k <= mark.size \/ Readable[k].time < mark.mtime

(* A transcript that is taken for done has each entry in the row of one        *)
(* segment and in no other, wherever ingests and sweeps died, whatever was     *)
(* written while they read and wherever each of them began; but for entries    *)
(* written in the very millisecond of the time the ingest read, and unless     *)
(*   - an ingest that takes no lock has run beside another,                    *)
(*   - the file has been cut below the watermark, and has grown to the size    *)
(*     the watermark tells before an ingest looked at it, or                   *)
(*   - a reingest has ended between its first row and its watermark.           *)
(* (The watermark's time is read before the file and written after the         *)
(* segments; sealed segments are never read again.)                            *)
NothingSkipped ==
  TakenForDone /\ mishaps = {} =>
    \A k \in 1 .. Len(Readable) :
      Promised(k) =>
        Cardinality({ s \in 0 .. mark.seq : Readable[k].text \in segments[s] }) = 1
=============================================================================
