----------------------------- MODULE ScanStream -----------------------------
(* The reader of a Socket full scan (scripts/fleet/registry/npm/scan/         *)
(* ndjson.mts) and the policy evaluation of what it read                      *)
(* (scan/run.mts, summarizeResolvedPolicyAlerts).  The module has no state:   *)
(* the gate feeds the reader one chunk per step, cut wherever the network     *)
(* cuts it.                                                                   *)
(*                                                                            *)
(* A record of the stream is two symbols, its first and its second half, so   *)
(* that a chunk may end inside it; NewLine ends a line.  What a record says   *)
(* is its kind.                                                               *)
EXTENDS Naturals, Sequences, FiniteSets

CONSTANTS
  MaxBytes,   \* FULL_SCAN_MAX_BYTES, in symbols
  MaxLine     \* FULL_SCAN_MAX_LINE_LENGTH, in symbols

ASSUME StreamLimits == MaxBytes \in Nat /\ MaxLine \in Nat

NewLine == [of |-> "newline", half |-> 0]
Halves(kind) == << [of |-> kind, half |-> 1], [of |-> kind, half |-> 2] >>

\* The wire form of a list of records, each ended by a line feed.
Wire(kinds) ==
  [i \in 1..3 * Len(kinds) |->
     IF i % 3 = 0 THEN NewLine ELSE Halves(kinds[(i + 2) \div 3])[i % 3]]

\* What the alerts of an artifact come to.  "ignored" is malware the
\* organization's policy ignores or monitors, "unresolved" an artifact without
\* an alert list or with an alert whose action the gate does not know.
ArtifactKinds == {"clean", "malware", "ignored", "unresolved"}
RecordKinds == ArtifactKinds \cup {"scores", "badScores", "processing"}

\* JSON.parse of one line: a record, or nothing it can read.
LineKind(line) ==
  IF \E kind \in RecordKinds : line = Halves(kind) THEN line[1].of ELSE "malformed"

FreshReader ==
  [artifacts |-> << >>, pending |-> << >>, processing |-> FALSE,
   sawScores |-> FALSE, bytes |-> 0, reason |-> "none"]

Refuse(reader, why) == [reader EXCEPT !.reason = why]

\* consumeLine: an empty line says nothing; a processing envelope must be the
\* only line, the scores record the last one.
ConsumeLine(reader, line) ==
  LET kind == LineKind(line)
  IN  IF reader.reason # "none" \/ line = << >> THEN reader
      ELSE IF kind = "malformed" THEN Refuse(reader, "malformed")
      ELSE IF kind = "processing"
        THEN IF reader.processing \/ reader.sawScores \/ reader.artifacts # << >>
               THEN Refuse(reader, "misplaced processing")
               ELSE [reader EXCEPT !.processing = TRUE]
      ELSE IF reader.processing THEN Refuse(reader, "mixed")
      ELSE IF kind \in {"scores", "badScores"}
        THEN IF reader.sawScores \/ kind = "badScores"
               THEN Refuse(reader, "malformed scores")
               ELSE [reader EXCEPT !.sawScores = TRUE]
      ELSE IF reader.sawScores THEN Refuse(reader, "after scores")
      ELSE [reader EXCEPT !.artifacts = Append(@, kind)]

TooLong(line) == Len(line) > MaxLine

ConsumeBounded(reader, line) ==
  IF reader.reason = "none" /\ TooLong(line) THEN Refuse(reader, "line size")
                                             ELSE ConsumeLine(reader, line)

\* The reader after each symbol of a chunk: a line feed ends the pending line.
ConsumeSymbol(reader, symbol) ==
  IF symbol = NewLine
    THEN [ConsumeBounded(reader, reader.pending) EXCEPT !.pending = << >>]
    ELSE [reader EXCEPT !.pending = Append(@, symbol)]

Consumed(reader, chunk) ==
  LET after[n \in 0..Len(chunk)] ==
        IF n = 0 THEN reader ELSE ConsumeSymbol(after[n - 1], chunk[n])
  IN  after[Len(chunk)]

\* One turn of `for await`: the size of everything read so far is checked
\* before the chunk is looked at, then every line the chunk completes, then
\* the length of the line it leaves open.
FeedChunk(reader, chunk) ==
  LET sized == [reader EXCEPT !.bytes = @ + Len(chunk)]
      read  == Consumed(sized, chunk)
  IN  IF sized.bytes > MaxBytes THEN Refuse(sized, "response size")
      ELSE IF read.reason = "none" /\ TooLong(read.pending) THEN Refuse(read, "line size")
      ELSE read

\* Mutant: the line left open at the end of the stream is dropped.
FinishStreamWithoutTail(reader) ==
  CASE reader.reason # "none" -> [kind |-> "refused", reason |-> reader.reason]
    [] reader.reason = "none" /\ reader.processing -> [kind |-> "processing"]
    [] OTHER -> [kind |-> "artifacts", artifacts |-> reader.artifacts]

\* The end of the stream: the open line is a line too.
FinishStream(reader) ==
  LET last == ConsumeBounded(reader, reader.pending)
  IN  CASE last.reason # "none" -> [kind |-> "refused", reason |-> last.reason]
        [] last.reason = "none" /\ last.processing -> [kind |-> "processing"]
        [] OTHER -> [kind |-> "artifacts", artifacts |-> last.artifacts]

\* isResolvedPolicyAlert, summarizeResolvedPolicyAlerts: one artifact whose
\* alerts are not all resolved leaves the whole scan without a summary.
PolicyResolved(artifacts) == \A i \in DOMAIN artifacts : artifacts[i] # "unresolved"

\* isNpmBlockingMalwareAlert over the summary.
BlockingArtifacts(artifacts) ==
  Cardinality({i \in DOMAIN artifacts : artifacts[i] = "malware"})
=============================================================================
