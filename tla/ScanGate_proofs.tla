-------------------------- MODULE ScanGate_proofs --------------------------
(***************************************************************************)
(* The scan gate, for any tarballs and limits: what its reader makes of a  *)
(* stream, however it is cut into chunks, and that the gate implements     *)
(* what ScanPromise promises.                                              *)
(***************************************************************************)
EXTENDS ScanGate, FiniteSetTheorems, SequenceTheorems, NaturalsInduction,
        WellFoundedInduction, TLAPS

(* Induction over the natural numbers, for a set in place of a predicate.  *)
LEMMA SetInduction ==
  ASSUME NEW S \in SUBSET Nat, 0 \in S, \A n \in S : n + 1 \in S
  PROVE  S = Nat
  <1> DEFINE R == OpToRel(<, Nat)
             T == Nat \ S
  <1>1. IsWellFoundedOn(R, Nat)
    BY NatLessThanWellFounded
  <1>2. SUFFICES ASSUME T # {} PROVE FALSE
    OBVIOUS
  <1>3. PICK x \in T : \A y \in T : ~(<<y, x>> \in R)
    <2>1. T \subseteq Nat
      OBVIOUS
    <2> HIDE DEF R, T
    <2> QED
      BY <1>1, <1>2, <2>1, WFMin
  <1>4. x # 0 /\ x - 1 \in Nat /\ x - 1 < x
    OBVIOUS
  <1>5. x - 1 \in T
    BY <1>4
  <1>6. <<x - 1, x>> \in R
    BY <1>4 DEF OpToRel
  <1> QED
    BY <1>3, <1>5, <1>6

-----------------------------------------------------------------------------
(***************************************************************************)
(* The reader.                                                             *)
(***************************************************************************)
Symbols == [of : RecordKinds \cup {"newline"}, half : {0, 1, 2}]
Reasons == {"none", "malformed", "misplaced processing", "mixed", "malformed scores",
            "after scores", "line size", "response size"}
Readers == [artifacts : Seq(ArtifactKinds), pending : Seq(Symbols),
            processing : BOOLEAN, sawScores : BOOLEAN, bytes : Nat, reason : Reasons]

(* What the lines that begin at starts have made of a reader. *)
Records(reader, text, starts) ==
    /\ reader.reason = "none"
    /\ \A s \in starts : KindAt(text, s) \in ArtifactKinds \cup {"scores", "processing"}
    /\ reader.processing <=> \E s \in starts : KindAt(text, s) = "processing"
    /\ reader.processing => \A s, t \in starts : s = t
    /\ reader.sawScores <=> \E s \in starts : KindAt(text, s) = "scores"
    /\ \A s, t \in starts : KindAt(text, s) = "scores" => t <= s
    /\ InOrder(reader.artifacts, {s \in starts : KindAt(text, s) \in ArtifactKinds}, text)

(* A text that is a whole answer of artifacts, or one that is a processing *)
(* notice.                                                                 *)
IsNotice(text) == \E s \in Lines(text) : /\ Lines(text) = {s}
                                         /\ KindAt(text, s) = "processing"

(* The line of line is open from the open-th symbol to the n-th. *)
OpenLine(line, text, open, n) ==
    /\ n \in 0..Len(text) /\ open = n - Len(line) + 1 /\ open >= 1
    /\ \A i \in 1..Len(line) : line[i] = text[open + i - 1] /\ line[i] # NewLine
    /\ open > 1 => text[open - 1] = NewLine

Before(text, open) == {s \in Lines(text) : s < open}

(* The kinds of records are all different. *)
LEMMA Kinds == /\ "scores" \notin ArtifactKinds /\ "processing" \notin ArtifactKinds
               /\ "badScores" \notin ArtifactKinds /\ "malformed" \notin ArtifactKinds
               /\ RecordKinds = ArtifactKinds \cup {"scores", "badScores", "processing"}
  BY DEF ArtifactKinds, RecordKinds

(* An open line that ends here is the line of the text that begins there. *)
LEMMA EndOfLine ==
  ASSUME NEW text \in Seq(Symbols), NEW line \in Seq(Symbols), NEW open, NEW n,
         OpenLine(line, text, open, n), n < Len(text) => text[n + 1] = NewLine
  PROVE  /\ line = << >> => Before(text, n + 2) = Before(text, open)
         /\ line # << >> => /\ open \in Lines(text)
                            /\ LineKind(line) = KindAt(text, open)
                            /\ Before(text, n + 2) = Before(text, open) \cup {open}
  <1> DEFINE L == Len(text)
             k == Len(line)
  <1>1. L \in Nat /\ k \in Nat /\ n \in 0..L /\ DOMAIN text = 1..L /\ DOMAIN line = 1..k
    BY LenProperties DEF OpenLine
  <1>2. open \in 1..(L + 1) /\ open = n - k + 1
    BY <1>1 DEF OpenLine
  <1>3. \A i \in 1..k : line[i] = text[open + i - 1] /\ line[i] # NewLine
    BY DEF OpenLine
  <1>4. \A s \in open..n : text[s] # NewLine
    <2> TAKE s \in open..n
    <2>1. s - open + 1 \in 1..k /\ open + (s - open + 1) - 1 = s
      BY <1>1, <1>2
    <2> QED BY <2>1, <1>3
  <1>5. \A s \in Lines(text) : s <= open \/ s > n + 1
    <2> TAKE s \in Lines(text)
    <2>1. s \in 1..L /\ text[s] # NewLine /\ (s > 1 => text[s - 1] = NewLine)
      BY <1>1 DEF Lines
    <2>2. SUFFICES ASSUME s > open, s <= n + 1 PROVE FALSE
      BY <2>1, <1>1, <1>2
    <2>3. s # n + 1
      BY <2>1, <1>1
    <2>4. s - 1 \in open..n /\ s > 1
      BY <2>1, <2>2, <1>1, <1>2
    <2> QED BY <2>1, <2>4, <1>4
  <1>6. CASE line = << >>
    <2>1. k = 0 /\ open = n + 1
      BY <1>6, <1>2, <1>1, EmptySeq
    <2>2. open \notin Lines(text)
      BY <2>1, <1>1 DEF Lines
    <2> QED
      BY <1>6, <1>5, <2>1, <2>2, <1>1 DEF Before, Lines
  <1>7. CASE line # << >>
    <2>1. k > 0 /\ open <= n
      BY <1>7, <1>1, <1>2, EmptySeq
    <2>2. open \in Lines(text)
      BY <2>1, <1>4, <1>1, <1>2 DEF Lines, OpenLine
    <2>3. Before(text, n + 2) = Before(text, open) \cup {open}
      BY SMTT(30), <2>1, <2>2, <1>5, <1>1, <1>2 DEF Before, Lines
    <2>4. \A kind \in RecordKinds :
             line = Halves(kind) <=>
               /\ open + 1 \in DOMAIN text
               /\ <<text[open], text[open + 1]>> = Halves(kind)
               /\ open + 2 \in DOMAIN text => text[open + 2] = NewLine
      <3> TAKE kind \in RecordKinds
      <3>1. ASSUME line = Halves(kind)
            PROVE  /\ open + 1 \in DOMAIN text
                   /\ <<text[open], text[open + 1]>> = Halves(kind)
                   /\ open + 2 \in DOMAIN text => text[open + 2] = NewLine
        <4>1. k = 2 /\ n = open + 1
          BY <3>1, <1>2, <1>1 DEF Halves
        <4>2. line[1] = text[open] /\ line[2] = text[open + 1]
          BY <4>1, <1>3, <1>2
        <4> QED BY <3>1, <4>1, <4>2, <1>1, <1>2 DEF Halves
      <3>2. ASSUME /\ open + 1 \in DOMAIN text
                   /\ <<text[open], text[open + 1]>> = Halves(kind)
                   /\ open + 2 \in DOMAIN text => text[open + 2] = NewLine
            PROVE  line = Halves(kind)
        <4>1. text[open + 1] # NewLine /\ open + 1 \in 1..L
          BY <3>2, <1>1 DEF Halves, NewLine
        <4>2. n # open
          BY <4>1, <1>1, <1>2
        <4>3. ~(open + 2 <= n)
          BY SMTT(30), <3>2, <1>4, <1>1, <1>2
        <4>4. n = open + 1 /\ k = 2
          BY <4>2, <4>3, <2>1, <1>1, <1>2
        <4>5. line[1] = text[open] /\ line[2] = text[open + 1]
          BY <4>4, <1>3, <1>2
        <4> QED BY <4>4, <4>5, <3>2, <1>1 DEF Halves
      <3> QED BY <3>1, <3>2
    <2>5. line[1] = text[open]
      BY <2>1, <1>3, <1>1, <1>2
    <2>6. LineKind(line) = KindAt(text, open)
      BY <2>4, <2>5 DEF LineKind, KindAt
    <2> QED BY <1>7, <2>2, <2>3, <2>6
  <1> QED BY <1>6, <1>7

(* The types of a reader's fields. *)
LEMMA ReaderTypes ==
  ASSUME NEW reader \in Readers
  PROVE  /\ reader.artifacts \in Seq(ArtifactKinds) /\ reader.pending \in Seq(Symbols)
         /\ reader.processing \in BOOLEAN /\ reader.sawScores \in BOOLEAN
         /\ reader.bytes \in Nat /\ reader.reason \in Reasons
  BY DEF Readers

(* A text has finitely many lines. *)
LEMMA LinesFinite ==
  ASSUME NEW text \in Seq(Symbols)
  PROVE  IsFiniteSet(Lines(text)) /\ Lines(text) \in SUBSET Nat
  <1>1. Lines(text) \in SUBSET (1..Len(text))
    BY LenProperties DEF Lines
  <1>2. IsFiniteSet(1..Len(text)) /\ 1..Len(text) \in SUBSET Nat
    BY LenProperties, FS_Interval
  <1> QED BY <1>1, <1>2, FS_Subset

(* One more artifact, of a line after the others, is the last in the order. *)
LEMMA NextInOrder ==
  ASSUME NEW text \in Seq(Symbols), NEW starts \in SUBSET Lines(text),
         NEW open \in Lines(text), \A s \in starts : s < open,
         NEW artifacts \in Seq(ArtifactKinds), InOrder(artifacts, starts, text),
         KindAt(text, open) \in ArtifactKinds
  PROVE  InOrder(Append(artifacts, KindAt(text, open)), starts \cup {open}, text)
  <1> DEFINE more == starts \cup {open}
             longer == Append(artifacts, KindAt(text, open))
             c == Cardinality(starts)
  <1>1. IsFiniteSet(starts) /\ open \notin starts /\ starts \in SUBSET Nat /\ open \in Nat
    BY LinesFinite, FS_Subset
  <1>2. c \in Nat /\ Cardinality(more) = c + 1
    BY <1>1, FS_AddElement, FS_CardinalityType
  <1>3. /\ Len(longer) = c + 1 /\ longer[c + 1] = KindAt(text, open)
        /\ \A i \in 1..c : longer[i] = artifacts[i]
    BY AppendProperties DEF InOrder
  <1>4. ASSUME NEW s \in more
        PROVE  longer[Cardinality({t \in more : t <= s})] = KindAt(text, s)
    <2>1. CASE s = open
      <3>1. \A t \in more : t <= s
        BY <2>1, <1>1
      <3>2. {t \in more : t <= s} = more
        BY <3>1
      <3> HIDE DEF more
      <3> QED BY <3>2, <2>1, <1>2, <1>3
    <2>2. CASE s \in starts
      <3>1. {t \in more : t <= s} = {t \in starts : t <= s}
        BY <2>2, <1>1
      <3>2. Cardinality({t \in starts : t <= s}) \in 1..c
        <4> DEFINE D == {t \in starts : t <= s}
        <4>1. D \in SUBSET starts /\ D # {}
          BY <2>2, <1>1
        <4>2. IsFiniteSet(D) /\ Cardinality(D) <= c
          BY <4>1, <1>1, FS_Subset
        <4> HIDE DEF D
        <4>3. Cardinality(D) \in Nat /\ Cardinality(D) # 0
          BY <4>1, <4>2, FS_EmptySet, FS_CardinalityType
        <4>4. Cardinality(D) \in 1..c
          BY <4>2, <4>3, <1>2
        <4> QED BY <4>4 DEF D
      <3> QED BY <3>1, <3>2, <1>3, <2>2 DEF InOrder
    <2> QED BY <2>1, <2>2
  <1> HIDE DEF more, longer
  <1>5. InOrder(longer, more, text)
    BY <1>2, <1>3, <1>4 DEF InOrder
  <1> QED BY <1>5 DEF more, longer

(* There is an artifact if a line is one. *)
LEMMA SomeArtifact ==
  ASSUME NEW text \in Seq(Symbols), NEW starts \in SUBSET Lines(text),
         NEW artifacts \in Seq(ArtifactKinds), InOrder(artifacts, starts, text)
  PROVE  artifacts = << >> <=> starts = {}
  BY LinesFinite, FS_Subset, FS_EmptySet, EmptySeq, LenProperties DEF InOrder

(* A refusal changes nothing but the reason. *)
LEMMA RefuseKeeps ==
  ASSUME NEW reader \in Readers, NEW why \in Reasons
  PROVE  /\ Refuse(reader, why) \in Readers
         /\ Refuse(reader, why).pending = reader.pending
         /\ Refuse(reader, why).reason = why
  BY DEF Refuse, Readers

(* A reader that refuses a line refuses a text that is neither an answer nor *)
(* a notice; one that accepts it has the line's record.                      *)
LEMMA ReadLine ==
  ASSUME NEW text \in Seq(Symbols), NEW starts \in SUBSET Lines(text),
         NEW open \in Lines(text), \A s \in starts : s < open,
         NEW reader \in Readers, Records(reader, text, starts),
         NEW line \in Seq(Symbols), line # << >>, LineKind(line) = KindAt(text, open)
  PROVE  LET read == ConsumeLine(reader, line)
         IN  /\ read \in Readers /\ read.pending = reader.pending
             /\ read.reason = "none" => Records(read, text, starts \cup {open})
             /\ read.reason # "none" => ~IsEvidence(text) /\ ~IsNotice(text)
  <1> DEFINE kind == KindAt(text, open)
             read == ConsumeLine(reader, line)
             more == starts \cup {open}
             arts(D) == {s \in D : KindAt(text, s) \in ArtifactKinds}
  <1>0. /\ starts \in SUBSET Nat /\ open \in Nat /\ open \notin starts
        /\ reader.reason = "none"
    BY LinesFinite DEF Records
  <1>1. InOrder(reader.artifacts, arts(starts), text)
    BY DEF Records
  <1>2. reader.artifacts = << >> <=> arts(starts) = {}
    <2>1. arts(starts) \in SUBSET Lines(text)
      OBVIOUS
    <2>2. reader.artifacts \in Seq(ArtifactKinds)
      BY ReaderTypes
    <2> HIDE DEF arts
    <2> QED BY <2>1, <2>2, <1>1, SomeArtifact
  <1>3. kind \notin ArtifactKinds => arts(more) = arts(starts)
    OBVIOUS
  <1>4. kind \in RecordKinds \cup {"malformed"}
    <2>1. ASSUME NEW k \in RecordKinds, <<text[open], text[open + 1]>> = Halves(k)
          PROVE  text[open].of = k
      <3>1. text[open] = [of |-> k, half |-> 1]
        BY <2>1 DEF Halves
      <3> QED BY <3>1
    <2> QED BY <2>1 DEF KindAt
  <1>5. CASE kind = "malformed"
    <2>1. read = Refuse(reader, "malformed")
      BY <1>5, <1>0 DEF ConsumeLine
    <2> HIDE DEF read
    <2>2. read \in Readers /\ read.pending = reader.pending /\ read.reason = "malformed"
      BY <2>1, RefuseKeeps DEF Reasons
    <2>3. ~IsEvidence(text) /\ ~IsNotice(text)
      BY <1>5, Kinds DEF IsEvidence, IsNotice
    <2> QED BY <2>2, <2>3 DEF read
  <1>6. CASE kind = "processing"
    <2>1. ~IsEvidence(text)
      BY <1>6, Kinds DEF IsEvidence
    <2>2. CASE reader.processing \/ reader.sawScores \/ reader.artifacts # << >>
      <3>1. read = Refuse(reader, "misplaced processing")
        BY <1>6, <1>0, <2>2 DEF ConsumeLine
      <3> HIDE DEF read
      <3>2. read \in Readers /\ read.pending = reader.pending
            /\ read.reason = "misplaced processing"
        BY <3>1, RefuseKeeps DEF Reasons
      <3>3. starts # {}
        BY <2>2, <1>2 DEF Records
      <3>4. ~IsNotice(text)
        BY <3>3, <1>0 DEF IsNotice
      <3> QED BY <2>1, <3>2, <3>4 DEF read
    <2>3. CASE ~(reader.processing \/ reader.sawScores \/ reader.artifacts # << >>)
      <3>1. read = [reader EXCEPT !.processing = TRUE]
        BY <1>6, <1>0, <2>3 DEF ConsumeLine
      <3>2. /\ read \in Readers /\ read.pending = reader.pending /\ read.reason = "none"
            /\ read.artifacts = reader.artifacts /\ read.sawScores = reader.sawScores
            /\ read.processing = TRUE
        BY <3>1, <1>0 DEF Readers
      <3>3. starts = {}
        BY <2>3, <1>2 DEF Records
      <3>4. Records(read, text, more)
        BY <3>2, <3>3, <1>6, <1>0, <1>1, <1>3, <2>3, Kinds DEF Records
      <3> QED BY <3>2, <3>4
    <2> QED BY <2>2, <2>3 DEF read
  <1>7. CASE kind \notin {"malformed", "processing"} /\ reader.processing
    <2>1. read = Refuse(reader, "mixed")
      BY <1>7, <1>0 DEF ConsumeLine
    <2> HIDE DEF read
    <2>2. read \in Readers /\ read.pending = reader.pending /\ read.reason = "mixed"
      BY <2>1, RefuseKeeps DEF Reasons
    <2>3. PICK s \in starts : KindAt(text, s) = "processing"
      BY <1>7 DEF Records
    <2>4. ~IsEvidence(text) /\ ~IsNotice(text)
      BY <2>3, <1>0, <1>7, Kinds DEF IsEvidence, IsNotice
    <2> QED BY <2>2, <2>4 DEF read
  <1>8. CASE kind \in {"scores", "badScores"} /\ ~reader.processing
    <2>1. CASE reader.sawScores \/ kind = "badScores"
      <3>1. read = Refuse(reader, "malformed scores")
        BY <1>8, <1>0, <2>1 DEF ConsumeLine
      <3> HIDE DEF read
      <3>2. read \in Readers /\ read.pending = reader.pending
            /\ read.reason = "malformed scores"
        BY <3>1, RefuseKeeps DEF Reasons
      <3>3. ~IsEvidence(text)
        <4>1. CASE kind = "badScores"
          BY <4>1, Kinds DEF IsEvidence
        <4>2. CASE reader.sawScores
          <5>1. PICK s \in starts : KindAt(text, s) = "scores"
            BY <4>2 DEF Records
          <5> QED BY <5>1, <1>0, Kinds DEF IsEvidence
        <4> QED BY <2>1, <4>1, <4>2
      <3>4. ~IsNotice(text)
        BY <1>8 DEF IsNotice
      <3> QED BY <3>2, <3>3, <3>4 DEF read
    <2>2. CASE ~(reader.sawScores \/ kind = "badScores")
      <3>1. read = [reader EXCEPT !.sawScores = TRUE] /\ kind = "scores"
        BY <1>8, <1>0, <2>2 DEF ConsumeLine
      <3>2. /\ read \in Readers /\ read.pending = reader.pending /\ read.reason = "none"
            /\ read.artifacts = reader.artifacts /\ read.processing = reader.processing
            /\ read.sawScores = TRUE
        BY <3>1, <1>0 DEF Readers
      <3>3. \A s \in starts : KindAt(text, s) \in ArtifactKinds
        BY <2>2, <1>8 DEF Records
      <3>4. Records(read, text, more)
        <4>1. InOrder(read.artifacts, arts(more), text)
          BY <3>1, <3>2, <1>1, <1>3, Kinds
        <4>2. \A s, t \in more : KindAt(text, s) = "scores" => t <= s
          BY <3>3, <1>0, Kinds
        <4>3. ~\E s \in more : KindAt(text, s) = "processing"
          BY <3>1, <3>3, Kinds
        <4> QED BY <3>1, <3>2, <3>3, <4>1, <4>2, <4>3, <1>8 DEF Records
      <3> QED BY <3>2, <3>4
    <2> QED BY <2>1, <2>2
  <1>9. CASE kind \in ArtifactKinds /\ ~reader.processing
    <2>1. CASE reader.sawScores
      <3>1. read = Refuse(reader, "after scores")
        BY <1>9, <1>0, <2>1, Kinds DEF ConsumeLine
      <3> HIDE DEF read
      <3>2. read \in Readers /\ read.pending = reader.pending
            /\ read.reason = "after scores"
        BY <3>1, RefuseKeeps DEF Reasons
      <3>3. PICK s \in starts : KindAt(text, s) = "scores"
        BY <2>1 DEF Records
      <3>4. ~IsEvidence(text)
        BY <3>3, <1>0, Kinds DEF IsEvidence
      <3>5. ~IsNotice(text)
        BY <1>9, Kinds DEF IsNotice
      <3> QED BY <3>2, <3>4, <3>5 DEF read
    <2>2. CASE ~reader.sawScores
      <3>1. read = [reader EXCEPT !.artifacts = Append(@, kind)]
        BY <1>9, <1>0, <2>2, Kinds DEF ConsumeLine
      <3>2. /\ read \in Readers /\ read.pending = reader.pending /\ read.reason = "none"
            /\ read.artifacts = Append(reader.artifacts, kind)
            /\ read.processing = reader.processing /\ read.sawScores = reader.sawScores
        <4>1. Append(reader.artifacts, kind) \in Seq(ArtifactKinds)
          BY <1>9, ReaderTypes, AppendProperties
        <4> QED BY <4>1, <3>1, <1>0 DEF Readers
      <3>3. \A s \in starts : KindAt(text, s) \in ArtifactKinds
        BY <2>2, <1>9 DEF Records
      <3>4. InOrder(read.artifacts, arts(more), text)
        <4>1. arts(more) = arts(starts) \cup {open}
          BY <1>9
        <4>2. arts(starts) \in SUBSET Lines(text) /\ \A s \in arts(starts) : s < open
          OBVIOUS
        <4>3. reader.artifacts \in Seq(ArtifactKinds)
          BY ReaderTypes
        <4> HIDE DEF arts
        <4>4. InOrder(Append(reader.artifacts, kind), arts(starts) \cup {open}, text)
          BY <4>2, <4>3, <1>1, <1>9, NextInOrder
        <4> HIDE DEF read, more
        <4> QED BY <4>1, <4>4, <3>2
      <3>5. \A s \in more : KindAt(text, s) \in ArtifactKinds
        BY <3>3, <1>9
      <3>6. Records(read, text, more)
        BY <3>2, <3>4, <3>5, <2>2, <1>9, Kinds DEF Records
      <3> QED BY <3>2, <3>6
    <2> QED BY <2>1, <2>2
  <1> HIDE DEF read, kind, more
  <1> QED
    BY <1>5, <1>6, <1>7, <1>8, <1>9, <1>4, Kinds DEF read, kind, more

(* A reader that has read the first n symbols of a text. *)
ReadsTo(reader, text, n) ==
  LET open == n - Len(reader.pending) + 1
  IN  /\ OpenLine(reader.pending, text, open, n)
      /\ Records(reader, text, Before(text, open))

(* The end of a line, of any length. *)
LEMMA ReadBounded ==
  ASSUME NEW text \in Seq(Symbols), NEW reader \in Readers, NEW n,
         ReadsTo(reader, text, n), n < Len(text) => text[n + 1] = NewLine
  PROVE  LET read == ConsumeBounded(reader, reader.pending)
         IN  /\ read \in Readers /\ read.pending = reader.pending
             /\ read.reason = "none" => Records(read, text, Before(text, n + 2))
             /\ read.reason # "none" /\ ~TooLong(reader.pending)
                  => ~IsEvidence(text) /\ ~IsNotice(text)
  <1> DEFINE line == reader.pending
             open == n - Len(line) + 1
             read == ConsumeBounded(reader, line)
             old == Before(text, open)
  <1>1. line \in Seq(Symbols)
    BY ReaderTypes
  <1>2. OpenLine(line, text, open, n) /\ Records(reader, text, old)
    BY DEF ReadsTo
  <1>3. reader.reason = "none"
    BY <1>2 DEF Records
  <1>4. old \in SUBSET Lines(text) /\ \A s \in old : s < open
    BY DEF Before
  <1> HIDE DEF open, old
  <1>5. /\ line = << >> => Before(text, n + 2) = old
        /\ line # << >> => /\ open \in Lines(text)
                           /\ LineKind(line) = KindAt(text, open)
                           /\ Before(text, n + 2) = old \cup {open}
    BY <1>1, <1>2, EndOfLine DEF old
  <1>6. CASE TooLong(line)
    <2>1. read = Refuse(reader, "line size")
      BY <1>3, <1>6 DEF ConsumeBounded
    <2> HIDE DEF read
    <2>2. read \in Readers /\ read.pending = reader.pending /\ read.reason = "line size"
      BY <2>1, RefuseKeeps DEF Reasons
    <2> QED BY <2>2, <1>6 DEF read
  <1>7. CASE ~TooLong(line) /\ line = << >>
    <2>1. read = reader
      BY <1>3, <1>7 DEF ConsumeBounded, ConsumeLine
    <2> HIDE DEF read
    <2> QED BY <2>1, <1>2, <1>3, <1>5, <1>7 DEF read
  <1>8. CASE ~TooLong(line) /\ line # << >>
    <2>1. read = ConsumeLine(reader, line)
      BY <1>3, <1>8 DEF ConsumeBounded
    <2> HIDE DEF read, line
    <2>2. /\ read \in Readers /\ read.pending = reader.pending
          /\ read.reason = "none" => Records(read, text, old \cup {open})
          /\ read.reason # "none" => ~IsEvidence(text) /\ ~IsNotice(text)
      BY <2>1, <1>1, <1>2, <1>4, <1>5, <1>8, ReadLine
    <2> QED BY <2>2, <1>5, <1>8 DEF read, line
  <1> QED BY <1>6, <1>7, <1>8

(* After a line feed an empty line is open. *)
LEMMA OpenAtNewLine ==
  ASSUME NEW text \in Seq(Symbols), NEW line \in Seq(Symbols), Len(line) = 0,
         NEW n \in Nat, n + 1 \in 1..Len(text), text[n + 1] = NewLine
  PROVE  OpenLine(line, text, n + 2, n + 1)
  <1>1. n + 1 \in 0..Len(text) /\ n + 2 = (n + 1) - Len(line) + 1 /\ n + 2 >= 1
    BY LenProperties
  <1>2. 1..Len(line) = {}
    OBVIOUS
  <1>3. text[n + 2 - 1] = NewLine
    <2>1. n + 2 - 1 = n + 1
      OBVIOUS
    <2> QED BY <2>1
  <1> QED BY <1>1, <1>2, <1>3 DEF OpenLine

(* One more symbol. *)
LEMMA ReadSymbol ==
  ASSUME NEW text \in Seq(Symbols), NEW reader \in Readers, NEW n,
         ReadsTo(reader, text, n), n < Len(text)
  PROVE  LET next == ConsumeSymbol(reader, text[n + 1])
         IN  next \in Readers /\ (next.reason = "none" => ReadsTo(next, text, n + 1))
  <1> DEFINE line == reader.pending
             open == n - Len(line) + 1
             next == ConsumeSymbol(reader, text[n + 1])
  <1>1. line \in Seq(Symbols) /\ Len(line) \in Nat
    BY ReaderTypes, LenProperties
  <1>2. OpenLine(line, text, open, n) /\ Records(reader, text, Before(text, open))
    BY DEF ReadsTo
  <1>3. n \in 0..Len(text) /\ Len(text) \in Nat /\ n + 1 \in 1..Len(text)
    BY <1>2, LenProperties DEF OpenLine
  <1>4. text[n + 1] \in Symbols
    BY <1>3, ElementOfSeq
  <1>5. CASE text[n + 1] = NewLine
    <2> DEFINE read == ConsumeBounded(reader, line)
    <2>1. /\ read \in Readers
          /\ read.reason = "none" => Records(read, text, Before(text, n + 2))
      BY <1>5, ReadBounded
    <2>2. next = [read EXCEPT !.pending = << >>]
      BY <1>5 DEF ConsumeSymbol
    <2> HIDE DEF next, read
    <2>3. /\ next \in Readers /\ next.pending = << >> /\ next.reason = read.reason
          /\ next.artifacts = read.artifacts /\ next.processing = read.processing
          /\ next.sawScores = read.sawScores
      <3>1. << >> \in Seq(Symbols)
        BY EmptySeq
      <3> QED BY <2>1, <2>2, <3>1 DEF Readers
    <2>4. ASSUME next.reason = "none" PROVE ReadsTo(next, text, n + 1)
      <3>1. Records(next, text, Before(text, n + 2))
        BY <2>1, <2>3, <2>4 DEF Records
      <3>2. Len(next.pending) = 0 /\ next.pending \in Seq(Symbols)
        BY <2>3, EmptySeq, ReaderTypes
      <3>3. OpenLine(next.pending, text, n + 2, n + 1)
        BY <3>2, <1>3, <1>5, OpenAtNewLine
      <3>4. (n + 1) - Len(next.pending) + 1 = n + 2
        BY <1>3, <3>2
      <3> QED BY <3>1, <3>3, <3>4 DEF ReadsTo
    <2> QED BY <2>3, <2>4 DEF next
  <1>6. CASE text[n + 1] # NewLine
    <2> DEFINE longer == Append(line, text[n + 1])
    <2>1. next = [reader EXCEPT !.pending = longer]
      BY <1>6 DEF ConsumeSymbol
    <2>2. /\ longer \in Seq(Symbols) /\ Len(longer) = Len(line) + 1
          /\ longer[Len(line) + 1] = text[n + 1]
          /\ \A i \in 1..Len(line) : longer[i] = line[i]
      BY <1>1, <1>4, AppendProperties
    <2> HIDE DEF next, longer
    <2>3. /\ next \in Readers /\ next.pending = longer /\ next.reason = reader.reason
          /\ next.artifacts = reader.artifacts /\ next.processing = reader.processing
          /\ next.sawScores = reader.sawScores
      BY <2>1, <2>2 DEF Readers
    <2>4. (n + 1) - Len(longer) + 1 = open /\ open \in Nat /\ open >= 1
      <3>1. open >= 1
        BY <1>2 DEF OpenLine
      <3>2. Len(line) \in Nat /\ n \in Nat /\ Len(longer) = Len(line) + 1
        BY <2>2, <1>1, <1>3
      <3> HIDE DEF line
      <3>3. open \in Int /\ (n + 1) - Len(longer) + 1 = open
        BY <3>2
      <3> QED BY <3>1, <3>3
    <2>5. Records(next, text, Before(text, open))
      BY <2>3, <1>2 DEF Records
    <2>6. OpenLine(longer, text, open, n + 1)
      <3>1. open > 1 => text[open - 1] = NewLine
        BY <1>2 DEF OpenLine
      <3>2. ASSUME NEW i \in 1..Len(longer)
            PROVE  longer[i] = text[open + i - 1] /\ longer[i] # NewLine
        <4>1. CASE i \in 1..Len(line)
          BY <4>1, <2>2, <1>2 DEF OpenLine
        <4>2. CASE i = Len(line) + 1
          <5>1. open + i - 1 = n + 1
            BY <4>2, <1>1, <1>3
          <5> QED BY <4>2, <5>1, <2>2, <1>6
        <4> QED BY <4>1, <4>2, <2>2, <1>1
      <3> HIDE DEF open, line
      <3>3. n + 1 \in 0..Len(text) /\ open = (n + 1) - Len(longer) + 1
        BY <1>3, <2>4
      <3>4. open >= 1
        BY <2>4
      <3>5. \A i \in 1..Len(longer) : longer[i] = text[open + i - 1] /\ longer[i] # NewLine
        BY <3>2
      <3> QED BY ONLY <3>1, <3>3, <3>4, <3>5 DEF OpenLine
    <2>7. ReadsTo(next, text, n + 1)
      <3> HIDE DEF open, line
      <3>1. (n + 1) - Len(next.pending) + 1 = open
        BY <2>3, <2>4
      <3>2. OpenLine(next.pending, text, open, n + 1)
        BY <2>3, <2>6
      <3> QED BY <3>1, <3>2, <2>5 DEF ReadsTo
    <2> QED BY <2>3, <2>7 DEF next
  <1> QED BY <1>5, <1>6

(* A refusal stands. *)
LEMMA RefusalStands ==
  ASSUME NEW reader \in Readers, NEW symbol \in Symbols, reader.reason # "none"
  PROVE  /\ ConsumeSymbol(reader, symbol) \in Readers
         /\ ConsumeSymbol(reader, symbol).reason # "none"
  <1> DEFINE next == ConsumeSymbol(reader, symbol)
  <1>1. << >> \in Seq(Symbols) /\ Append(reader.pending, symbol) \in Seq(Symbols)
    BY EmptySeq, AppendProperties, ReaderTypes
  <1>2. \/ next = [reader EXCEPT !.pending = << >>]
        \/ next = [reader EXCEPT !.pending = Append(reader.pending, symbol)]
    BY DEF ConsumeSymbol, ConsumeBounded, ConsumeLine
  <1> HIDE DEF next
  <1>3. next \in Readers /\ next.reason = reader.reason
    BY <1>1, <1>2 DEF Readers
  <1> QED BY <1>3 DEF next

(* The readers between the symbols of a chunk exist. *)
LEMMA ConsumedSteps ==
  ASSUME NEW reader, NEW chunk, Len(chunk) \in Nat
  PROVE  \E after : /\ after[0] = reader
                    /\ \A n \in 1..Len(chunk) :
                         after[n] = ConsumeSymbol(after[n - 1], chunk[n])
                    /\ Consumed(reader, chunk) = after[Len(chunk)]
  <1> DEFINE Steps(g, m) == g = [n \in 0..m |->
               IF n = 0 THEN reader ELSE ConsumeSymbol(g[n - 1], chunk[n])]
             S == {m \in Nat : \E g : Steps(g, m)}
  <1>1. 0 \in S
    <2> DEFINE g == [n \in 0..0 |-> reader]
    <2>1. Steps(g, 0)
      OBVIOUS
    <2> QED BY <2>1
  <1>2. ASSUME NEW m \in S PROVE m + 1 \in S
    <2>1. PICK g : Steps(g, m)
      OBVIOUS
    <2> DEFINE h == [n \in 0..(m + 1) |->
                 IF n = m + 1 THEN ConsumeSymbol(g[m], chunk[m + 1]) ELSE g[n]]
    <2>2. Steps(h, m + 1)
      <3>1. ASSUME NEW n \in 0..(m + 1)
            PROVE  h[n] = IF n = 0 THEN reader ELSE ConsumeSymbol(h[n - 1], chunk[n])
        <4>1. CASE n = 0
          BY <4>1, <2>1
        <4>2. CASE n \in 1..m
          <5>1. h[n] = g[n] /\ h[n - 1] = g[n - 1] /\ n \in 0..m
            BY <4>2
          <5>2. g[n] = ConsumeSymbol(g[n - 1], chunk[n])
            BY <2>1, <5>1, <4>2
          <5> QED BY <5>1, <5>2, <4>2
        <4>3. CASE n = m + 1
          <5>1. h[n] = ConsumeSymbol(g[m], chunk[n]) /\ h[n - 1] = g[m] /\ n # 0
            BY <4>3
          <5> QED BY <5>1
        <4> QED BY <4>1, <4>2, <4>3
      <3>2. h = [n \in 0..(m + 1) |-> h[n]]
        OBVIOUS
      <3> HIDE DEF h
      <3> QED BY <3>1, <3>2
    <2> HIDE DEF Steps, h
    <2> QED BY <2>2
  <1>3. Len(chunk) \in S
    <2> HIDE DEF S
    <2>1. S \in SUBSET Nat
      BY DEF S
    <2> QED BY <1>1, <1>2, <2>1, SetInduction
  <1> DEFINE after == CHOOSE g : Steps(g, Len(chunk))
  <1>4. Steps(after, Len(chunk))
    <2>1. \E g : Steps(g, Len(chunk))
      BY <1>3
    <2> HIDE DEF Steps
    <2> QED BY <2>1
  <1>5. Consumed(reader, chunk) = after[Len(chunk)]
    BY DEF Consumed
  <1> HIDE DEF after
  <1>6. /\ after[0] = reader
        /\ \A n \in 1..Len(chunk) : after[n] = ConsumeSymbol(after[n - 1], chunk[n])
    <2>1. \A n \in 0..Len(chunk) :
            after[n] = IF n = 0 THEN reader ELSE ConsumeSymbol(after[n - 1], chunk[n])
      BY <1>4
    <2> QED BY <2>1
  <1> QED BY <1>5, <1>6

(* A part of what is still to come. *)
LEMMA ReadConsumed ==
  ASSUME NEW text \in Seq(Symbols), NEW reader \in Readers, NEW n \in Nat,
         ReadsTo(reader, text, n), NEW chunk \in Seq(Symbols), n + Len(chunk) <= Len(text),
         \A i \in 1..Len(chunk) : chunk[i] = text[n + i]
  PROVE  LET read == Consumed(reader, chunk)
         IN  /\ read \in Readers
             /\ read.reason = "none" => ReadsTo(read, text, n + Len(chunk))
  <1> DEFINE m == Len(chunk)
  <1>1. m \in Nat /\ Len(text) \in Nat
    BY LenProperties
  <1>2. PICK after : /\ after[0] = reader
                     /\ \A k \in 1..m : after[k] = ConsumeSymbol(after[k - 1], chunk[k])
                     /\ Consumed(reader, chunk) = after[m]
    BY <1>1, ConsumedSteps
  <1> HIDE DEF m
  <1> DEFINE Good(k) == /\ after[k] \in Readers
                        /\ after[k].reason = "none" => ReadsTo(after[k], text, n + k)
             S == {k \in Nat : k <= m => Good(k)}
  <1>3. 0 \in S
    BY <1>2
  <1>4. ASSUME NEW k \in S PROVE k + 1 \in S
    <2>1. SUFFICES ASSUME k + 1 <= m PROVE Good(k + 1)
      OBVIOUS
    <2>2. k \in Nat /\ Good(k) /\ k + 1 \in 1..m
      BY <2>1, <1>1
    <2>3. after[k + 1] = ConsumeSymbol(after[k], chunk[k + 1])
      <3>1. (k + 1) - 1 = k
        BY <2>2
      <3> QED BY <3>1, <2>2, <1>2
    <2>4. chunk[k + 1] = text[n + k + 1] /\ n + k < Len(text) /\ n + k \in Nat
      <3>1. n + (k + 1) = n + k + 1
        BY <2>2
      <3>2. chunk[k + 1] = text[n + (k + 1)]
        BY <2>2 DEF m
      <3> QED BY <3>1, <3>2, <2>2, <1>1 DEF m
    <2>5. CASE after[k].reason = "none"
      <3>1. ReadsTo(after[k], text, n + k)
        BY <2>2, <2>5
      <3> DEFINE place == n + k
      <3>2. place < Len(text) /\ ReadsTo(after[k], text, place) /\ after[k] \in Readers
        BY <3>1, <2>2, <2>4
      <3> HIDE DEF place
      <3>3. LET next == ConsumeSymbol(after[k], text[place + 1])
            IN  next \in Readers /\ (next.reason = "none" => ReadsTo(next, text, place + 1))
        BY <3>2, ReadSymbol
      <3>4. place + 1 = n + (k + 1) /\ text[place + 1] = chunk[k + 1]
        BY <2>2, <2>4 DEF place
      <3> QED BY <3>3, <3>4, <2>3
    <2>6. CASE after[k].reason # "none"
      <3>1. chunk[k + 1] \in Symbols
        BY <2>2, ElementOfSeq DEF m
      <3> QED BY <3>1, <2>2, <2>3, <2>6, RefusalStands
    <2> QED BY <2>5, <2>6
  <1>5. m \in S
    <2>1. S \in SUBSET Nat
      OBVIOUS
    <2> HIDE DEF S
    <2> QED BY <1>1, <1>3, <1>4, <2>1, SetInduction
  <1>6. Good(m)
    BY <1>5, <1>1
  <1> QED BY <1>6, <1>2 DEF m

(* One turn of the loop over the chunks leaves no line too long. *)
LEMMA ReadChunk ==
  ASSUME NEW text \in Seq(Symbols), NEW reader \in Readers, NEW n \in Nat,
         ReadsTo(reader, text, n), NEW chunk \in Seq(Symbols), n + Len(chunk) <= Len(text),
         \A i \in 1..Len(chunk) : chunk[i] = text[n + i]
  PROVE  LET read == FeedChunk(reader, chunk)
         IN  read.reason = "none" => /\ read \in Readers /\ ~TooLong(read.pending)
                                     /\ ReadsTo(read, text, n + Len(chunk))
  <1> DEFINE sized == [reader EXCEPT !.bytes = @ + Len(chunk)]
             last  == Consumed(sized, chunk)
             read  == FeedChunk(reader, chunk)
  <1>1. /\ sized \in Readers /\ sized.pending = reader.pending
        /\ sized.reason = reader.reason /\ sized.artifacts = reader.artifacts
        /\ sized.processing = reader.processing /\ sized.sawScores = reader.sawScores
    <2>1. reader.bytes + Len(chunk) \in Nat
      BY LenProperties, ReaderTypes
    <2> QED BY <2>1 DEF Readers
  <1>2. ReadsTo(sized, text, n)
    BY <1>1 DEF ReadsTo, Records
  <1>3. \/ read = Refuse(sized, "response size")
        \/ read = Refuse(last, "line size")
        \/ read = last /\ ~(last.reason = "none" /\ TooLong(last.pending))
    BY DEF FeedChunk
  <1> HIDE DEF sized
  <1>4. last \in Readers /\ (last.reason = "none" => ReadsTo(last, text, n + Len(chunk)))
    BY <1>1, <1>2, ReadConsumed
  <1> HIDE DEF last, read
  <1>5. CASE read = Refuse(sized, "response size")
    <2>1. read.reason = "response size"
      BY <1>5, <1>1, RefuseKeeps DEF Reasons
    <2> QED BY <2>1 DEF read
  <1>6. CASE read = Refuse(last, "line size")
    <2>1. read.reason = "line size"
      BY <1>6, <1>4, RefuseKeeps DEF Reasons
    <2> QED BY <2>1 DEF read
  <1>7. CASE read = last /\ ~(last.reason = "none" /\ TooLong(last.pending))
    <2>1. read.reason = "none" => /\ read \in Readers /\ ~TooLong(read.pending)
                                  /\ ReadsTo(read, text, n + Len(chunk))
      BY <1>7, <1>4
    <2> QED BY <2>1 DEF read
  <1> QED BY <1>3, <1>5, <1>6, <1>7

(* Before the first chunk. *)
LEMMA ReadNothing ==
  ASSUME NEW text \in Seq(Symbols)
  PROVE  /\ FreshReader \in Readers /\ ReadsTo(FreshReader, text, 0)
         /\ ~TooLong(FreshReader.pending)
  <1>1. FreshReader \in Readers
    BY EmptySeq DEF FreshReader, Readers, Reasons
  <1>2. FreshReader.pending = << >> /\ Len(FreshReader.pending) = 0
    BY EmptySeq DEF FreshReader
  <1>3. Before(text, 1) = {}
    BY LenProperties DEF Before, Lines
  <1>4. InOrder(<< >>, {}, text)
    BY FS_EmptySet, EmptySeq DEF InOrder
  <1>5. Records(FreshReader, text, {})
    BY <1>4 DEF Records, FreshReader
  <1>6. OpenLine(FreshReader.pending, text, 1, 0)
    <2>1. 1..Len(FreshReader.pending) = {} /\ 0 \in 0..Len(text)
      BY <1>2, LenProperties
    <2> QED BY <2>1, <1>2 DEF OpenLine
  <1>7. 0 - Len(FreshReader.pending) + 1 = 1
    BY <1>2
  <1>8. ReadsTo(FreshReader, text, 0)
    BY <1>3, <1>5, <1>6, <1>7 DEF ReadsTo
  <1>9. ~TooLong(FreshReader.pending)
    BY <1>2, StreamLimits DEF TooLong
  <1> QED BY <1>1, <1>8, <1>9

(* What a reader makes of a whole text. *)
LEMMA ReadText ==
  ASSUME NEW text \in Seq(Symbols), NEW reader \in Readers,
         ReadsTo(reader, text, Len(text)), ~TooLong(reader.pending)
  PROVE  LET read == FinishStream(reader)
         IN  /\ read.kind = "artifacts" <=> IsEvidence(text)
             /\ read.kind = "processing" <=> IsNotice(text)
             /\ read.kind = "artifacts" =>
                  /\ read.artifacts \in Seq(ArtifactKinds)
                  /\ InOrder(read.artifacts, ArtifactLines(text), text)
             /\ read.kind \in {"refused", "processing", "artifacts"}
  <1> DEFINE last == ConsumeBounded(reader, reader.pending)
             read == FinishStream(reader)
  <1>1. Before(text, Len(text) + 2) = Lines(text)
    BY LenProperties DEF Before, Lines
  <1>2. /\ last \in Readers
        /\ last.reason = "none" => Records(last, text, Lines(text))
        /\ last.reason # "none" => ~IsEvidence(text) /\ ~IsNotice(text)
    BY <1>1, LenProperties, ReadBounded
  <1>3. read = CASE last.reason # "none" -> [kind |-> "refused", reason |-> last.reason]
                 [] last.reason = "none" /\ last.processing -> [kind |-> "processing"]
                 [] OTHER -> [kind |-> "artifacts", artifacts |-> last.artifacts]
    BY DEF FinishStream
  <1> HIDE DEF last, read
  <1>4. CASE last.reason # "none"
    <2>1. read.kind = "refused"
      BY <1>3, <1>4
    <2> QED BY <2>1, <1>2, <1>4 DEF read
  <1>5. CASE last.reason = "none" /\ last.processing
    <2>1. read.kind = "processing"
      BY <1>3, <1>5
    <2>2. PICK s \in Lines(text) : KindAt(text, s) = "processing"
      BY <1>2, <1>5 DEF Records
    <2>3. Lines(text) = {s}
      BY <1>2, <1>5, <2>2 DEF Records
    <2>4. IsNotice(text) /\ ~IsEvidence(text)
      BY <2>2, <2>3, Kinds DEF IsNotice, IsEvidence
    <2> QED BY <2>1, <2>4 DEF read
  <1>6. CASE last.reason = "none" /\ ~last.processing
    <2>1. read.kind = "artifacts" /\ read.artifacts = last.artifacts
      BY <1>3, <1>6
    <2>2. Records(last, text, Lines(text)) /\ last.artifacts \in Seq(ArtifactKinds)
      BY <1>2, <1>6, ReaderTypes
    <2>3. \A s \in Lines(text) : KindAt(text, s) \in ArtifactKinds \cup {"scores"}
      BY <2>2, <1>6 DEF Records
    <2>4. IsEvidence(text)
      BY <2>2, <2>3 DEF IsEvidence, Records
    <2>5. ~IsNotice(text)
      BY <2>3, Kinds DEF IsNotice
    <2>6. InOrder(read.artifacts, ArtifactLines(text), text)
      BY <2>1, <2>2 DEF Records, ArtifactLines
    <2> QED BY <2>1, <2>2, <2>4, <2>5, <2>6 DEF read
  <1> QED BY <1>4, <1>5, <1>6

-----------------------------------------------------------------------------
(***************************************************************************)
(* What the service may answer.                                            *)
(***************************************************************************)
(* The records of a wire text are its lines. *)
LEMMA WireLines ==
  ASSUME NEW kinds \in Seq(RecordKinds)
  PROVE  /\ Wire(kinds) \in Seq(Symbols) /\ Len(Wire(kinds)) = 3 * Len(kinds)
         /\ \A j \in 1..Len(kinds) : /\ 3 * j - 2 \in Lines(Wire(kinds))
                                     /\ KindAt(Wire(kinds), 3 * j - 2) = kinds[j]
  <1> DEFINE text == Wire(kinds)
             L == Len(kinds)
  <1>1. L \in Nat
    BY LenProperties
  <1>2. ASSUME NEW j \in 1..L
        PROVE  /\ 3 * j - 2 \in 1..3 * L /\ 3 * j - 1 \in 1..3 * L /\ 3 * j \in 1..3 * L
               /\ (3 * j - 2) % 3 = 1 /\ (3 * j - 1) % 3 = 2 /\ (3 * j) % 3 = 0
               /\ (3 * j - 2 + 2) \div 3 = j /\ (3 * j - 1 + 2) \div 3 = j
               /\ kinds[j] \in RecordKinds
    <2>1. kinds[j] \in RecordKinds
      BY ElementOfSeq
    <2>2. 3 * j - 2 \in 1..3 * L /\ 3 * j - 1 \in 1..3 * L /\ 3 * j \in 1..3 * L
      BY <1>1
    <2>3. (3 * j - 2) % 3 = 1 /\ (3 * j - 1) % 3 = 2 /\ (3 * j) % 3 = 0
      BY <1>1
    <2>4. (3 * j - 2 + 2) \div 3 = j /\ (3 * j - 1 + 2) \div 3 = j
      BY <1>1
    <2> QED BY <2>1, <2>2, <2>3, <2>4
  <1>3. ASSUME NEW kind \in RecordKinds
        PROVE  /\ Halves(kind)[1] = [of |-> kind, half |-> 1]
               /\ Halves(kind)[2] = [of |-> kind, half |-> 2]
               /\ Halves(kind)[1] # NewLine /\ Halves(kind)[2] # NewLine
               /\ Halves(kind)[1] \in Symbols /\ Halves(kind)[2] \in Symbols
    BY DEF Halves, NewLine, Symbols
  <1>4. ASSUME NEW j \in 1..L
        PROVE  /\ text[3 * j - 2] = Halves(kinds[j])[1]
               /\ text[3 * j - 1] = Halves(kinds[j])[2]
               /\ text[3 * j] = NewLine
    BY <1>2 DEF Wire
  <1>5. ASSUME NEW i \in 1..3 * L
        PROVE  \E j \in 1..L : i = 3 * j - 2 \/ i = 3 * j - 1 \/ i = 3 * j
    <2> DEFINE j == (i + 2) \div 3
    <2>1. j \in 1..L /\ (i = 3 * j - 2 \/ i = 3 * j - 1 \/ i = 3 * j)
      BY <1>1
    <2> QED BY <2>1
  <1>6. NewLine \in Symbols
    BY DEF NewLine, Symbols
  <1>7. text \in [1..3 * L -> Symbols]
    <2>1. ASSUME NEW i \in 1..3 * L PROVE text[i] \in Symbols
      <3>1. PICK j \in 1..L : i = 3 * j - 2 \/ i = 3 * j - 1 \/ i = 3 * j
        BY <1>5
      <3> QED BY <3>1, <1>2, <1>3, <1>4, <1>6
    <2>2. text = [i \in 1..3 * L |-> text[i]]
      BY DEF Wire
    <2> HIDE DEF text
    <2> QED BY <2>1, <2>2
  <1>8. text \in Seq(Symbols) /\ Len(text) = 3 * L /\ DOMAIN text = 1..3 * L
    <2>1. 3 * L \in Nat
      BY <1>1
    <2> HIDE DEF text
    <2> QED BY <1>7, <2>1, SeqDef, LenProperties
  <1>9. ASSUME NEW j \in 1..L
        PROVE  3 * j - 2 \in Lines(text) /\ KindAt(text, 3 * j - 2) = kinds[j]
    <2> DEFINE p == 3 * j - 2
    <2>1. p \in Nat /\ p + 1 = 3 * j - 1 /\ p + 2 = 3 * j /\ p - 1 = 3 * (j - 1)
      OBVIOUS
    <2>2. p \in 1..3 * L /\ p + 1 \in 1..3 * L
      BY <1>2, <2>1
    <2>3. /\ text[p] = Halves(kinds[j])[1] /\ text[p + 1] = Halves(kinds[j])[2]
          /\ text[p + 2] = NewLine /\ kinds[j] \in RecordKinds
      BY <1>2, <1>4, <2>1
    <2>4. p > 1 => text[p - 1] = NewLine
      <3>1. p > 1 => j - 1 \in 1..L
        BY <1>1
      <3> QED BY <3>1, <2>1, <1>4
    <2> HIDE DEF p, text
    <2>5. p \in Lines(text)
      BY <2>2, <2>3, <2>4, <1>3, <1>8 DEF Lines
    <2>6. <<text[p], text[p + 1]>> = Halves(kinds[j]) /\ text[p].of = kinds[j]
      BY <2>3, <1>3 DEF Halves
    <2>7. KindAt(text, p) = kinds[j]
      BY <2>2, <2>3, <2>6, <1>8 DEF KindAt
    <2> QED BY <2>5, <2>7 DEF p
  <1> QED BY <1>8, <1>9

(* A judgement that lets an answer through has seen a finished scan of bytes *)
(* without malware: every other answer is no evidence, has nothing evaluated *)
(* or resolved in it, or says malware.                                       *)
Harmless(text) ==
    /\ IsEvidence(text)
    /\ ArtifactLines(text) # {}
    /\ \A s \in ArtifactLines(text) : KindAt(text, s) \notin {"malware", "unresolved"}

(* What an evaluation finds no fault with has harmless lines only. *)
LEMMA JudgedHarmless ==
  ASSUME NEW text \in Seq(Symbols), IsEvidence(text),
         NEW artifacts \in Seq(ArtifactKinds),
         InOrder(artifacts, ArtifactLines(text), text),
         artifacts # << >>, PolicyResolved(artifacts), ~(BlockingArtifacts(artifacts) > 0)
  PROVE  Harmless(text)
  <1> DEFINE starts == ArtifactLines(text)
             c == Len(artifacts)
             place(s) == Cardinality({t \in starts : t <= s})
  <1>1. starts \in SUBSET Lines(text) /\ starts \in SUBSET Nat /\ IsFiniteSet(starts)
    BY LinesFinite, FS_Subset DEF ArtifactLines
  <1>2. starts # {}
    BY <1>1, SomeArtifact
  <1>3. c \in Nat /\ c = Cardinality(starts) /\ DOMAIN artifacts = 1..c
    BY LenProperties DEF InOrder
  <1>4. \A i \in 1..c : artifacts[i] # "malware"
    <2> DEFINE M == {i \in DOMAIN artifacts : artifacts[i] = "malware"}
    <2>1. M \in SUBSET (1..c) /\ IsFiniteSet(1..c)
      BY <1>3, FS_Interval
    <2>2. IsFiniteSet(M) /\ Cardinality(M) \in Nat
      BY <2>1, FS_Subset, FS_CardinalityType
    <2>3. ~(Cardinality(M) > 0)
      BY DEF BlockingArtifacts
    <2>4. M = {}
      <3> HIDE DEF M
      <3> QED BY <2>2, <2>3, FS_EmptySet
    <2> QED BY <2>4, <1>3
  <1>5. ASSUME NEW s \in starts PROVE KindAt(text, s) \notin {"malware", "unresolved"}
    <2> DEFINE D == {t \in starts : t <= s}
    <2>1. D \in SUBSET starts /\ D # {}
      BY <1>1
    <2>2. IsFiniteSet(D) /\ Cardinality(D) <= c
      BY <2>1, <1>1, <1>3, FS_Subset
    <2>3. Cardinality(D) \in 1..c
      <3> HIDE DEF D
      <3>1. Cardinality(D) \in Nat /\ Cardinality(D) # 0
        BY <2>1, <2>2, FS_EmptySet, FS_CardinalityType
      <3> QED BY <3>1, <2>2, <1>3
    <2>4. KindAt(text, s) = artifacts[Cardinality(D)]
      BY DEF InOrder
    <2> HIDE DEF D
    <2> QED BY <2>3, <2>4, <1>3, <1>4 DEF PolicyResolved
  <1> QED BY <1>2, <1>5 DEF Harmless

(* Two records or three, as they are in the wire. *)
LEMMA WireOf ==
  ASSUME NEW kinds \in Seq(RecordKinds), NEW j \in 1..Len(kinds)
  PROVE  /\ Harmless(Wire(kinds)) =>
              /\ kinds[j] \notin {"malware", "unresolved", "processing", "badScores"}
              /\ kinds[j] = "scores" => j = Len(kinds)
  <1> DEFINE text == Wire(kinds)
             p == 3 * j - 2
             L == Len(kinds)
             q == 3 * L - 2
  <1>1. L \in Nat /\ L \in 1..L
    BY LenProperties
  <1>2. p \in Lines(text) /\ KindAt(text, p) = kinds[j] /\ q \in Lines(text)
    BY <1>1, WireLines
  <1>3. ASSUME Harmless(text)
        PROVE  /\ kinds[j] \notin {"malware", "unresolved", "processing", "badScores"}
               /\ kinds[j] = "scores" => q <= p
    <2> HIDE DEF p, q, text
    <2>1. \/ kinds[j] \in ArtifactKinds
          \/ kinds[j] = "scores" /\ q <= p
      BY <1>2, <1>3 DEF Harmless, IsEvidence
    <2>2. kinds[j] \in ArtifactKinds => kinds[j] \notin {"malware", "unresolved"}
      BY <1>2, <1>3 DEF Harmless, ArtifactLines
    <2> QED BY <2>1, <2>2, Kinds
  <1>4. q <= p => j = L
    BY <1>1
  <1> QED BY <1>3, <1>4

(* No faulty answer passes for a harmless one. *)
LEMMA FaultyNeverHarmless ==
  ASSUME NEW text \in FaultyTexts \cup {Wire(<<"processing">>)}
  PROVE  text \in Seq(Symbols) /\ ~Harmless(text)
  <1>1. CASE text = Wire(<< >>)
    <2> DEFINE kinds == << >>
    <2>1. kinds \in Seq(RecordKinds) /\ Len(kinds) = 0
      BY EmptySeq
    <2> HIDE DEF kinds
    <2>2. text = Wire(kinds)
      BY <1>1 DEF kinds
    <2>3. text \in Seq(Symbols) /\ Len(text) = 0
      <3>1. Wire(kinds) \in Seq(Symbols) /\ Len(Wire(kinds)) = 3 * Len(kinds)
        BY <2>1, WireLines
      <3>2. 3 * Len(kinds) = 0
        BY <2>1
      <3> QED BY <3>1, <3>2, <2>2
    <2>4. Lines(text) = {}
      BY <2>3, LenProperties DEF Lines
    <2> QED BY <2>3, <2>4 DEF Harmless, ArtifactLines
  <1>2. CASE text = Wire(<<"processing">>)
    <2> DEFINE kinds == <<"processing">>
    <2>1. kinds \in Seq(RecordKinds) /\ Len(kinds) = 1 /\ kinds[1] = "processing"
      BY DEF RecordKinds
    <2> HIDE DEF kinds
    <2>2. text = Wire(kinds)
      BY <1>2 DEF kinds
    <2>3. 1 \in 1..Len(kinds)
      BY <2>1
    <2> QED BY <2>1, <2>2, <2>3, WireOf, WireLines
  <1>3. ASSUME NEW a \in RecordKinds, NEW b \in RecordKinds, text = Wire(<<a, b>>),
               a \in {"processing", "scores"} \/ b \in {"processing", "badScores", "unresolved"}
        PROVE  text \in Seq(Symbols) /\ ~Harmless(text)
    <2> DEFINE kinds == <<a, b>>
    <2>1. kinds \in Seq(RecordKinds) /\ Len(kinds) = 2 /\ kinds[1] = a /\ kinds[2] = b
      OBVIOUS
    <2> HIDE DEF kinds
    <2>2. text = Wire(kinds)
      BY <1>3 DEF kinds
    <2>3. 1 \in 1..Len(kinds) /\ 2 \in 1..Len(kinds) /\ 1 # Len(kinds)
      BY <2>1
    <2>4. text \in Seq(Symbols)
      BY <2>1, <2>2, WireLines
    <2>5. Harmless(text) => a \notin {"processing", "scores"}
      BY <2>1, <2>2, <2>3, WireOf
    <2>6. Harmless(text) => b \notin {"processing", "badScores", "unresolved"}
      BY <2>1, <2>2, <2>3, WireOf
    <2> QED BY <2>4, <2>5, <2>6, <1>3
  <1>4. CASE text = SubSeq(Wire(<<"clean", "clean">>), 1, 4)
    <2> DEFINE kinds == <<"clean", "clean">>
               whole == Wire(kinds)
    <2>1. kinds \in Seq(RecordKinds) /\ Len(kinds) = 2
      BY DEF RecordKinds, ArtifactKinds
    <2> HIDE DEF kinds
    <2>2. whole \in Seq(Symbols) /\ Len(whole) = 6 /\ 4 \in Lines(whole)
      <3>1. 2 \in 1..Len(kinds) /\ 3 * 2 - 2 = 4 /\ 3 * Len(kinds) = 6
        BY <2>1
      <3> QED BY <3>1, <2>1, WireLines
    <2>3. text = SubSeq(whole, 1, 4)
      BY <1>4 DEF kinds
    <2> HIDE DEF whole
    <2>4. /\ text \in Seq(Symbols) /\ Len(text) = 4
          /\ text[4] = whole[4] /\ text[3] = whole[3]
      <3>0. \A i \in 1..Len(whole) : whole[i] \in Symbols
        BY <2>2, ElementOfSeq
      <3>1. \A i \in 1..4 : whole[i] \in Symbols
        BY <3>0, <2>2
      <3>2. \A i \in 1..(4 - 1 + 1) : text[i] = whole[1 + i - 1]
        BY <2>3, <3>1, SubSeqProperties
      <3>3. text[4] = whole[1 + 4 - 1] /\ text[3] = whole[1 + 3 - 1]
        BY <3>2
      <3>4. 1 + 4 - 1 = 4 /\ 1 + 3 - 1 = 3
        OBVIOUS
      <3>5. text \in Seq(Symbols) /\ Len(text) = 4
        BY <2>3, <3>1, SubSeqProperties
      <3> QED BY <3>3, <3>4, <3>5
    <2>5. DOMAIN text = 1..4
      BY <2>4, LenProperties
    <2>6. 4 \in Lines(text) /\ KindAt(text, 4) = "malformed"
      BY <2>2, <2>4, <2>5 DEF Lines, KindAt
    <2> QED BY <2>4, <2>6, Kinds DEF Harmless, IsEvidence
  <1>5. CASE text = [i \in 1..(MaxLine + 1) |-> Halves("clean")[1]]
    <2>1. /\ Halves("clean")[1] \in Symbols /\ Halves("clean")[1] # NewLine
          /\ \A kind \in RecordKinds : Halves("clean")[1] # Halves(kind)[2]
      BY DEF Halves, NewLine, Symbols, RecordKinds, ArtifactKinds
    <2>2. MaxLine + 1 \in Nat /\ 1 \in 1..(MaxLine + 1)
      BY StreamLimits
    <2>3. text \in Seq(Symbols) /\ DOMAIN text = 1..(MaxLine + 1)
      BY <1>5, <2>1, <2>2
    <2>4. \A i \in 1..(MaxLine + 1) : text[i] = Halves("clean")[1]
      BY <1>5
    <2>5. 1 \in Lines(text)
      BY <2>1, <2>2, <2>3, <2>4 DEF Lines
    <2>6. KindAt(text, 1) = "malformed"
      <3>1. ASSUME NEW kind \in RecordKinds, 2 \in DOMAIN text,
                   <<text[1], text[2]>> = Halves(kind)
            PROVE  FALSE
        BY <3>1, <2>1, <2>3, <2>4 DEF Halves
      <3> QED BY <3>1 DEF KindAt
    <2> QED BY <2>3, <2>5, <2>6, Kinds DEF Harmless, IsEvidence
  <1>6. CASE text = [i \in 1..(MaxBytes + 1) |-> NewLine]
    <2>1. text \in Seq(Symbols)
      BY <1>6, StreamLimits DEF NewLine, Symbols
    <2>2. Lines(text) = {}
      BY <1>6 DEF Lines
    <2> QED BY <2>1, <2>2 DEF Harmless, ArtifactLines
  <1>7. {"processing", "clean", "scores", "badScores", "unresolved"} \in SUBSET RecordKinds
    BY DEF RecordKinds, ArtifactKinds
  <1> QED BY <1>1, <1>2, <1>3, <1>4, <1>5, <1>6, <1>7 DEF FaultyTexts

(* What a finished scan says of bytes with malware is not harmless either. *)
LEMMA FinishedTells ==
  ASSUME NEW bytes, NEW text \in FinishedTexts(bytes)
  PROVE  text \in Seq(Symbols) /\ (bytes.malware => ~Harmless(text))
  <1>1. ASSUME NEW kinds \in Seq(RecordKinds), NEW j \in 1..Len(kinds), kinds[j] = "malware"
        PROVE  Wire(kinds) \in Seq(Symbols) /\ ~Harmless(Wire(kinds))
    BY <1>1, WireOf, WireLines
  <1>2. /\ <<"clean", "malware", "scores">> \in Seq(RecordKinds)
        /\ <<"clean", "ignored", "scores">> \in Seq(RecordKinds)
        /\ <<"malware">> \in Seq(RecordKinds) /\ <<"clean">> \in Seq(RecordKinds)
    BY DEF RecordKinds, ArtifactKinds
  <1>3. CASE bytes.malware
    <2>1. CASE text = Wire(<<"clean", "malware", "scores">>)
      <3> DEFINE kinds == <<"clean", "malware", "scores">>
      <3>1. kinds \in Seq(RecordKinds) /\ 2 \in 1..Len(kinds) /\ kinds[2] = "malware"
        BY <1>2
      <3> HIDE DEF kinds
      <3>2. Wire(kinds) \in Seq(Symbols) /\ ~Harmless(Wire(kinds))
        BY <3>1, <1>1
      <3> QED BY <3>2, <2>1 DEF kinds
    <2>2. CASE text = Wire(<<"malware">>)
      <3> DEFINE kinds == <<"malware">>
      <3>1. kinds \in Seq(RecordKinds) /\ 1 \in 1..Len(kinds) /\ kinds[1] = "malware"
        BY <1>2
      <3> HIDE DEF kinds
      <3>2. Wire(kinds) \in Seq(Symbols) /\ ~Harmless(Wire(kinds))
        BY <3>1, <1>1
      <3> QED BY <3>2, <2>2 DEF kinds
    <2> QED BY <2>1, <2>2, <1>3 DEF FinishedTexts
  <1>4. CASE ~bytes.malware
    BY <1>2, <1>4, WireLines DEF FinishedTexts
  <1> QED BY <1>3, <1>4

-----------------------------------------------------------------------------
(***************************************************************************)
(* The gate.                                                               *)
(***************************************************************************)
Asking == {"read", "stream", "threat"}
Working == {"auth", "bind", "create"} \cup Asking
Verdicts == {"none", "refused", "malware", "threat", "ok"}
Tarballs == Bytes \cup {NoTarball}
Gates == [pc : Working \cup {"idle", "done"}, tarball : Tarballs, expected : Tarballs,
          threat : BOOLEAN, scanId : Nat, elapsed : Nat, retries : Nat,
          reader : Readers, text : Seq(Symbols), wire : Seq(Symbols), verdict : Verdicts]
Scan == [bytes : Tarballs, finished : BOOLEAN]

GateTypes == gate \in Gates /\ scans \in Seq(Scan)

(* There is a verdict when the call is over, and not before. *)
VerdictAtEnd == gate.verdict = "none" <=> gate.pc # "done"

(* Past its binding a call is about the recorded bytes. *)
BoundBytes == gate.pc \in {"create"} \cup Asking =>
    gate.tarball # NoTarball /\ (gate.expected # NoTarball => gate.tarball = gate.expected)

(* The scan it asks for is of these bytes. *)
AskedScan == gate.pc \in Asking =>
    gate.scanId \in 1..Len(scans) /\ scans[gate.scanId].bytes = gate.tarball

(* What it reads is what the service may have sent, finished only if it was. *)
Answers(bytes, finished) ==
    FaultyTexts \cup {Wire(<<"processing">>)} \cup (IF finished THEN FinishedTexts(bytes) ELSE {})
Answered == gate.pc = "stream" =>
    gate.text \in Answers(gate.tarball, scans[gate.scanId].finished)

(* The reader is as far as the stream, wherever it was cut. *)
ReadSoFar == gate.pc = "stream" =>
    LET n == Len(gate.text) - Len(gate.wire)
    IN  /\ n \in Nat
        /\ \A i \in 1..Len(gate.wire) : gate.wire[i] = gate.text[n + i]
        /\ ReadsTo(gate.reader, gate.text, n) /\ ~TooLong(gate.reader.pending)

(* The threat scan comes after an answer that was let through. *)
ClearedScan == gate.pc = "threat" =>
    scans[gate.scanId].finished /\ ~gate.tarball.malware

GateInv == /\ GateTypes /\ VerdictAtEnd /\ BoundBytes /\ AskedScan
           /\ Answered /\ ReadSoFar /\ ClearedScan

(* The types of the gate's fields. *)
LEMMA GateFields ==
  ASSUME NEW g \in Gates
  PROVE  /\ g.pc \in Working \cup {"idle", "done"} /\ g.tarball \in Tarballs
         /\ g.expected \in Tarballs /\ g.threat \in BOOLEAN /\ g.scanId \in Nat
         /\ g.elapsed \in Nat /\ g.retries \in Nat /\ g.reader \in Readers
         /\ g.text \in Seq(Symbols) /\ g.wire \in Seq(Symbols) /\ g.verdict \in Verdicts
  BY DEF Gates

(* A stream that came to its end was read as what it is. *)
LEMMA WholeAnswer ==
  ASSUME GateInv, gate.pc = "stream", gate.wire = << >>
  PROVE  LET read == FinishStream(gate.reader)
         IN  /\ read.kind = "artifacts" <=> IsEvidence(gate.text)
             /\ read.kind = "processing" <=> IsNotice(gate.text)
             /\ read.kind = "artifacts" =>
                  /\ read.artifacts \in Seq(ArtifactKinds)
                  /\ InOrder(read.artifacts, ArtifactLines(gate.text), gate.text)
             /\ read.kind \in {"refused", "processing", "artifacts"}
  <1>1. gate.text \in Seq(Symbols) /\ gate.reader \in Readers
    BY GateFields DEF GateInv, GateTypes
  <1>2. Len(gate.wire) = 0 /\ Len(gate.text) \in Nat
    BY <1>1, EmptySeq, LenProperties
  <1>3. Len(gate.text) - Len(gate.wire) = Len(gate.text)
    BY <1>2
  <1>4. ReadsTo(gate.reader, gate.text, Len(gate.text)) /\ ~TooLong(gate.reader.pending)
    BY <1>3 DEF GateInv, ReadSoFar
  <1> QED BY <1>1, <1>4, ReadText

(* An answer that is let through is that of a finished, harmless scan. *)
LEMMA JudgedClean ==
  ASSUME GateInv, gate.pc = "stream", gate.wire = << >>,
         NEW artifacts, artifacts = FinishStream(gate.reader).artifacts,
         FinishStream(gate.reader).kind = "artifacts",
         artifacts # << >>, PolicyResolved(artifacts), ~(BlockingArtifacts(artifacts) > 0)
  PROVE  scans[gate.scanId].finished /\ ~gate.tarball.malware
  <1>1. gate.text \in Seq(Symbols)
    BY GateFields DEF GateInv, GateTypes
  <1>2. /\ IsEvidence(gate.text) /\ artifacts \in Seq(ArtifactKinds)
        /\ InOrder(artifacts, ArtifactLines(gate.text), gate.text)
    BY WholeAnswer
  <1>3. Harmless(gate.text)
    BY <1>1, <1>2, JudgedHarmless
  <1>4. gate.text \in Answers(gate.tarball, scans[gate.scanId].finished)
    BY DEF GateInv, Answered
  <1>5. gate.text \notin FaultyTexts \cup {Wire(<<"processing">>)}
    BY <1>3, FaultyNeverHarmless
  <1>6. scans[gate.scanId].finished /\ gate.text \in FinishedTexts(gate.tarball)
    BY <1>4, <1>5 DEF Answers
  <1> QED BY <1>3, <1>6, FinishedTells

(* The call of ScanPromise that a state of the gate stands for. *)
CallOf(g) ==
  [pc |-> CASE g.pc \in {"idle", "done"} -> g.pc [] OTHER -> "asked",
   tarball |-> g.tarball, expected |-> g.expected,
   verdict |-> CASE g.verdict = "none" -> "none"
                 [] g.verdict = "ok"   -> "yes"
                 [] OTHER              -> "no"]

LEMMA CallCases ==
  ASSUME NEW g, NEW pc, NEW verdict,
         \/ g.pc = "idle" /\ g.verdict = "none" /\ pc = "idle" /\ verdict = "none"
         \/ g.pc \in Working /\ g.verdict = "none" /\ pc = "asked" /\ verdict = "none"
         \/ g.pc = "done" /\ g.verdict = "ok" /\ pc = "done" /\ verdict = "yes"
         \/ g.pc = "done" /\ g.verdict \in {"refused", "malware", "threat"}
              /\ pc = "done" /\ verdict = "no"
  PROVE  CallOf(g) = [pc |-> pc, tarball |-> g.tarball, expected |-> g.expected,
                      verdict |-> verdict]
  BY DEF CallOf, Working, Asking

(* A step that leaves call and scans alone, or is one of the promise. *)
Simulates == Promise!PromiseNext(Bytes) \/ (CallOf(gate') = CallOf(gate) /\ scans' = scans)

(* While a call is asked it has no verdict. *)
LEMMA AskedCall ==
  ASSUME GateInv, gate.pc \in Working
  PROVE  CallOf(gate) = [pc |-> "asked", tarball |-> gate.tarball,
                         expected |-> gate.expected, verdict |-> "none"]
  <1>1. gate.verdict = "none"
    BY DEF GateInv, VerdictAtEnd, Working, Asking
  <1> QED BY <1>1, CallCases

(* The parts of the invariant that hold where nothing is asked. *)
LEMMA InvElsewhere ==
  ASSUME gate' \in Gates, scans' \in Seq(Scan), VerdictAtEnd',
         gate'.pc \in {"idle", "done", "auth", "bind"}
  PROVE  GateInv'
  BY DEF GateInv, GateTypes, BoundBytes, AskedScan, Answered, ReadSoFar, ClearedScan, Asking

(* The types of an idle gate. *)
LEMMA IdleTypes == IdleGate \in Gates
  <1>1. FreshReader \in Readers /\ << >> \in Seq(Symbols)
    BY ReadNothing, EmptySeq
  <1> QED BY <1>1 DEF IdleGate, Gates, Tarballs, Verdicts, Working

(* A call that is answered. *)
LEMMA CallAnswered ==
  ASSUME NEW tarball, NEW expected, NEW answer, NEW call,
         call = [pc |-> "asked", tarball |-> tarball, expected |-> expected,
                 verdict |-> "none"]
  PROVE  [call EXCEPT !.pc = "done", !.verdict = answer] =
           [pc |-> "done", tarball |-> tarball, expected |-> expected, verdict |-> answer]
  <1> DEFINE half == [call EXCEPT !.pc = "done"]
  <1>1. half = [pc |-> "done", tarball |-> tarball, expected |-> expected,
                verdict |-> "none"]
    OBVIOUS
  <1>2. [half EXCEPT !.verdict = answer] =
          [pc |-> "done", tarball |-> tarball, expected |-> expected, verdict |-> answer]
    <2> HIDE DEF half
    <2> QED BY <1>1
  <1>3. [call EXCEPT !.pc = "done", !.verdict = answer] = [half EXCEPT !.verdict = answer]
    OBVIOUS
  <1> QED BY <1>2, <1>3

(* Every way out of a call. *)
LEMMA Concluding ==
  ASSUME GateInv, gate.pc \in Working, NEW verdict \in Verdicts \ {"none"},
         Conclude(verdict), scans' \in Seq(Scan)
  PROVE  /\ GateInv'
         /\ CallOf(gate') = [CallOf(gate) EXCEPT !.pc = "done",
                               !.verdict = IF verdict = "ok" THEN "yes" ELSE "no"]
  <1> DEFINE new == [IdleGate EXCEPT !.pc = "done", !.tarball = gate.tarball,
                       !.expected = gate.expected, !.scanId = gate.scanId,
                       !.verdict = verdict]
  <1>1. gate' = new
    BY DEF Conclude
  <1>2. /\ gate.tarball \in Tarballs /\ gate.expected \in Tarballs /\ gate.scanId \in Nat
    BY GateFields DEF GateInv, GateTypes
  <1>3. /\ new \in Gates /\ new.pc = "done" /\ new.verdict = verdict
        /\ new.tarball = gate.tarball /\ new.expected = gate.expected
    BY <1>2, IdleTypes DEF Gates
  <1> HIDE DEF new
  <1>4. GateInv'
    BY <1>1, <1>3, InvElsewhere DEF VerdictAtEnd
  <1>5. CallOf(gate') = [pc |-> "done", tarball |-> gate.tarball, expected |-> gate.expected,
                         verdict |-> IF verdict = "ok" THEN "yes" ELSE "no"]
    BY <1>1, <1>3, CallCases DEF Verdicts
  <1>6. CallOf(gate) = [pc |-> "asked", tarball |-> gate.tarball,
                        expected |-> gate.expected, verdict |-> "none"]
    BY AskedCall
  <1> DEFINE answer == IF verdict = "ok" THEN "yes" ELSE "no"
  <1>7. CallOf(gate') = [CallOf(gate) EXCEPT !.pc = "done", !.verdict = answer]
    <2>1. CallOf(gate') = [pc |-> "done", tarball |-> gate.tarball,
                           expected |-> gate.expected, verdict |-> answer]
      BY <1>5
    <2> DEFINE call == CallOf(gate)
    <2> HIDE DEF answer, call
    <2>2. call = [pc |-> "asked", tarball |-> gate.tarball, expected |-> gate.expected,
                  verdict |-> "none"]
      BY <1>6 DEF call
    <2>3. [call EXCEPT !.pc = "done", !.verdict = answer] =
            [pc |-> "done", tarball |-> gate.tarball, expected |-> gate.expected,
             verdict |-> answer]
      BY <2>2, CallAnswered
    <2> QED BY <2>1, <2>3 DEF call
  <1> QED BY <1>4, <1>7

(* A refusal is a no. *)
LEMMA Refusing ==
  ASSUME GateInv, gate.pc \in Working, NEW verdict \in {"refused", "malware", "threat"},
         Conclude(verdict), UNCHANGED scans
  PROVE  GateInv' /\ Simulates
  <1>1. scans' \in Seq(Scan)
    BY DEF GateInv, GateTypes
  <1>2. /\ GateInv'
        /\ CallOf(gate') = [CallOf(gate) EXCEPT !.pc = "done", !.verdict = "no"]
    BY <1>1, Concluding DEF Verdicts
  <1>3. CallOf(gate).pc = "asked"
    BY AskedCall
  <1>4. Promise!SayNo
    BY <1>2, <1>3 DEF Promise!SayNo, CallOf
  <1> QED BY <1>2, <1>4 DEF Simulates, Promise!PromiseNext, Promise!PromiseStep

(* A yes is of the recorded bytes, scanned and clean. *)
LEMMA Passing ==
  ASSUME GateInv, gate.pc \in Asking, Conclude("ok"), UNCHANGED scans,
         scans[gate.scanId].finished, ~gate.tarball.malware
  PROVE  GateInv' /\ Simulates
  <1>1. scans' \in Seq(Scan) /\ gate.pc \in Working
    BY DEF GateInv, GateTypes, Working
  <1>2. /\ GateInv'
        /\ CallOf(gate') = [CallOf(gate) EXCEPT !.pc = "done", !.verdict = "yes"]
    BY <1>1, Concluding DEF Verdicts
  <1>3. /\ CallOf(gate).pc = "asked" /\ CallOf(gate).tarball = gate.tarball
        /\ CallOf(gate).expected = gate.expected
    BY <1>1, AskedCall
  <1>4. Promise!Bound(gate.tarball, gate.expected)
    BY DEF GateInv, BoundBytes, Promise!Bound
  <1>5. Promise!ScannedClean(gate.tarball)
    <2>1. gate.scanId \in DOMAIN scans /\ scans[gate.scanId].bytes = gate.tarball
      BY LenProperties DEF GateInv, GateTypes, AskedScan
    <2> QED BY <2>1 DEF Promise!ScannedClean
  <1>6. Promise!SayYes
    BY <1>2, <1>3, <1>4, <1>5 DEF Promise!SayYes, CallOf
  <1> QED BY <1>2, <1>6 DEF Simulates, Promise!PromiseNext, Promise!PromiseStep

(* Going on to ask for the scan, with nothing of the last attempt. *)
LEMMA Reading ==
  ASSUME GateInv, gate.pc \in Asking, UNCHANGED scans, NEW retries \in Nat, NEW elapsed \in Nat,
         gate' = [gate EXCEPT !.pc = "read", !.retries = retries, !.wire = << >>,
                              !.text = << >>, !.reader = FreshReader, !.elapsed = elapsed]
  PROVE  GateInv' /\ Simulates
  <1>1. gate \in Gates /\ scans \in Seq(Scan) /\ gate.verdict = "none" /\ gate.pc \in Working
    BY DEF GateInv, GateTypes, VerdictAtEnd, Working, Asking
  <1>2. /\ gate' \in Gates /\ gate'.pc = "read" /\ gate'.tarball = gate.tarball
        /\ gate'.expected = gate.expected /\ gate'.scanId = gate.scanId
        /\ gate'.verdict = "none"
    <2>1. FreshReader \in Readers /\ << >> \in Seq(Symbols) /\ "read" \in Working
      BY ReadNothing, EmptySeq DEF Working, Asking
    <2> QED BY <1>1, <2>1 DEF Gates
  <1>3. GateInv'
    BY <1>1, <1>2 DEF GateInv, GateTypes, VerdictAtEnd, BoundBytes, AskedScan, Answered,
                      ReadSoFar, ClearedScan, Asking
  <1>4. CallOf(gate') = [pc |-> "asked", tarball |-> gate.tarball,
                         expected |-> gate.expected, verdict |-> "none"]
    BY ZenonT(30), <1>2, CallCases DEF Working, Asking
  <1> QED BY <1>1, <1>3, <1>4, AskedCall DEF Simulates

(* The time a call has taken is a number. *)
LEMMA LaterTypes == ASSUME NEW elapsed \in Nat PROVE Later(elapsed) \in Nat
  BY DEF Later

(* An attempt that fails is tried again or ends the call. *)
LEMMA Failing ==
  ASSUME GateInv, gate.pc \in Asking, UNCHANGED scans, NEW transient, AttemptFails(transient)
  PROVE  GateInv' /\ Simulates
  <1>1. gate.pc \in Working /\ gate.retries \in Nat /\ gate.elapsed \in Nat
    BY GateFields DEF GateInv, GateTypes, Working
  <1>2. CASE Conclude("refused")
    BY <1>1, <1>2, Refusing
  <1>3. CASE gate' = [gate EXCEPT !.pc = "read", !.retries = @ + 1, !.wire = << >>,
                         !.text = << >>, !.reader = FreshReader, !.elapsed = Later(@)]
    <2>1. gate.retries + 1 \in Nat /\ Later(gate.elapsed) \in Nat
      BY <1>1, LaterTypes
    <2> QED BY <2>1, <1>3, Reading
  <1> QED BY <1>2, <1>3 DEF AttemptFails

(* A call comes in. *)
LEMMA Calling ==
  ASSUME GateInv, NEW tarball \in Tarballs, NEW expected \in Tarballs,
         NEW threat \in BOOLEAN, NEW context \in BOOLEAN,
         CallGate(tarball, expected, threat, context)
  PROVE  GateInv' /\ Simulates
  <1>1. gate.pc = "idle" /\ gate.verdict = "none" /\ scans \in Seq(Scan) /\ scans' = scans
    BY DEF CallGate, GateInv, GateTypes, VerdictAtEnd
  <1> DEFINE pc == IF context THEN "bind" ELSE "auth"
  <1>2. pc \in {"bind", "auth"}
    OBVIOUS
  <1>3. gate' = [IdleGate EXCEPT !.pc = pc, !.tarball = tarball, !.expected = expected,
                                 !.threat = threat]
    BY DEF CallGate
  <1> HIDE DEF pc
  <1>4. /\ gate' \in Gates /\ gate'.pc \in {"bind", "auth"} /\ gate'.tarball = tarball
        /\ gate'.expected = expected /\ gate'.verdict = "none"
    <2>1. pc \in Working /\ IdleGate.verdict = "none"
      BY <1>2 DEF Working, IdleGate
    <2> QED BY <1>2, <1>3, <2>1, IdleTypes DEF Gates
  <1>5. GateInv'
    BY <1>1, <1>4, InvElsewhere DEF VerdictAtEnd
  <1>6. CallOf(gate') = [pc |-> "asked", tarball |-> tarball, expected |-> expected,
                         verdict |-> "none"]
    BY <1>4, CallCases DEF Working
  <1>7. CallOf(gate).pc = "idle"
    BY <1>1, CallCases
  <1>8. Promise!Ask(tarball, expected)
    BY <1>6, <1>7 DEF Promise!Ask, CallOf
  <1> QED BY <1>1, <1>5, <1>8 DEF Simulates, Promise!PromiseNext, Tarballs

(* The token, its quota and its organization. *)
LEMMA Preflighting ==
  ASSUME GateInv, NEW env, Preflight(env)
  PROVE  GateInv' /\ Simulates
  <1>1. gate.pc = "auth" /\ scans' = scans /\ gate \in Gates /\ scans \in Seq(Scan)
        /\ gate.verdict = "none" /\ gate.pc \in Working
    BY DEF Preflight, GateInv, GateTypes, VerdictAtEnd, Working
  <1>2. CASE Conclude("refused")
    BY <1>1, <1>2, Refusing
  <1>3. CASE gate' = [gate EXCEPT !.pc = "bind"]
    <2>1. /\ gate' \in Gates /\ gate'.pc = "bind" /\ gate'.tarball = gate.tarball
          /\ gate'.expected = gate.expected /\ gate'.verdict = "none"
      BY <1>1, <1>3 DEF Gates, Working
    <2>2. GateInv'
      BY <1>1, <2>1, InvElsewhere DEF VerdictAtEnd
    <2>3. CallOf(gate') = [pc |-> "asked", tarball |-> gate.tarball,
                           expected |-> gate.expected, verdict |-> "none"]
      BY <2>1, CallCases DEF Working
    <2> QED BY <1>1, <2>2, <2>3, AskedCall DEF Simulates
  <1> QED BY <1>2, <1>3 DEF Preflight

(* The tarball is bound to the recorded digest. *)
LEMMA Binding ==
  ASSUME GateInv, NEW readable, BindTarball(readable)
  PROVE  GateInv' /\ Simulates
  <1>1. gate.pc = "bind" /\ scans' = scans /\ gate \in Gates /\ scans \in Seq(Scan)
        /\ gate.verdict = "none" /\ gate.pc \in Working
    BY DEF BindTarball, GateInv, GateTypes, VerdictAtEnd, Working
  <1>2. CASE Conclude("refused")
    BY <1>1, <1>2, Refusing
  <1>3. CASE BoundTarball(readable) /\ gate' = [gate EXCEPT !.pc = "create"]
    <2>1. /\ gate' \in Gates /\ gate'.pc = "create" /\ gate'.tarball = gate.tarball
          /\ gate'.expected = gate.expected /\ gate'.verdict = "none"
      BY <1>1, <1>3 DEF Gates, Working
    <2>2. BoundBytes'
      BY <1>3, <2>1 DEF BoundTarball, BoundBytes
    <2>3. GateInv'
      BY <1>1, <2>1, <2>2 DEF GateInv, GateTypes, VerdictAtEnd, AskedScan, Answered, ReadSoFar,
                              ClearedScan, Asking
    <2>4. CallOf(gate') = [pc |-> "asked", tarball |-> gate.tarball,
                           expected |-> gate.expected, verdict |-> "none"]
      BY <2>1, CallCases DEF Working
    <2> QED BY <1>1, <2>3, <2>4, AskedCall DEF Simulates
  <1> QED BY <1>2, <1>3 DEF BindTarball

(* The service creates the scan, or not, and tells, or not. *)
LEMMA Creating ==
  ASSUME GateInv, NEW answered \in BOOLEAN, CreateScan(answered)
  PROVE  GateInv' /\ Simulates
  <1> DEFINE made == [bytes |-> gate.tarball, finished |-> FALSE]
  <1>1. /\ gate.pc = "create" /\ gate \in Gates /\ scans \in Seq(Scan)
        /\ gate.verdict = "none" /\ gate.pc \in Working /\ Len(scans) < MaxScans
        /\ scans' = Append(scans, made)
    BY DEF CreateScan, GateInv, GateTypes, VerdictAtEnd, Working
  <1>2. made \in Scan
    BY <1>1, GateFields DEF Scan
  <1>3. CallOf(gate) = [pc |-> "asked", tarball |-> gate.tarball,
                        expected |-> gate.expected, verdict |-> "none"]
    BY <1>1, AskedCall
  <1>4. Promise!CreateScan
    <2>1. Promise!Bound(gate.tarball, gate.expected)
      BY <1>1 DEF GateInv, BoundBytes, Promise!Bound
    <2>2. /\ CallOf(gate).pc = "asked" /\ CallOf(gate).tarball = gate.tarball
          /\ CallOf(gate).expected = gate.expected
      BY <1>3
    <2> QED BY <1>1, <2>1, <2>2 DEF Promise!CreateScan, CallOf
  <1>5. /\ scans' \in Seq(Scan) /\ Len(scans') = Len(scans) + 1
        /\ scans'[Len(scans')] = made /\ Len(scans) \in Nat
    <2> HIDE DEF made
    <2> QED BY <1>1, <1>2, AppendProperties, LenProperties
  <1>6. CASE answered /\ gate' = [gate EXCEPT !.pc = "read", !.scanId = Len(scans')]
    <2>1. /\ gate' \in Gates /\ gate'.pc = "read" /\ gate'.tarball = gate.tarball
          /\ gate'.expected = gate.expected /\ gate'.verdict = "none"
          /\ gate'.scanId = Len(scans')
      <3>1. Len(scans') \in Nat /\ "read" \in Working
        BY <1>5 DEF Working, Asking
      <3> QED BY <1>1, <1>6, <3>1 DEF Gates
    <2>2. AskedScan'
      <3>1. Len(scans') \in 1..Len(scans')
        BY <1>5
      <3>2. scans'[Len(scans')].bytes = gate.tarball
        BY <1>5
      <3> QED BY <2>1, <3>1, <3>2 DEF AskedScan
    <2>3. BoundBytes'
      BY <1>1, <2>1 DEF GateInv, BoundBytes
    <2>4. GateInv'
      BY <1>5, <2>1, <2>2, <2>3 DEF GateInv, GateTypes, VerdictAtEnd, Answered, ReadSoFar,
                                    ClearedScan
    <2>5. CallOf(gate') = CallOf(gate)
      BY <2>1, <1>3, CallCases DEF Working, Asking
    <2>6. Promise!Create
      BY <1>4, <2>5 DEF Promise!Create, CallOf
    <2> QED BY <2>4, <2>6 DEF Simulates, Promise!PromiseNext, Promise!PromiseStep
  <1>7. CASE Conclude("refused")
    <2>1. /\ GateInv'
          /\ CallOf(gate') = [CallOf(gate) EXCEPT !.pc = "done", !.verdict = "no"]
      <3>1. "refused" \in Verdicts \ {"none"}
        BY DEF Verdicts
      <3>2. /\ GateInv'
            /\ CallOf(gate') = [CallOf(gate) EXCEPT !.pc = "done",
                                  !.verdict = IF "refused" = "ok" THEN "yes" ELSE "no"]
        BY <1>1, <1>5, <1>7, <3>1, Concluding
      <3> QED BY <3>2
    <2>2. Promise!CreateLost
      BY <1>4, <2>1 DEF Promise!CreateLost, CallOf
    <2> QED BY <2>1, <2>2 DEF Simulates, Promise!PromiseNext, Promise!PromiseStep
  <1> QED BY <1>6, <1>7 DEF CreateScan

(* The service finishes a scan: it goes on saying so. *)
LEMMA Finishing ==
  ASSUME GateInv, NEW id \in DOMAIN scans, FinishScan(id)
  PROVE  GateInv' /\ Simulates
  <1>1. /\ gate \in Gates /\ scans \in Seq(Scan) /\ gate' = gate
        /\ scans' = [scans EXCEPT ![id].finished = TRUE] /\ ~scans[id].finished
    BY DEF FinishScan, GateInv, GateTypes
  <1>2. id \in 1..Len(scans) /\ scans[id] \in Scan
    BY <1>1, LenProperties, ElementOfSeq
  <1> DEFINE done == [scans[id] EXCEPT !.finished = TRUE]
  <1>3. done \in Scan /\ done.finished /\ done.bytes = scans[id].bytes
    BY <1>2 DEF Scan
  <1>4. scans' = [scans EXCEPT ![id] = done]
    BY <1>1
  <1> HIDE DEF done
  <1>5. /\ scans' \in Seq(Scan) /\ Len(scans') = Len(scans)
        /\ \A i \in 1..Len(scans) : scans'[i] = IF i = id THEN done ELSE scans[i]
    <2> DEFINE new == [scans EXCEPT ![id] = done]
    <2>1. /\ new \in Seq(Scan) /\ Len(new) = Len(scans)
          /\ \A i \in 1..Len(scans) : new[i] = IF i = id THEN done ELSE scans[i]
      BY <1>1, <1>2, <1>3, ExceptSeq
    <2> QED BY <1>4, <2>1
  <1>6. \A i \in 1..Len(scans) : /\ scans'[i].bytes = scans[i].bytes
                                 /\ scans[i].finished => scans'[i].finished
    BY <1>3, <1>5
  <1>7. ASSUME gate.pc = "stream"
        PROVE  gate.text \in Answers(gate.tarball, scans'[gate.scanId].finished)
    <2>1. gate.scanId \in 1..Len(scans)
      BY <1>7 DEF GateInv, AskedScan, Asking
    <2>2. gate.text \in Answers(gate.tarball, scans[gate.scanId].finished)
      BY <1>7 DEF GateInv, Answered
    <2> QED BY <2>1, <2>2, <1>6 DEF Answers
  <1>8. GateInv'
    <2>1. GateTypes' /\ VerdictAtEnd' /\ BoundBytes' /\ ReadSoFar'
      BY <1>1, <1>5 DEF GateInv, GateTypes, VerdictAtEnd, BoundBytes, ReadSoFar
    <2>2. AskedScan'
      BY <1>1, <1>5, <1>6 DEF GateInv, AskedScan
    <2>3. Answered'
      BY <1>1, <1>7 DEF Answered
    <2>4. ClearedScan'
      BY <1>1, <1>6 DEF GateInv, ClearedScan, AskedScan, Asking
    <2> QED BY <2>1, <2>2, <2>3, <2>4 DEF GateInv
  <1>9. Promise!ServiceStep
    BY <1>1 DEF Promise!ServiceStep, Promise!FinishScan
  <1> QED BY <1>8, <1>9 DEF Simulates, Promise!PromiseNext

(* A stream is opened. *)
LEMMA Opening ==
  ASSUME GateInv, OpenStream
  PROVE  GateInv' /\ Simulates
  <1>1. /\ gate.pc = "read" /\ scans' = scans /\ gate \in Gates /\ scans \in Seq(Scan)
        /\ gate.verdict = "none" /\ gate.pc \in Working
    BY DEF OpenStream, GateInv, GateTypes, VerdictAtEnd, Working, Asking
  <1>2. PICK text \in Texts(gate.scanId) :
          gate' = [gate EXCEPT !.pc = "stream", !.text = text, !.wire = text,
                               !.reader = FreshReader]
    BY DEF OpenStream
  <1>3. text \in Answers(gate.tarball, scans[gate.scanId].finished)
    BY <1>1 DEF GateInv, AskedScan, Texts, Answers, Asking
  <1>4. text \in Seq(Symbols)
    BY <1>3, FaultyNeverHarmless, FinishedTells DEF Answers
  <1>5. /\ gate' \in Gates /\ gate'.pc = "stream" /\ gate'.tarball = gate.tarball
        /\ gate'.expected = gate.expected /\ gate'.scanId = gate.scanId
        /\ gate'.verdict = "none" /\ gate'.text = text /\ gate'.wire = text
        /\ gate'.reader = FreshReader
    <2>1. FreshReader \in Readers /\ "stream" \in Working
      BY <1>4, ReadNothing DEF Working, Asking
    <2> QED BY <1>1, <1>2, <1>4, <2>1 DEF Gates
  <1>6. ReadSoFar'
    <2>1. Len(text) - Len(text) = 0 /\ \A i \in 1..Len(text) : text[i] = text[0 + i]
      BY <1>4, LenProperties
    <2>2. ReadsTo(FreshReader, text, 0) /\ ~TooLong(FreshReader.pending)
      BY <1>4, ReadNothing
    <2> QED BY <1>5, <2>1, <2>2 DEF ReadSoFar
  <1>7. AskedScan' /\ BoundBytes'
    BY <1>1, <1>5 DEF GateInv, AskedScan, BoundBytes, Asking
  <1>8. Answered'
    BY <1>1, <1>3, <1>5 DEF Answered
  <1>9. GateInv'
    BY <1>1, <1>5, <1>6, <1>7, <1>8 DEF GateInv, GateTypes, VerdictAtEnd, ClearedScan
  <1>10. CallOf(gate') = [pc |-> "asked", tarball |-> gate.tarball,
                          expected |-> gate.expected, verdict |-> "none"]
    BY <1>5, CallCases DEF Working, Asking
  <1> QED BY <1>1, <1>9, <1>10, AskedCall DEF Simulates

(* A chunk comes in, of any length. *)
LEMMA Receiving ==
  ASSUME GateInv, NEW length, ReceiveChunk(length)
  PROVE  GateInv' /\ Simulates
  <1> DEFINE text == gate.text
             wire == gate.wire
             chunk == SubSeq(wire, 1, length)
             rest == SubSeq(wire, length + 1, Len(wire))
             read == FeedChunk(gate.reader, chunk)
             n == Len(text) - Len(wire)
  <1>1. /\ gate.pc = "stream" /\ scans' = scans /\ gate \in Gates /\ scans \in Seq(Scan)
        /\ gate.verdict = "none" /\ gate.pc \in Working /\ length \in 1..Len(wire)
    BY DEF ReceiveChunk, GateInv, GateTypes, VerdictAtEnd, Working, Asking
  <1>2. CASE Conclude("refused")
    BY <1>1, <1>2, Refusing
  <1>3. CASE /\ read.reason = "none"
             /\ gate' = [gate EXCEPT !.reader = read, !.wire = rest]
    <2>1. /\ text \in Seq(Symbols) /\ wire \in Seq(Symbols) /\ gate.reader \in Readers
          /\ Len(text) \in Nat /\ Len(wire) \in Nat /\ length \in Nat
      BY <1>1, GateFields, LenProperties
    <2>2. /\ n \in Nat /\ ReadsTo(gate.reader, text, n)
          /\ \A i \in 1..Len(wire) : wire[i] = text[n + i]
      BY <1>1 DEF GateInv, ReadSoFar
    <2> HIDE DEF text, wire
    <2>3. \A i \in 1..Len(wire) : wire[i] \in Symbols
      BY <2>1, ElementOfSeq
    <2>4. /\ chunk \in Seq(Symbols) /\ Len(chunk) = length
          /\ \A i \in 1..length : chunk[i] = wire[i]
      <3>1. \A i \in 1..length : wire[i] \in Symbols
        BY <1>1, <2>1, <2>3
      <3>2. /\ chunk \in Seq(Symbols) /\ Len(chunk) = IF 1 <= length THEN length - 1 + 1 ELSE 0
            /\ \A i \in 1..(length - 1 + 1) : chunk[i] = wire[1 + i - 1]
        BY <2>1, <3>1, SubSeqProperties
      <3>3. ASSUME NEW i \in 1..length PROVE chunk[i] = wire[i]
        <4>1. i \in 1..(length - 1 + 1) /\ 1 + i - 1 = i
          BY <2>1
        <4> QED BY <4>1, <3>2
      <3> QED BY <3>2, <3>3, <1>1, <2>1
    <2>5. /\ rest \in Seq(Symbols) /\ Len(rest) = Len(wire) - length
          /\ \A i \in 1..Len(rest) : rest[i] = wire[length + i]
      <3>1. /\ \A i \in (length + 1)..Len(wire) : wire[i] \in Symbols
            /\ length + 1 \in Int /\ Len(wire) \in Int
        BY <1>1, <2>1, <2>3
      <3>2. /\ rest \in Seq(Symbols)
            /\ Len(rest) = IF length + 1 <= Len(wire) THEN Len(wire) - (length + 1) + 1 ELSE 0
            /\ \A i \in 1..(Len(wire) - (length + 1) + 1) : rest[i] = wire[length + 1 + i - 1]
        BY <3>1, SubSeqProperties
      <3>3. Len(rest) = Len(wire) - length
        BY <3>2, <1>1, <2>1
      <3>4. ASSUME NEW i \in 1..Len(rest) PROVE rest[i] = wire[length + i]
        <4>1. i \in 1..(Len(wire) - (length + 1) + 1) /\ length + 1 + i - 1 = length + i
          BY <3>3, <1>1, <2>1
        <4> QED BY <4>1, <3>2
      <3> QED BY <3>2, <3>3, <3>4
    <2>6. \A i \in 1..Len(chunk) : chunk[i] = text[n + i]
      BY <2>2, <2>4, <1>1, <2>1
    <2>7. n + Len(chunk) <= Len(text)
      BY <2>4, <1>1, <2>1 DEF n
    <2>8. Len(text) - Len(rest) = n + length
      BY <2>5, <1>1, <2>1 DEF n
    <2>9. \A i \in 1..Len(rest) : rest[i] = text[n + length + i]
      <3> TAKE i \in 1..Len(rest)
      <3>1. length + i \in 1..Len(wire) /\ n + (length + i) = n + length + i
        BY SMTT(30), <2>5, <1>1, <2>1
      <3> QED BY <3>1, <2>2, <2>5
    <2> HIDE DEF chunk, rest, n
    <2>10. read \in Readers /\ ~TooLong(read.pending) /\ ReadsTo(read, text, n + length)
      BY <2>1, <2>2, <2>4, <2>6, <2>7, <1>3, ReadChunk
    <2> HIDE DEF read
    <2>11. /\ gate' \in Gates /\ gate'.pc = "stream" /\ gate'.tarball = gate.tarball
           /\ gate'.expected = gate.expected /\ gate'.scanId = gate.scanId
           /\ gate'.verdict = "none" /\ gate'.text = text /\ gate'.wire = rest
           /\ gate'.reader = read
      BY <1>1, <1>3, <2>5, <2>10 DEF Gates, text
    <2>12. ReadSoFar'
      <3>1. n + length \in Nat
        BY <2>1, <2>2
      <3> QED BY <2>8, <2>9, <2>10, <2>11, <3>1 DEF ReadSoFar
    <2>13. AskedScan' /\ BoundBytes'
      BY <1>1, <2>11 DEF GateInv, AskedScan, BoundBytes, Asking
    <2>14. Answered'
      BY <1>1, <2>11 DEF GateInv, Answered, text
    <2>15. GateInv'
      BY <1>1, <2>11, <2>12, <2>13, <2>14 DEF GateInv, GateTypes, VerdictAtEnd, ClearedScan
    <2>16. CallOf(gate') = [pc |-> "asked", tarball |-> gate.tarball,
                            expected |-> gate.expected, verdict |-> "none"]
      BY <2>11, CallCases DEF Working, Asking
    <2> QED BY <1>1, <2>15, <2>16, AskedCall DEF Simulates
  <1> QED BY <1>2, <1>3 DEF ReceiveChunk

(* A scan still processing is asked for again, or time is up. *)
LEMMA Polling ==
  ASSUME GateInv, gate.pc \in Asking, UNCHANGED scans, PollAgain
  PROVE  GateInv' /\ Simulates
  <1>1. gate.pc \in Working /\ Later(gate.elapsed) \in Nat /\ 0 \in Nat
    BY GateFields, LaterTypes DEF GateInv, GateTypes, Working
  <1>2. CASE Conclude("refused")
    BY <1>1, <1>2, Refusing
  <1>3. CASE gate' = [gate EXCEPT !.pc = "read", !.retries = 0, !.wire = << >>,
                         !.text = << >>, !.reader = FreshReader, !.elapsed = Later(@)]
    BY <1>1, <1>3, Reading
  <1> QED BY <1>2, <1>3 DEF PollAgain

(* A whole answer is judged. *)
LEMMA Judging ==
  ASSUME GateInv, gate.pc = "stream", gate.wire = << >>, UNCHANGED scans,
         FinishStream(gate.reader).kind = "artifacts",
         NEW artifacts, artifacts = FinishStream(gate.reader).artifacts,
         Judge(artifacts)
  PROVE  GateInv' /\ Simulates
  <1>1. /\ gate.pc \in Working /\ gate.pc \in Asking /\ gate \in Gates /\ scans \in Seq(Scan)
        /\ gate.verdict = "none" /\ scans' = scans
    BY DEF GateInv, GateTypes, VerdictAtEnd, Working, Asking
  <1>2. CASE Conclude("refused") \/ Conclude("malware")
    BY <1>1, <1>2, Refusing
  <1>3. CASE ~(artifacts = << >> \/ ~PolicyResolved(artifacts)) /\ ~(BlockingArtifacts(artifacts) > 0)
    <2>1. scans[gate.scanId].finished /\ ~gate.tarball.malware
      BY <1>3, JudgedClean
    <2>2. CASE Conclude("ok")
      BY <1>1, <2>1, <2>2, Passing
    <2>3. CASE gate' = [gate EXCEPT !.pc = "threat", !.reader = FreshReader,
                           !.text = << >>, !.retries = 0, !.elapsed = 0]
      <3>1. /\ gate' \in Gates /\ gate'.pc = "threat" /\ gate'.tarball = gate.tarball
            /\ gate'.expected = gate.expected /\ gate'.scanId = gate.scanId
            /\ gate'.verdict = "none"
        <4>1. << >> \in Seq(Symbols)
          BY EmptySeq
        <4>2. FreshReader \in Readers /\ "threat" \in Working
          BY <4>1, ReadNothing DEF Working, Asking
        <4> QED BY <1>1, <2>3, <4>1, <4>2 DEF Gates
      <3>2. GateInv'
        BY <1>1, <2>1, <3>1 DEF GateInv, GateTypes, VerdictAtEnd, BoundBytes, AskedScan,
                                Answered, ReadSoFar, ClearedScan, Asking
      <3>3. CallOf(gate') = [pc |-> "asked", tarball |-> gate.tarball,
                             expected |-> gate.expected, verdict |-> "none"]
        BY <3>1, CallCases DEF Working, Asking
      <3> QED BY <1>1, <3>2, <3>3, AskedCall DEF Simulates
    <2> QED BY <1>3, <2>2, <2>3 DEF Judge
  <1> QED BY <1>2, <1>3 DEF Judge

(* A stream comes to its end. *)
LEMMA Ending ==
  ASSUME GateInv, EndStream
  PROVE  GateInv' /\ Simulates
  <1> DEFINE result == FinishStream(gate.reader)
  <1>1. /\ gate.pc = "stream" /\ gate.wire = << >> /\ UNCHANGED scans
        /\ gate.pc \in Asking /\ gate.pc \in Working
    BY DEF EndStream, Asking, Working
  <1>2. result.kind \in {"refused", "processing", "artifacts"}
    BY <1>1, WholeAnswer
  <1>3. \/ result.kind = "refused" /\ Conclude("refused")
        \/ result.kind = "processing" /\ PollAgain
        \/ result.kind = "artifacts" /\ Judge(result.artifacts)
    <2> HIDE DEF result
    <2> QED BY <1>2 DEF EndStream, result
  <1>4. CASE Conclude("refused")
    BY <1>1, <1>4, Refusing
  <1>5. CASE PollAgain
    BY <1>1, <1>5, Polling
  <1>6. CASE result.kind = "artifacts" /\ Judge(result.artifacts)
    BY <1>1, <1>6, Judging
  <1> QED BY <1>3, <1>4, <1>5, <1>6

(* The local threat scan. *)
LEMMA Threatening ==
  ASSUME GateInv, NEW outcome, ThreatLeg(outcome)
  PROVE  GateInv' /\ Simulates
  <1>1. /\ gate.pc = "threat" /\ UNCHANGED scans /\ gate.pc \in Asking /\ gate.pc \in Working
    BY DEF ThreatLeg, Asking, Working
  <1>2. CASE Conclude("ok")
    <2>1. scans[gate.scanId].finished /\ ~gate.tarball.malware
      BY <1>1 DEF GateInv, ClearedScan
    <2> QED BY <1>1, <1>2, <2>1, Passing
  <1>3. CASE Conclude("threat")
    BY <1>1, <1>3, Refusing
  <1> QED BY <1>2, <1>3 DEF ThreatLeg

(* The caller takes the verdict. *)
LEMMA Leaving ==
  ASSUME GateInv, CallerLeaves
  PROVE  GateInv' /\ Simulates
  <1>1. /\ gate.pc # "idle" /\ gate' = IdleGate /\ scans' = scans /\ scans \in Seq(Scan)
        /\ gate.pc \in Working \cup {"idle", "done"}
    BY GateFields DEF CallerLeaves, GateInv, GateTypes
  <1>2. IdleGate.pc = "idle" /\ IdleGate.verdict = "none" /\ IdleGate.tarball = NoTarball
        /\ IdleGate.expected = NoTarball
    BY DEF IdleGate
  <1>3. GateInv'
    BY <1>1, <1>2, IdleTypes, InvElsewhere DEF VerdictAtEnd
  <1>4. CallOf(gate') = Promise!IdleCall
    BY <1>1, <1>2, CallCases DEF Promise!IdleCall
  <1>5. CallOf(gate).pc # "idle"
    BY <1>1 DEF CallOf
  <1>6. Promise!TakeAnswer
    BY <1>1, <1>4, <1>5 DEF Promise!TakeAnswer, CallOf
  <1> QED BY <1>3, <1>6 DEF Simulates, Promise!PromiseNext

-----------------------------------------------------------------------------
(* The invariant holds in the first state, which is one of the promise. *)
LEMMA GateStarts ==
  ASSUME GateInit
  PROVE  GateInv /\ Promise!PromiseInit
  <1>1. IdleGate.pc = "idle" /\ IdleGate.verdict = "none" /\ IdleGate.tarball = NoTarball
        /\ IdleGate.expected = NoTarball
    BY DEF IdleGate
  <1>2. scans \in Seq(Scan) /\ scans = << >> /\ gate = IdleGate
    BY EmptySeq DEF GateInit
  <1>3. GateInv
    BY <1>1, <1>2, IdleTypes DEF GateInv, GateTypes, VerdictAtEnd, BoundBytes, AskedScan,
                                 Answered, ReadSoFar, ClearedScan, Asking
  <1>4. CallOf(gate) = Promise!IdleCall
    BY <1>1, <1>2, CallCases DEF Promise!IdleCall
  <1> QED BY <1>2, <1>3, <1>4 DEF Promise!PromiseInit, CallOf

(* One step of the gate keeps the invariant and is a step of the promise, or *)
(* one that the promise does not see.                                        *)
LEMMA GateSteps ==
  ASSUME GateInv, [GateNext]_gateVars
  PROVE  GateInv' /\ Simulates
  <1>1. ASSUME NEW tarball \in Bytes \cup {NoTarball}, NEW expected \in Bytes \cup {NoTarball},
               NEW threat \in BOOLEAN, NEW context \in BOOLEAN,
               CallGate(tarball, expected, threat, context)
        PROVE  GateInv' /\ Simulates
    BY <1>1, Calling DEF Tarballs
  <1>2. ASSUME NEW env \in AuthAnswers, Preflight(env)
        PROVE  GateInv' /\ Simulates
    BY <1>2, Preflighting
  <1>3. ASSUME NEW readable \in BOOLEAN, BindTarball(readable)
        PROVE  GateInv' /\ Simulates
    BY <1>3, Binding
  <1>4. ASSUME NEW answered \in BOOLEAN, CreateScan(answered)
        PROVE  GateInv' /\ Simulates
    BY <1>4, Creating
  <1>5. CASE CreateFails
    BY <1>5, Refusing DEF CreateFails, Working
  <1>6. CASE OpenStream
    BY <1>6, Opening
  <1>7. ASSUME NEW transient \in BOOLEAN, OpenFails(transient) \/ BreakStream(transient)
        PROVE  GateInv' /\ Simulates
    BY <1>7, Failing DEF OpenFails, BreakStream, Asking
  <1>8. ASSUME NEW length \in 1..Len(gate.wire), ReceiveChunk(length)
        PROVE  GateInv' /\ Simulates
    BY <1>8, Receiving
  <1>9. CASE EndStream
    BY <1>9, Ending
  <1>10. ASSUME NEW outcome \in ThreatOutcomes, ThreatLeg(outcome)
         PROVE  GateInv' /\ Simulates
    BY <1>10, Threatening
  <1>11. CASE GateStep
    BY <1>11, <1>2, <1>3, <1>4, <1>5, <1>6, <1>7, <1>8, <1>9, <1>10 DEF GateStep
  <1>12. ASSUME NEW id \in DOMAIN scans, FinishScan(id)
         PROVE  GateInv' /\ Simulates
    BY <1>12, Finishing
  <1>13. CASE CallerLeaves
    BY <1>13, Leaving
  <1>14. CASE UNCHANGED gateVars
    <2>1. gate' = gate /\ scans' = scans
      BY <1>14 DEF gateVars
    <2> QED BY <2>1 DEF GateInv, GateTypes, VerdictAtEnd, BoundBytes, AskedScan, Answered,
                        ReadSoFar, ClearedScan, Simulates
  <1> QED BY <1>1, <1>11, <1>12, <1>13, <1>14 DEF GateNext

(* The invariant of the gate. *)
LEMMA GateInvariant == GateSpec => []GateInv
  <1>1. GateInit => GateInv
    BY GateStarts
  <1>2. GateInv /\ [GateNext]_gateVars => GateInv'
    BY GateSteps
  <1> QED BY <1>1, <1>2, PTL DEF GateSpec

(* However the network cut the answer into chunks, a read that came to its *)
(* end unrefused has read a whole answer and missed no artifact of it      *)
(* (readFullScanNdjson), for every limit on lines and bytes.               *)
THEOREM EvidenceIsWhole == GateSpec => []StreamIsEvidence
  <1>1. GateInv => StreamIsEvidence
    BY WholeAnswer DEF StreamIsEvidence, IsNotice
  <1> QED BY <1>1, GateInvariant, PTL

(* The gate says yes only of the bytes whose digest the registry recorded, *)
(* after the service finished a scan of them that found no malware; every  *)
(* other way out is a no (scanStagedEntryDetailed): each step of the gate  *)
(* is one of ScanPromise, or one that ScanPromise does not see.            *)
THEOREM GateImplementsPromise == GateSpec => ImplementsScanPromise
  <1>1. GateInit => Promise!PromiseInit
    BY GateStarts
  <1>2. GateInv /\ [GateNext]_gateVars => [Promise!PromiseNext(Bytes)]_(Promise!promiseVars)
    <2> SUFFICES ASSUME GateInv, [GateNext]_gateVars
                 PROVE  [Promise!PromiseNext(Bytes)]_(Promise!promiseVars)
      OBVIOUS
    <2>1. Simulates
      BY GateSteps
    <2> QED BY <2>1 DEF Simulates, CallOf, Promise!promiseVars
  <1> QED BY <1>1, <1>2, GateInvariant, PTL DEF GateSpec, ImplementsScanPromise
=============================================================================
