------------------------------ MODULE ScanGate ------------------------------
(* The Socket scan gate of one staged npm entry                               *)
(* (scripts/fleet/registry/npm/scan/run.mts): authenticate, bind the tarball  *)
(* to the digest the registry recorded, upload it as a full scan, poll the    *)
(* scan until it is finished or the deadline passes, judge its alerts and,    *)
(* when asked to, run the local threat scan.  The gate is a function that its *)
(* caller awaits: gate.pc says which await it is at.                          *)
(*                                                                            *)
(* Bytes are records whose field malware says what the service will find in   *)
(* them; a digest stands for its bytes.                                       *)
EXTENDS ScanStream, Integers

CONSTANTS
  NoTarball,
  Bytes,            \* the tarballs callers have
  ReadDeadline,     \* FULL_SCAN_READ_TIMEOUT_MS, in poll intervals
  MaxReadRetries,   \* the retries of one read (5 in retryNpmScanRead)
  MaxScans          \* bound: full scans created in a behaviour

ASSUME GateBounds == /\ ReadDeadline \in Nat \ {0}
                     /\ MaxReadRetries \in Nat
                     /\ MaxScans \in Nat \ {0}

VARIABLES
  gate,    \* the gate's call in progress
  scans    \* the service: the full scans created, in order

gateVars == <<gate, scans>>

IdleGate ==
  [pc |-> "idle", tarball |-> NoTarball, expected |-> NoTarball, threat |-> FALSE,
   scanId |-> 0, elapsed |-> 0, retries |-> 0, reader |-> FreshReader,
   text |-> << >>, wire |-> << >>, verdict |-> "none"]

GateInit == gate = IdleGate /\ scans = << >>

-----------------------------------------------------------------------------
(* preflightSocketScanAuth.  What the environment answers is one record:      *)
(* a token in it, what browser OAuth and the prompt would give, what the      *)
(* quota read answers, and how many organizations the token has.              *)
AuthAnswers ==
  [token : BOOLEAN, oauth : {"unset", "throws", "gives"}, pasted : BOOLEAN,
   quota : {"ok", "rejected", "unreachable"},
   org : {"override", "one", "several", "none", "unlisted"}]

\* acquireSocketScanToken: the environment, then OAuth, then the prompt.
TokenAcquired(env) == env.token \/ env.oauth = "gives" \/ env.pasted

\* resolveSocketScanOrgSlug refuses to guess between organizations.
OrgResolved(env) == env.org \in {"override", "one"}

Preflighted(env) == TokenAcquired(env) /\ env.quota = "ok" /\ OrgResolved(env)

\* scanRefused, and every other way out: the verdict is what the caller sees.
Conclude(verdict) ==
  gate' = [IdleGate EXCEPT !.pc = "done", !.tarball = gate.tarball,
                           !.expected = gate.expected, !.scanId = gate.scanId,
                           !.verdict = verdict]

\* scanStagedEntryDetailed is called; a caller without a preflighted context
\* makes the gate run its own.
CallGate(tarball, expected, threat, context) ==
  /\ gate.pc = "idle"
  /\ gate' = [IdleGate EXCEPT !.pc = IF context THEN "bind" ELSE "auth",
                              !.tarball = tarball, !.expected = expected,
                              !.threat = threat]
  /\ UNCHANGED scans

Preflight(env) ==
  /\ gate.pc = "auth"
  /\ IF Preflighted(env) THEN gate' = [gate EXCEPT !.pc = "bind"]
                         ELSE Conclude("refused")
  /\ UNCHANGED scans

\* Mutant: any tarball will do, its digest is not compared.
BoundTarballByPresence(readable) == gate.tarball # NoTarball

\* resolveBoundScanTarball: no bytes, unreadable bytes or other bytes than the
\* registry's are refused before the service is asked.
BoundTarball(readable) ==
  /\ gate.tarball # NoTarball
  /\ gate.expected # NoTarball => readable /\ gate.tarball = gate.expected

BindTarball(readable) ==
  /\ gate.pc = "bind"
  /\ IF BoundTarball(readable) THEN gate' = [gate EXCEPT !.pc = "create"]
                               ELSE Conclude("refused")
  /\ UNCHANGED scans

\* createStagedArchiveScan.  The answer may be an error or lack the id, whether
\* or not the service has created the scan.
CreateScan(answered) ==
  /\ gate.pc = "create"
  /\ Len(scans) < MaxScans
  /\ scans' = Append(scans, [bytes |-> gate.tarball, finished |-> FALSE])
  /\ IF answered
       THEN gate' = [gate EXCEPT !.pc = "read", !.scanId = Len(scans')]
       ELSE Conclude("refused")

CreateFails ==
  /\ gate.pc = "create"
  /\ Conclude("refused")
  /\ UNCHANGED scans

-----------------------------------------------------------------------------
(* The service.                                                               *)
FinishScan(id) ==
  /\ id \in DOMAIN scans
  /\ ~scans[id].finished
  /\ scans' = [scans EXCEPT ![id].finished = TRUE]
  /\ UNCHANGED gate

\* What a finished scan streams: every artifact with its resolved alerts, and
\* the scores record where the service sends one.
FinishedTexts(bytes) ==
  IF bytes.malware THEN {Wire(<<"clean", "malware", "scores">>), Wire(<<"malware">>)}
                   ELSE {Wire(<<"clean", "ignored", "scores">>), Wire(<<"clean">>)}

\* Answers that are no evidence: nothing, a cut record, lines in an order the
\* protocol does not have, unresolved alerts, and more than the limits allow.
FaultyTexts ==
  {Wire(kinds) : kinds \in {<< >>, <<"processing", "clean">>, <<"clean", "processing">>,
                            <<"scores", "clean">>, <<"clean", "badScores">>,
                            <<"clean", "unresolved">>}}
  \cup {SubSeq(Wire(<<"clean", "clean">>), 1, 4),
        [i \in 1..(MaxLine + 1) |-> Halves("clean")[1]],
        [i \in 1..(MaxBytes + 1) |-> NewLine]}

Texts(id) ==
  FaultyTexts \cup (IF scans[id].finished THEN FinishedTexts(scans[id].bytes)
                                          ELSE {Wire(<<"processing">>)})

-----------------------------------------------------------------------------
(* readFullScanEvidence: one poll is retryNpmScanRead around                  *)
(* streamFullScanAttempt.                                                     *)
Later(elapsed) == IF elapsed < ReadDeadline THEN elapsed + 1 ELSE elapsed

\* Mutant: a transient error is retried however often it comes.
AttemptRetriesForever(transient) ==
  IF transient
    THEN gate' = [gate EXCEPT !.pc = "read", !.retries = @ + 1, !.wire = << >>,
                              !.text = << >>, !.reader = FreshReader, !.elapsed = Later(@)]
    ELSE Conclude("refused")

\* isTransientNpmScanRead: such an error is retried, with everything the
\* attempt had read forgotten; any other one ends the scan.
AttemptFails(transient) ==
  IF transient /\ gate.retries < MaxReadRetries
    THEN gate' = [gate EXCEPT !.pc = "read", !.retries = @ + 1, !.wire = << >>,
                              !.text = << >>, !.reader = FreshReader, !.elapsed = Later(@)]
    ELSE Conclude("refused")

\* streamFullScanAttempt opens a stream, or gets a status or no stream.
OpenStream ==
  /\ gate.pc = "read"
  /\ \E text \in Texts(gate.scanId) :
       gate' = [gate EXCEPT !.pc = "stream", !.text = text, !.wire = text,
                            !.reader = FreshReader]
  /\ UNCHANGED scans

OpenFails(transient) ==
  /\ gate.pc = "read"
  /\ AttemptFails(transient)
  /\ UNCHANGED scans

ReceiveChunk(length) ==
  /\ gate.pc = "stream"
  /\ length \in 1..Len(gate.wire)
  /\ LET reader == FeedChunk(gate.reader, SubSeq(gate.wire, 1, length))
     IN  IF reader.reason # "none" THEN Conclude("refused")
         ELSE gate' = [gate EXCEPT !.reader = reader,
                                   !.wire = SubSeq(@, length + 1, Len(@))]
  /\ UNCHANGED scans

\* The connection is lost inside the stream: the read throws.
BreakStream(transient) ==
  /\ gate.pc = "stream"
  /\ AttemptFails(transient)
  /\ UNCHANGED scans

\* Mutant: the deadline is not looked at.
PollForever ==
  gate' = [gate EXCEPT !.pc = "read", !.retries = 0, !.wire = << >>,
                       !.text = << >>, !.reader = FreshReader, !.elapsed = Later(@)]

\* A scan still processing is asked for again one interval later, unless that
\* would be past the deadline; an answer that came late is taken all the same.
PollAgain ==
  IF gate.elapsed + 1 > ReadDeadline
    THEN Conclude("refused")
    ELSE gate' = [gate EXCEPT !.pc = "read", !.retries = 0, !.wire = << >>,
                              !.text = << >>, !.reader = FreshReader, !.elapsed = Later(@)]

\* The verdict over a whole answer: nothing evaluated and unresolved alerts
\* are refused, malware the policy errors or warns about blocks.
Judge(artifacts) ==
  IF artifacts = << >> \/ ~PolicyResolved(artifacts) THEN Conclude("refused")
  ELSE IF BlockingArtifacts(artifacts) > 0 THEN Conclude("malware")
  ELSE IF gate.threat
    THEN gate' = [gate EXCEPT !.pc = "threat", !.reader = FreshReader,
                              !.text = << >>, !.retries = 0, !.elapsed = 0]
  ELSE Conclude("ok")

EndStream ==
  /\ gate.pc = "stream"
  /\ gate.wire = << >>
  /\ LET result == FinishStream(gate.reader)
     IN  CASE result.kind = "refused"    -> Conclude("refused")
           [] result.kind = "processing" -> PollAgain
           [] OTHER                      -> Judge(result.artifacts)
  /\ UNCHANGED scans

\* runThreatLeg: only a scan that ran and found nothing passes.
ThreatLeg(outcome) ==
  /\ gate.pc = "threat"
  /\ Conclude(IF outcome = "clean" THEN "ok" ELSE "threat")
  /\ UNCHANGED scans

ThreatOutcomes == {"extraction fails", "no model", "findings", "clean"}

-----------------------------------------------------------------------------
GateStep ==
  \/ \E env \in AuthAnswers : Preflight(env)
  \/ \E readable \in BOOLEAN : BindTarball(readable)
  \/ \E answered \in BOOLEAN : CreateScan(answered)
  \/ CreateFails
  \/ OpenStream
  \/ \E transient \in BOOLEAN : OpenFails(transient) \/ BreakStream(transient)
  \/ \E length \in 1..Len(gate.wire) : ReceiveChunk(length)
  \/ EndStream
  \/ \E outcome \in ThreatOutcomes : ThreatLeg(outcome)

\* The caller takes the verdict, or is gone before there is one.
CallerLeaves == gate.pc # "idle" /\ gate' = IdleGate /\ UNCHANGED scans

GateNext ==
  \/ \E tarball, expected \in Bytes \cup {NoTarball}, threat, context \in BOOLEAN :
       CallGate(tarball, expected, threat, context)
  \/ GateStep
  \/ \E id \in DOMAIN scans : FinishScan(id)
  \/ CallerLeaves

\* The gate awaits one promise after the other: what it can do it will do.  The
\* service owes nothing.
GateSpec == GateInit /\ [][GateNext]_gateVars /\ WF_gateVars(GateStep)

-----------------------------------------------------------------------------
(* The stream by its grammar, without the reader: where its lines begin that  *)
(* are not empty, and what kind of record each of them is.                    *)
Lines(text) ==
  {s \in DOMAIN text : text[s] # NewLine /\ (s > 1 => text[s - 1] = NewLine)}

KindAt(text, s) ==
  IF \E kind \in RecordKinds : /\ s + 1 \in DOMAIN text
                               /\ <<text[s], text[s + 1]>> = Halves(kind)
                               /\ s + 2 \in DOMAIN text => text[s + 2] = NewLine
    THEN text[s].of
    ELSE "malformed"

\* Artifacts with at most one scores record, the last line.
IsEvidence(text) == \A s \in Lines(text) :
  \/ KindAt(text, s) \in ArtifactKinds
  \/ KindAt(text, s) = "scores" /\ \A t \in Lines(text) : t <= s

\* The artifacts at these starts of lines, in the order of the stream.
InOrder(artifacts, starts, text) ==
  /\ Len(artifacts) = Cardinality(starts)
  /\ \A s \in starts :
       artifacts[Cardinality({t \in starts : t <= s})] = KindAt(text, s)

ArtifactLines(text) == {s \in Lines(text) : KindAt(text, s) \in ArtifactKinds}

\* However the network cut the answer into chunks, a read that came to its end
\* unrefused has read a whole answer and missed no artifact of it
\* (readFullScanNdjson): a half line, a line after the final record or a
\* processing notice between results is never taken for a scan's result.
StreamIsEvidence ==
  gate.pc = "stream" /\ gate.wire = << >> =>
    LET read == FinishStream(gate.reader)
    IN  /\ read.kind = "artifacts" <=> IsEvidence(gate.text)
        /\ read.kind = "artifacts" =>
              InOrder(read.artifacts, ArtifactLines(gate.text), gate.text)
        /\ read.kind = "processing" <=>
              \E s \in Lines(gate.text) :
                /\ Lines(gate.text) = {s}
                /\ KindAt(gate.text, s) = "processing"

\* A verdict that lets a stage through is about the bytes whose digest the
\* registry recorded, after the service finished a scan of exactly these that
\* found no malware; and no other verdict comes out of a scan that never
\* ended, was cut short or could not be asked for (scanStagedEntryDetailed).
Promise == INSTANCE ScanPromise WITH
  call <- [pc |-> CASE gate.pc \in {"idle", "done"} -> gate.pc [] OTHER -> "asked",
           tarball |-> gate.tarball, expected |-> gate.expected,
           verdict |-> CASE gate.verdict = "none" -> "none"
                         [] gate.verdict = "ok"   -> "yes"
                         [] OTHER                 -> "no"]

ImplementsScanPromise ==
  Promise!PromiseInit /\ [][Promise!PromiseNext(Bytes)]_(Promise!promiseVars)

\* Whatever the service answers or leaves unanswered, a call of the gate comes
\* to a verdict (the deadline of readFullScanEvidence, the limit of
\* retryNpmScanRead).
ScanEnds == gate.pc \notin {"idle", "done"} ~> gate.pc \in {"idle", "done"}
=============================================================================
