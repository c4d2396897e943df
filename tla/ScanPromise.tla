----------------------------- MODULE ScanPromise -----------------------------
(* What the scan gate (scripts/fleet/registry/npm/scan/run.mts,               *)
(* scanStagedEntryDetailed) promises its callers, with nothing of how it asks *)
(* the service: it takes a tarball and the digest the registry recorded, and  *)
(* answers once.  It says yes only to the recorded bytes, after the service   *)
(* finished a scan of them that found no malware; it may say no at any time.  *)
(* ScanGate implements this module, StagedRelease is built on it.             *)
EXTENDS Naturals, Sequences

CONSTANTS
  NoTarball,
  MaxScans     \* bound: full scans created in a behaviour

ASSUME ScanBound == MaxScans \in Nat \ {0}

VARIABLES
  call,    \* the call in progress: what was asked, what was answered
  scans    \* the service: the full scans created, in order

promiseVars == <<call, scans>>

IdleCall == [pc |-> "idle", tarball |-> NoTarball, expected |-> NoTarball,
             verdict |-> "none"]

PromiseInit == call = IdleCall /\ scans = << >>

Ask(tarball, expected) ==
  /\ call.pc = "idle"
  /\ call' = [pc |-> "asked", tarball |-> tarball, expected |-> expected,
              verdict |-> "none"]

\* The service has finished a scan of these bytes, without malware.
ScannedClean(bytes) ==
  /\ \E id \in DOMAIN scans : scans[id].bytes = bytes /\ scans[id].finished
  /\ ~bytes.malware

Bound(tarball, expected) ==
  tarball # NoTarball /\ (expected # NoTarball => tarball = expected)

CreateScan ==
  /\ call.pc = "asked"
  /\ Bound(call.tarball, call.expected)
  /\ Len(scans) < MaxScans
  /\ scans' = Append(scans, [bytes |-> call.tarball, finished |-> FALSE])

Create == CreateScan /\ UNCHANGED call

\* The answer to creating the scan was lost or had no id.
CreateLost == CreateScan /\ call' = [call EXCEPT !.pc = "done", !.verdict = "no"]

FinishScan(id) ==
  /\ id \in DOMAIN scans
  /\ ~scans[id].finished
  /\ scans' = [scans EXCEPT ![id].finished = TRUE]
  /\ UNCHANGED call

SayNo ==
  /\ call.pc = "asked"
  /\ call' = [call EXCEPT !.pc = "done", !.verdict = "no"]
  /\ UNCHANGED scans

SayYes ==
  /\ call.pc = "asked"
  /\ Bound(call.tarball, call.expected)
  /\ ScannedClean(call.tarball)
  /\ call' = [call EXCEPT !.pc = "done", !.verdict = "yes"]
  /\ UNCHANGED scans

PromiseStep ==
  \/ Create
  \/ CreateLost
  \/ SayNo
  \/ SayYes

ServiceStep == \E id \in DOMAIN scans : FinishScan(id)

\* The caller takes the answer, or is gone.
TakeAnswer == call.pc # "idle" /\ call' = IdleCall /\ UNCHANGED scans

PromiseNext(bytes) ==
  \/ \E tarball, expected \in bytes \cup {NoTarball} : Ask(tarball, expected) /\ UNCHANGED scans
  \/ PromiseStep
  \/ ServiceStep
  \/ TakeAnswer
=============================================================================
