---------------------------- MODULE ToolInstall ----------------------------
(***************************************************************************)
(* Jobs of one runner host installing a pinned tool                        *)
(* (.github/actions/fleet/_shared/install-tool.mjs, install/atomic.mjs and *)
(* the steps of setup/action.yml that call them): download with retries,   *)
(* integrity, provenance, extraction, and, for a tool in the shared tool   *)
(* cache, a staged directory renamed into place.  A job may be cancelled   *)
(* at any step and leaves what it has written.                             *)
(***************************************************************************)
EXTENDS ExternalTools

CONSTANTS Jobs,
          JobPlans,       \* what each job was asked: functions from Jobs
          Docs,           \* what the publisher's checksum URL may answer
          MaxAttempts,    \* 3 requests of a download
          MaxAge, Strict, \* SFW_INTEGRITY_MAX_AGE_DAYS, SFW_INTEGRITY_STRICT
          MaxCancelled    \* bound: jobs cancelled part-way

(* A staging directory is made for one job alone, and a pin has a digest. *)
ASSUME PlanAssumption ==
    /\ IsFiniteSet(Jobs)
    /\ \A plan \in JobPlans :
         /\ DOMAIN plan = Jobs
         /\ \A j \in Jobs : /\ plan[j].destination \notin Jobs
                             /\ plan[j].pin.integrity # Nothing
                             /\ {plan[j].atomic, plan[j].checkFirst} \subseteq BOOLEAN

VARIABLES jplan, jpc, attempt, bytes, code, where,
          tree,       \* what is on disk at a directory: a destination or a job's staging
          cancelled
tvars == <<jplan, jpc, attempt, bytes, code, where, tree, cancelled>>

(* A directory: absent, or its cached archive, its archive and its tool. *)
Absent == [there |-> FALSE, cached |-> Nothing, tool |-> Nothing, whole |-> FALSE]
EmptyDir == [Absent EXCEPT !.there = TRUE]
Places == {jplan[j].destination : j \in Jobs} \cup Jobs

(* validateToolExecutable, and the shell's [ -x ]: the file is there and     *)
(* executable; neither looks at its content.                                 *)
Executable(d) == tree[d].tool # Nothing

TInit ==
    /\ jplan \in JobPlans
    /\ jpc = [j \in Jobs |-> "lookup"]
    /\ attempt = [j \in Jobs |-> 0]
    /\ bytes = [j \in Jobs |-> Nothing]
    /\ code = [j \in Jobs |-> Nothing]
    /\ where = [j \in Jobs |-> jplan[j].destination]
    /\ tree = [d \in Places |-> Absent]
    /\ cancelled = 0

To(j, label) == jpc' = [jpc EXCEPT ![j] = label] /\ UNCHANGED code
(* Every way out passes installToolAtomically's finally. *)
Leave(j, c) == jpc' = [jpc EXCEPT ![j] = "finally"] /\ code' = [code EXCEPT ![j] = c]

(* Mutated: an atomic install extracts straight into its destination. *)
InstallDirBug(j) == jplan[j].destination

(* The directory main() writes to: the staging directory, or in place. *)
InstallDir(j) == IF jplan[j].atomic THEN j ELSE jplan[j].destination

(* The step skips the install when the executable is already there. *)
LookUp(j) ==
    /\ jpc[j] = "lookup"
    /\ IF jplan[j].checkFirst /\ Executable(jplan[j].destination)
         THEN /\ jpc' = [jpc EXCEPT ![j] = "done"] /\ code' = [code EXCEPT ![j] = 0]
              /\ UNCHANGED <<where, tree>>
         ELSE /\ where' = [where EXCEPT ![j] = InstallDir(j)]
              /\ tree' = IF tree[where'[j]].there THEN tree
                         ELSE [tree EXCEPT ![where'[j]] = EmptyDir]
              /\ To(j, "read")
    /\ UNCHANGED <<jplan, attempt, bytes, cancelled>>

(* readToolArchive: a cached archive counts only while it matches the pin. *)
ReadArchive(j) ==
    /\ jpc[j] = "read"
    /\ IF jplan[j].cache /\ tree[where[j]].cached = jplan[j].pin.integrity
         THEN bytes' = [bytes EXCEPT ![j] = jplan[j].pin.integrity] /\ To(j, "verify")
         ELSE UNCHANGED bytes /\ To(j, "request")
    /\ UNCHANGED <<jplan, attempt, where, tree, cancelled>>

(* retryable: another request after a busy answer or a broken connection. *)
Retryable(j) == attempt[j] < MaxAttempts - 1

(* requestToolDownload: a busy server or a broken connection is asked again, *)
(* with a backoff, until the last attempt; any other failure ends it.        *)
Request(j) ==
    /\ jpc[j] = "request"
    /\ \/ \E got \in {jplan[j].pin.integrity, "other"} :
            bytes' = [bytes EXCEPT ![j] = got] /\ To(j, "verify") /\ UNCHANGED attempt
       \/ /\ Retryable(j)
          /\ attempt' = [attempt EXCEPT ![j] = @ + 1]
          /\ To(j, "request") /\ UNCHANGED bytes
       \/ Leave(j, 1) /\ UNCHANGED <<bytes, attempt>>
    /\ UNCHANGED <<jplan, where, tree, cancelled>>

(* The integrity of the bytes, then the live provenance of the pin. *)
VerifyBytes(j) ==
    /\ jpc[j] = "verify"
    /\ \E doc \in Docs :
         IF bytes[j] = jplan[j].pin.integrity
            /\ ProvenanceOk(jplan[j].pin, doc, MaxAge, Strict)
           THEN To(j, "write")
           ELSE Leave(j, 2)
    /\ UNCHANGED <<jplan, attempt, bytes, where, tree, cancelled>>

(* The verified archive is kept for the next call, then written for the      *)
(* extractor; a write cut short leaves a torn archive.                       *)
WriteArchive(j) ==
    /\ jpc[j] = "write"
    /\ tree' = IF jplan[j].cache
                 THEN [tree EXCEPT ![where[j]].cached = bytes[j]] ELSE tree
    /\ To(j, "extract")
    /\ UNCHANGED <<jplan, attempt, bytes, where, cancelled>>

(* Extraction writes the tool part by part, and may fail part-way. *)
BeginExtract(j) ==
    /\ jpc[j] = "extract"
    /\ \/ /\ tree' = [tree EXCEPT ![where[j]].tool = bytes[j], ![where[j]].whole = FALSE]
          /\ To(j, "extracting")
       \/ UNCHANGED tree /\ Leave(j, 1)
    /\ UNCHANGED <<jplan, attempt, bytes, where, cancelled>>
EndExtract(j) ==
    /\ jpc[j] = "extracting"
    /\ \/ /\ tree' = [tree EXCEPT ![where[j]].whole = TRUE]
          /\ IF jplan[j].atomic THEN To(j, "stage") ELSE Leave(j, 0)
       \/ UNCHANGED tree /\ Leave(j, 1)
    /\ UNCHANGED <<jplan, attempt, bytes, where, cancelled>>

(* installToolAtomically: validate the staging directory and rename it; a    *)
(* destination that is already there is validated instead.  Windows answers  *)
(* another error code for it, which is thrown.                               *)
CheckStaging(j) ==
    /\ jpc[j] = "stage"
    /\ IF Executable(where[j]) THEN To(j, "rename") ELSE Leave(j, 1)
    /\ UNCHANGED <<jplan, attempt, bytes, where, tree, cancelled>>
RenameStaging(j) ==
    /\ jpc[j] = "rename"
    /\ LET to == jplan[j].destination
       IN IF ~tree[to].there
            THEN /\ tree' = [tree EXCEPT ![to] = tree[where[j]], ![where[j]] = Absent]
                 /\ Leave(j, 0)
            ELSE /\ UNCHANGED tree
                 /\ To(j, "validate") \/ Leave(j, 1)
    /\ UNCHANGED <<jplan, attempt, bytes, where, cancelled>>
CheckWinner(j) ==
    /\ jpc[j] = "validate"
    /\ Leave(j, IF Executable(jplan[j].destination) THEN 0 ELSE 1)
    /\ UNCHANGED <<jplan, attempt, bytes, where, tree, cancelled>>

(* finally: the staging directory goes; then the step looks once more for    *)
(* the executable it is about to put on the path.                            *)
Finally(j) ==
    /\ jpc[j] = "finally"
    /\ tree' = IF jplan[j].atomic THEN [tree EXCEPT ![j] = Absent] ELSE tree
    /\ jpc' = [jpc EXCEPT ![j] = "recheck"]
    /\ UNCHANGED <<jplan, attempt, bytes, code, where, cancelled>>
Recheck(j) ==
    /\ jpc[j] = "recheck"
    /\ jpc' = [jpc EXCEPT ![j] = "done"]
    /\ code' = [code EXCEPT ![j] =
                  IF @ = 0 /\ ~Executable(jplan[j].destination) THEN 1 ELSE @]
    /\ UNCHANGED <<jplan, attempt, bytes, where, tree, cancelled>>

(* The job is cancelled; an archive being written stays torn. *)
Cancel(j) ==
    /\ jpc[j] \notin {"done", "cancelled"} /\ cancelled < MaxCancelled
    /\ cancelled' = cancelled + 1
    /\ jpc' = [jpc EXCEPT ![j] = "cancelled"]
    /\ tree' = IF jpc[j] = "write" /\ jplan[j].cache
                 THEN [tree EXCEPT ![where[j]].cached = "torn"] ELSE tree
    /\ UNCHANGED <<jplan, attempt, bytes, code, where>>

TNext == \E j \in Jobs :
    \/ LookUp(j) \/ ReadArchive(j) \/ Request(j) \/ VerifyBytes(j) \/ WriteArchive(j)
    \/ BeginExtract(j) \/ EndExtract(j) \/ CheckStaging(j) \/ RenameStaging(j)
    \/ CheckWinner(j) \/ Finally(j) \/ Recheck(j) \/ Cancel(j)

TSpec == TInit /\ [][TNext]_tvars

(* A destination written in place is safe only while one job owns it. *)
Sharers(d) == {j \in Jobs : jplan[j].destination = d}
Guarded(d) == \/ \A j \in Sharers(d) : jplan[j].atomic
              \/ Cardinality(Sharers(d)) = 1

(* Whoever wins the race, and whatever was cancelled on the way: a job that  *)
(* puts a tool on the path has a whole tool there, extracted from bytes some *)
(* job of that destination pinned.                                           *)
InstalledToolIsPinned == \A j \in Jobs :
    LET d == jplan[j].destination
    IN jpc[j] = "done" /\ code[j] = 0 /\ Guarded(d) =>
         /\ tree[d].whole
         /\ tree[d].tool \in {jplan[k].pin.integrity : k \in Sharers(d)}

==============================================================================
