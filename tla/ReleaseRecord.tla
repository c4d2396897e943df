---------------------------- MODULE ReleaseRecord ----------------------------
(* What else happens to a release: the other packages of the workspace, which *)
(* a developer may publish directly (registry/npm/staged.mts runDirect), and  *)
(* the release record (release/record/run.mts), by which a version is given   *)
(* up for good: every package is checked not to be public, then recorded as   *)
(* abandoned in the ledger, then its stages are rejected.  Each of these is a *)
(* call of its own to the registry or to GitHub, and beside them the release  *)
(* of StagedRelease goes on.                                                  *)
EXTENDS StagedRelease

CONSTANTS
  Main,          \* the package StagedRelease releases
  Members,       \* the other packages
  StagedBefore,  \* packages with earlier versions that were staged
  MaxCommands    \* bound: runs of the record command

ASSUME RecordBounds == /\ Main \notin Members
                       /\ StagedBefore \subseteq Members
                       /\ MaxCommands \in Nat

VARIABLES
  member,    \* the registry's state of each member's version
  direct,    \* the direct publish in progress
  released,  \* members whose tag and GitHub release exist
  ledger,    \* packages recorded as abandoned
  record     \* the record command in progress

recordVars == <<member, direct, released, ledger, record>>
vars == <<releaseVars, recordVars>>

Names == {Main} \cup Members
NoDirect == [pc |-> "idle", name |-> Main]
NoRecord == [pc |-> "idle", names |-> {}, todo |-> {}, recordOnly |-> FALSE,
             dryRun |-> FALSE, publicBefore |-> {}, commands |-> 0]

RecordInit ==
  /\ member \in [Members -> {"absent", "staged", "public"}]
  /\ direct = NoDirect
  /\ released = {}
  /\ ledger = {}
  /\ record = NoRecord

IsPublic(name) == IF name = Main THEN public # NoTarball ELSE member[name] = "public"

-----------------------------------------------------------------------------
(* runDirect, on a laptop.                                                    *)
StartDirect(name) ==
  /\ direct.pc = "idle"
  /\ record.commands > 0
  /\ direct' = [pc |-> IF member[name] = "public" THEN "live"
                       ELSE IF name \in StagedBefore THEN "idle" ELSE "upload",
                name |-> name]
  /\ UNCHANGED <<member, released, ledger, record>>

\* Pack, preflight and upload.  The version can be taken although the command
\* failed: the tag is cut by a later run, which finds it public.
UploadDirect(outcome) ==
  /\ direct.pc = "upload"
  /\ member' = IF outcome = "rejected" \/ member[direct.name] # "absent" THEN member
               ELSE [member EXCEPT ![direct.name] = "accepted"]
  /\ direct' = IF outcome = "uploaded" /\ member[direct.name] = "absent"
                 THEN [direct EXCEPT !.pc = "live"] ELSE NoDirect
  /\ UNCHANGED <<released, ledger, record>>

\* releaseBehindLiveGate: the registry may answer too late, never too early.
ReleaseDirect(isLive) ==
  /\ direct.pc = "live"
  /\ isLive => member[direct.name] = "public"
  /\ released' = IF isLive THEN released \cup {direct.name} ELSE released
  /\ direct' = NoDirect
  /\ UNCHANGED <<member, ledger, record>>

\* What the registry took can be installed a while later.
Appear(name) ==
  /\ member[name] = "accepted"
  /\ member' = [member EXCEPT ![name] = "public"]
  /\ UNCHANGED <<direct, released, ledger, record>>

\* The stage of a member is approved in its own release.
ApproveMember(name) ==
  /\ record.pc # "idle"
  /\ member[name] = "staged"
  /\ member' = [member EXCEPT ![name] = "public"]
  /\ UNCHANGED <<direct, released, ledger, record>>

-----------------------------------------------------------------------------
(* The record command.                                                        *)
Arguments ==
  [name : {"none", "owned", "foreign"}, all : BOOLEAN, version : BOOLEAN,
   abandon : BOOLEAN, recordOnly : BOOLEAN, reason : BOOLEAN, setup : BOOLEAN,
   recovery : {"none", "partial", "complete"}]

\* processNpmReleaseRecord, parseLedgerRecoveryConfig, setupNpmReleaseRecord:
\* which of the four operations the arguments ask for, if any.
ReleaseOperation(args) == args.abandon \/ args.name # "none" \/ args.all \/ args.version
                          \/ args.recordOnly \/ args.reason
Operation(args) ==
  CASE args.recovery # "none" ->
         IF args.recovery = "complete" /\ args.setup /\ ~ReleaseOperation(args)
           THEN "recover" ELSE "refused"
    [] args.recovery = "none" /\ args.setup ->
         IF ReleaseOperation(args) THEN "refused" ELSE "setup"
    [] OTHER ->
         IF \/ (args.name # "none") = args.all
            \/ ~args.version
            \/ ~args.abandon /\ (args.all \/ args.recordOnly)
            \/ args.name = "foreign"
           THEN "refused"
           ELSE IF ~args.abandon THEN "read"
           ELSE IF args.reason THEN "abandon" ELSE "refused"

AbandonRequests == {[all |-> args.all, recordOnly |-> args.recordOnly] :
                      args \in {a \in Arguments : Operation(a) = "abandon"}}

StartAbandon(request, name, dryRun) ==
  /\ record.pc = "idle"
  /\ record.commands < MaxCommands
  /\ job.kind = "none"
  /\ LET names == IF request.all THEN Names ELSE {name}
     IN  record' = [pc |-> "check", names |-> names, todo |-> names,
                    recordOnly |-> request.recordOnly, dryRun |-> dryRun,
                    publicBefore |-> {n \in names : IsPublic(n)},
                    commands |-> record.commands + 1]
  /\ UNCHANGED <<member, direct, released, ledger>>

EndRecord == record' = [NoRecord EXCEPT !.commands = record.commands]

\* Mutant: a package is recorded as soon as it was checked.
CheckAndRecordName(name) ==
  /\ record.pc = "check"
  /\ name \in record.todo
  /\ IF IsPublic(name) THEN EndRecord /\ UNCHANGED ledger
     ELSE /\ record' = [record EXCEPT !.todo = @ \ {name}]
          /\ ledger' = IF record.dryRun THEN ledger ELSE ledger \cup {name}
  /\ UNCHANGED <<member, direct, released>>

\* isPublishedVersionChecked, package after package: a public one ends the
\* command before anything was recorded.
CheckName(name) ==
  /\ record.pc = "check"
  /\ name \in record.todo
  /\ IF IsPublic(name) THEN EndRecord
     ELSE record' = [record EXCEPT !.todo = @ \ {name}]
  /\ UNCHANGED <<member, direct, released, ledger>>

AllChecked ==
  /\ record.pc = "check"
  /\ record.todo = {}
  /\ IF record.dryRun THEN EndRecord
     ELSE record' = [record EXCEPT !.pc = "record", !.todo = record.names]
  /\ UNCHANGED <<member, direct, released, ledger>>

\* abandonNpmRelease for one identity.
RecordName(name) ==
  /\ record.pc = "record"
  /\ name \in record.todo
  /\ ledger' = ledger \cup {name}
  /\ record' = [record EXCEPT !.todo = @ \ {name}]
  /\ UNCHANGED <<member, direct, released>>

\* Mutant: the stages are rejected before the releases are recorded.
RejectWithoutRecord ==
  /\ record.pc = "record"
  /\ record' = [record EXCEPT !.pc = "reject", !.todo = record.names]
  /\ UNCHANGED <<member, direct, released, ledger>>

AllRecorded ==
  /\ record.pc = "record"
  /\ record.todo = {}
  /\ IF record.recordOnly THEN EndRecord
     ELSE record' = [record EXCEPT !.pc = "reject", !.todo = record.names]
  /\ UNCHANGED <<member, direct, released, ledger>>

\* rejectNpmReleaseStages: the stages listed now; a reject that fails is
\* reported and the loop goes on.
RejectStages(name, refused) ==
  /\ record.pc = "reject"
  /\ name \in record.todo
  /\ record' = [record EXCEPT !.todo = @ \ {name}]
  /\ IF name = Main
       THEN /\ stages' = [id \in DOMAIN stages |->
                            IF stages[id].state = "staged" /\ id \notin refused
                              THEN [stages[id] EXCEPT !.state = "rejected"]
                              ELSE stages[id]]
            /\ UNCHANGED member
       ELSE /\ member' = IF member[name] = "staged" /\ refused = {}
                           THEN [member EXCEPT ![name] = "rejected"] ELSE member
            /\ UNCHANGED stages
  /\ UNCHANGED <<direct, released, ledger, call, scans, builds, place, runs, job,
                 public, receipts, coord>>

AllRejected ==
  /\ record.pc = "reject"
  /\ record.todo = {}
  /\ EndRecord
  /\ UNCHANGED <<member, direct, released, ledger>>

\* Any call may fail or the command be killed; nothing is taken back.
RecordDies ==
  /\ record.pc # "idle"
  /\ EndRecord
  /\ UNCHANGED <<member, direct, released, ledger>>

RecordCommandStep ==
  \/ \E name \in Names : CheckName(name) \/ RecordName(name)
  \/ AllChecked
  \/ AllRecorded
  \/ AllRejected

OutsideStep ==
  \/ \E name \in Members : StartDirect(name) \/ Appear(name) \/ ApproveMember(name)
  \/ \E outcome \in UploadOutcomes : UploadDirect(outcome)
  \/ \E isLive \in BOOLEAN : ReleaseDirect(isLive)
  \/ \E request \in AbandonRequests, name \in Names, dryRun \in BOOLEAN :
       StartAbandon(request, name, dryRun)
  \/ RecordCommandStep
  \/ RecordDies

Rejecting ==
  \E name \in Names, refused \in SUBSET DOMAIN stages : RejectStages(name, refused)

Init == ReleaseInit /\ RecordInit

\* Bounds: no workflow run begins after the first record command, members move
\* only after it, and native builds run between workflow runs.
Next ==
  \/ ReleaseNext /\ (job' # job => record.commands = 0) /\ UNCHANGED recordVars
  \/ OutsideStep /\ UNCHANGED releaseVars
  \/ Rejecting

Spec == Init /\ [][Next]_vars

-----------------------------------------------------------------------------
\* A command that was asked to abandon a release of which a package was public
\* already records nothing at all, not even the packages before that one
\* (abandonNpmReleaseRecord checks every identity before it records the first).
NoneAbandonedIfPublic == [][ledger' # ledger => record.publicBefore = {}]_vars

\* A stage is thrown away only after every package of its release stands in the
\* ledger, so that no reject that succeeds can outlive a record that failed.
RejectedAfterRecorded ==
  [][(\E id \in DOMAIN stages : stages[id].state # "rejected"
                                /\ stages'[id].state = "rejected")
       => record.names \subseteq ledger]_vars

=============================================================================
