---------------------------- MODULE CiJob_proofs ----------------------------
(***************************************************************************)
(* What a CI job puts in place, for any jobs, plans, machines and bounds:  *)
(* the tool directories shared by its jobs, the runner's swap file, the    *)
(* packages in node_modules before pnpm runs, what the setup steps tell    *)
(* later ones, and the tables the package ships.                           *)
(***************************************************************************)
EXTENDS ToolInstall, RunnerResources, ZeroDepBootstrap, CiSetup, PatternTables, FiniteSetTheorems,
        SequenceTheorems, NaturalsInduction, WellFoundedInduction, TLAPS

(***************************************************************************)
(* Tools.  Whatever a job wrote is of the digest its plan pins.            *)
(***************************************************************************)
Digests == {Nothing, "other", "torn"} \cup
           UNION {{plan[j].pin.integrity : j \in Jobs} : plan \in JobPlans}
Directories == [there : BOOLEAN, cached : Digests, tool : Digests, whole : BOOLEAN]

Extracting == {"write", "extract", "extracting"}
Working == {"read", "request", "verify", "stage", "rename", "validate"} \cup Extracting
Labels == Working \cup {"lookup", "finally", "recheck", "done", "cancelled"}

ToolTypes ==
    /\ jplan \in JobPlans
    /\ jpc \in [Jobs -> Labels]
    /\ code \in [Jobs -> {Nothing, 0, 1, 2}]
    /\ attempt = [j \in Jobs |-> attempt[j]]
    /\ bytes \in [Jobs -> Digests]
    /\ where \in [Jobs -> Places]
    /\ tree \in [Places -> Directories]

Dest(j) == jplan[j].destination
Pin(j) == jplan[j].pin.integrity
(* A job at work writes to its own place, and only what its plan pins. *)
AtWork(j) ==
    /\ jpc[j] \in Working => where[j] = InstallDir(j)
    /\ jpc[j] \in Extracting => bytes[j] = Pin(j)
    /\ jpc[j] \in {"stage", "rename", "validate"} => jplan[j].atomic

(* What an atomic install is about to rename into place is whole. *)
StagedWhole(j) == jplan[j].atomic =>
    /\ jpc[j] \in {"extracting", "stage", "rename"} => tree[j].tool = Pin(j)
    /\ jpc[j] \in {"stage", "rename"} => tree[j].whole

(* A destination only renames reach holds nothing, or a whole pinned tool. *)
Atomic(d) == \A j \in Sharers(d) : jplan[j].atomic
Published(j) == Atomic(Dest(j)) =>
    /\ tree[Dest(j)].tool # Nothing =>
         /\ tree[Dest(j)].whole
         /\ tree[Dest(j)].tool \in {Pin(k) : k \in Sharers(Dest(j))}
    /\ jpc[j] = "done" /\ code[j] = 0 => tree[Dest(j)].tool # Nothing

(* The one job of a destination that it writes in place. *)
Alone(j) == ~jplan[j].atomic /\ Sharers(Dest(j)) = {j} =>
    /\ jpc[j] = "lookup" => tree[Dest(j)].tool = Nothing
    /\ jpc[j] = "extracting" => tree[Dest(j)].tool = Pin(j)
    /\ jpc[j] \in {"finally", "recheck", "done"} /\ code[j] = 0 =>
         tree[Dest(j)].tool = Pin(j) /\ tree[Dest(j)].whole

ToolInv ==
    /\ ToolTypes
    /\ \A j \in Jobs : AtWork(j) /\ StagedWhole(j) /\ Published(j) /\ Alone(j)

ToolStep(j) ==
    \/ LookUp(j) \/ ReadArchive(j) \/ Request(j) \/ VerifyBytes(j) \/ WriteArchive(j)
    \/ BeginExtract(j) \/ EndExtract(j) \/ CheckStaging(j) \/ RenameStaging(j)
    \/ CheckWinner(j) \/ Finally(j) \/ Recheck(j) \/ Cancel(j)

(* A plan names for each job a destination that is nobody's staging directory. *)
LEMMA PlanFacts ==
  ASSUME jplan \in JobPlans, NEW j \in Jobs
  PROVE  /\ Dest(j) \in Places /\ j \in Places /\ Dest(j) \notin Jobs
         /\ Pin(j) \in Digests /\ Pin(j) # Nothing
         /\ jplan[j].atomic \in BOOLEAN /\ jplan[j].checkFirst \in BOOLEAN
         /\ InstallDir(j) \in {j, Dest(j)} /\ j \in Sharers(Dest(j))
  BY PlanAssumption DEF Dest, Pin, Places, Digests, InstallDir, Sharers

(* Before the first step every directory is absent. *)
LEMMA ToolInitial == TInit => ToolInv
  <1> SUFFICES ASSUME TInit PROVE ToolInv
    OBVIOUS
  <1>1. Absent \in Directories
    BY DEF Absent, Directories, Digests
  <1>2. \A j \in Jobs : jplan[j].destination \in Places
    BY DEF Places
  <1>3. ToolTypes
    <2>1. where \in [Jobs -> Places]
      BY <1>2 DEF TInit
    <2>2. bytes \in [Jobs -> Digests]
      BY DEF TInit, Digests
    <2> QED
      BY <1>1, <2>1, <2>2 DEF TInit, ToolTypes, Labels
  <1>4. ASSUME NEW j \in Jobs PROVE AtWork(j) /\ StagedWhole(j) /\ Published(j) /\ Alone(j)
    <2>1. jpc[j] = "lookup" /\ jplan \in JobPlans
      BY DEF TInit
    <2>2. tree[Dest(j)] = Absent
      BY <2>1, PlanFacts DEF TInit
    <2> QED
      BY <2>1, <2>2 DEF AtWork, StagedWhole, Published, Alone, Working, Extracting, Absent
  <1> QED
    BY <1>3, <1>4 DEF ToolInv

(* A step of k keeps the plans and the places, and is nobody else's. *)
LEMMA ToolFrame ==
  ASSUME ToolInv, NEW k \in Jobs, ToolStep(k)
  PROVE  /\ jplan' = jplan
         /\ \A j \in Jobs \ {k} : /\ jpc'[j] = jpc[j] /\ code'[j] = code[j]
                                  /\ bytes'[j] = bytes[j] /\ where'[j] = where[j]
  <1>1. jplan' = jplan
    BY DEF ToolStep, LookUp, ReadArchive, Request, VerifyBytes, WriteArchive, BeginExtract, EndExtract,
           CheckStaging, RenameStaging, CheckWinner, Finally, Recheck, Cancel
  <1>2. ASSUME NEW j \in Jobs \ {k} PROVE jpc'[j] = jpc[j] /\ code'[j] = code[j]
    BY DEF ToolInv, ToolTypes, To, Leave, ToolStep, LookUp, ReadArchive, Request,
           VerifyBytes, WriteArchive,
           BeginExtract, EndExtract, CheckStaging, RenameStaging, CheckWinner, Finally, Recheck, Cancel
  <1>3. ASSUME NEW j \in Jobs \ {k} PROVE bytes'[j] = bytes[j] /\ where'[j] = where[j]
    BY DEF ToolInv, ToolTypes, ToolStep, LookUp, ReadArchive, Request, VerifyBytes, WriteArchive,
           BeginExtract, EndExtract, CheckStaging, RenameStaging, CheckWinner, Finally, Recheck, Cancel
  <1> QED
    BY <1>1, <1>2, <1>3

(* The types of what one job changes of its own. *)
LEMMA ToolLocals ==
  ASSUME ToolInv, NEW k \in Jobs, ToolStep(k)
  PROVE  /\ jpc' \in [Jobs -> Labels] /\ code' \in [Jobs -> {Nothing, 0, 1, 2}]
         /\ attempt' = [j \in Jobs |-> attempt'[j]]
         /\ bytes' \in [Jobs -> Digests] /\ where' \in [Jobs -> Places]
  <1>0. Pin(k) \in Digests /\ InstallDir(k) \in Places /\ "other" \in Digests
    BY PlanFacts DEF ToolInv, ToolTypes, Digests
  <1>1. jpc' \in [Jobs -> Labels]
    BY DEF Labels, Working, Extracting, ToolInv, ToolTypes, To, Leave, ToolStep, LookUp, ReadArchive, Request,
           VerifyBytes, WriteArchive,
           BeginExtract, EndExtract, CheckStaging, RenameStaging, CheckWinner, Finally, Recheck, Cancel
  <1>2. code' \in [Jobs -> {Nothing, 0, 1, 2}]
    BY DEF ToolInv, ToolTypes, To, Leave, ToolStep, LookUp, ReadArchive, Request,
           VerifyBytes, WriteArchive,
           BeginExtract, EndExtract, CheckStaging, RenameStaging, CheckWinner, Finally, Recheck, Cancel
  <1>3. attempt' = [j \in Jobs |-> attempt'[j]]
    BY DEF ToolInv, ToolTypes, ToolStep, LookUp, ReadArchive, Request, VerifyBytes, WriteArchive,
           BeginExtract, EndExtract, CheckStaging, RenameStaging, CheckWinner, Finally, Recheck, Cancel
  <1>4. bytes' \in [Jobs -> Digests]
    BY <1>0 DEF ToolInv, ToolTypes, Pin, ToolStep, LookUp, ReadArchive, Request, VerifyBytes, WriteArchive,
           BeginExtract, EndExtract, CheckStaging, RenameStaging, CheckWinner, Finally, Recheck, Cancel
  <1>5. where' \in [Jobs -> Places]
    BY <1>0 DEF ToolInv, ToolTypes, ToolStep, LookUp, ReadArchive, Request, VerifyBytes, WriteArchive,
           BeginExtract, EndExtract, CheckStaging, RenameStaging, CheckWinner, Finally, Recheck, Cancel
  <1> QED
    BY <1>1, <1>2, <1>3, <1>4, <1>5

(* A step of k writes to its own place, or renames its staging directory. *)
LEMMA ToolWrites ==
  ASSUME ToolInv, NEW k \in Jobs, ToolStep(k)
  PROVE  /\ tree' \in [Places -> Directories]
         /\ \A d \in Places \ {k, Dest(k)} : tree'[d] = tree[d]
         /\ jplan[k].atomic =>
              \/ tree'[Dest(k)] = tree[Dest(k)]
              \/ jpc[k] = "rename" /\ tree'[Dest(k)] = tree[k]
  <1>0. /\ ToolTypes /\ AtWork(k) /\ InstallDir(k) \in {k, Dest(k)} /\ Dest(k) # k
        /\ k \in Places /\ Dest(k) \in Places /\ where[k] \in Places /\ bytes[k] \in Digests
        /\ EmptyDir \in Directories /\ Absent \in Directories /\ "torn" \in Digests
    BY PlanFacts DEF ToolInv, ToolTypes, EmptyDir, Absent, Directories, Digests
  <1>a. jplan[k].atomic => InstallDir(k) = k
    BY DEF InstallDir
  <1>1. CASE LookUp(k)
    BY <1>0, <1>1, <1>a DEF LookUp, ToolTypes
  <1>2. CASE tree' = tree
    BY <1>0, <1>2 DEF ToolTypes
  <1>3. CASE WriteArchive(k) \/ Cancel(k)
    <2>1. \/ tree' = tree
          \/ /\ where[k] = InstallDir(k)
             /\ \E c \in Digests : tree' = [tree EXCEPT ![where[k]].cached = c]
      BY <1>0, <1>3 DEF WriteArchive, Cancel, AtWork, Working, Extracting
    <2>2. ASSUME NEW c \in Digests, tree' = [tree EXCEPT ![where[k]].cached = c]
          PROVE  \E r \in Directories : tree' = [tree EXCEPT ![where[k]] = r]
      <3>1. [tree[where[k]] EXCEPT !.cached = c] \in Directories
        BY <1>0 DEF ToolTypes, Directories
      <3> QED
        BY <2>2, <3>1
    <2>3. \/ tree' = tree
          \/ where[k] = InstallDir(k) /\ \E r \in Directories : tree' = [tree EXCEPT ![where[k]] = r]
      BY <2>1, <2>2
    <2> QED
      BY <1>0, <1>2, <1>a, <2>3 DEF ToolTypes
  <1>4. CASE BeginExtract(k) \/ EndExtract(k)
    <2>1. where[k] = InstallDir(k)
      BY <1>0, <1>4 DEF BeginExtract, EndExtract, AtWork, Working, Extracting
    <2>2. \/ tree' = tree
          \/ \E r \in Directories : tree' = [tree EXCEPT ![where[k]] = r]
      <3>1. CASE BeginExtract(k)
        <4>1. [tree[where[k]] EXCEPT !.tool = bytes[k], !.whole = FALSE] \in Directories
          BY <1>0 DEF ToolTypes, Directories
        <4> QED
          BY <1>0, <3>1, <4>1 DEF BeginExtract, ToolTypes
      <3>2. CASE EndExtract(k)
        <4>1. [tree[where[k]] EXCEPT !.whole = TRUE] \in Directories
          BY <1>0 DEF ToolTypes, Directories
        <4> QED
          BY <1>0, <3>2, <4>1 DEF EndExtract, ToolTypes
      <3> QED
        BY <1>4, <3>1, <3>2
    <2> QED
      BY <1>0, <1>2, <1>a, <2>1, <2>2 DEF ToolTypes
  <1>5. CASE RenameStaging(k)
    <2>1. where[k] = k
      BY <1>0, <1>5, <1>a DEF RenameStaging, AtWork, Working
    <2>2. CASE tree' = [tree EXCEPT ![Dest(k)] = tree[where[k]], ![where[k]] = Absent]
      BY <1>0, <1>5, <2>1, <2>2 DEF ToolTypes, RenameStaging
    <2> QED
      BY <1>2, <1>5, <2>2 DEF RenameStaging, Dest
  <1>6. CASE Finally(k)
    BY <1>0, <1>6 DEF ToolTypes, Finally
  <1> QED
    BY <1>1, <1>2, <1>3, <1>4, <1>5, <1>6
       DEF ToolStep, ReadArchive, Request, VerifyBytes, CheckStaging, CheckWinner, Recheck

(* Two jobs at work never write to the same place, unless both in place. *)
LEMMA ApartFromOthers ==
  ASSUME ToolInv, NEW k \in Jobs, ToolStep(k), NEW j \in Jobs, j # k
  PROVE  /\ tree'[j] = tree[j]
         /\ Dest(j) # Dest(k) => tree'[Dest(j)] = tree[Dest(j)]
  <1>1. j \in Places /\ j # Dest(k) /\ Dest(j) \in Places /\ Dest(j) # k
    BY PlanFacts DEF ToolInv, ToolTypes
  <1> QED
    BY <1>1, ToolWrites

(* What k knows of its own work after a step of its own. *)
LEMMA OwnWork ==
  ASSUME ToolInv, NEW k \in Jobs, ToolStep(k)
  PROVE  AtWork(k)'
  <1>0. ToolTypes /\ AtWork(k) /\ jplan' = jplan
    BY ToolFrame DEF ToolInv
  <1>1. jpc'[k] \in Working => where'[k] = InstallDir(k)
    BY <1>0 DEF AtWork, ToolTypes, Working, Extracting, To, Leave, ToolStep, LookUp, ReadArchive, Request,
           VerifyBytes, WriteArchive, BeginExtract, EndExtract, CheckStaging, RenameStaging, CheckWinner,
           Finally, Recheck, Cancel
  <1>2. jpc'[k] \in Extracting => bytes'[k] = Pin(k)
    BY <1>0 DEF AtWork, ToolTypes, Working, Extracting, Pin, To, Leave, ToolStep, LookUp, ReadArchive, Request,
           VerifyBytes, WriteArchive, BeginExtract, EndExtract, CheckStaging, RenameStaging, CheckWinner,
           Finally, Recheck, Cancel
  <1>3. jpc'[k] \in {"stage", "rename", "validate"} => jplan[k].atomic
    BY <1>0 DEF AtWork, ToolTypes, To, Leave, ToolStep, LookUp, ReadArchive, Request,
           VerifyBytes, WriteArchive, BeginExtract, EndExtract, CheckStaging, RenameStaging, CheckWinner,
           Finally, Recheck, Cancel
  <1>4. InstallDir(k)' = InstallDir(k) /\ Pin(k)' = Pin(k)
    BY <1>0 DEF InstallDir, Pin
  <1> QED
    BY <1>0, <1>1, <1>2, <1>3, <1>4 DEF AtWork

(* The extraction, step by step: where it begins, where it ends. *)
LEMMA Extraction ==
  ASSUME ToolInv, NEW k \in Jobs, ToolStep(k)
  PROVE  /\ jpc'[k] = "extracting" => tree'[InstallDir(k)].tool = Pin(k)
         /\ jpc[k] = "extracting" /\ jpc'[k] \in {"stage", "finally"} =>
              /\ tree'[InstallDir(k)].tool = tree[InstallDir(k)].tool
              /\ jpc'[k] = "stage" \/ code'[k] = 0 => tree'[InstallDir(k)].whole
         /\ jpc'[k] = "stage" => jpc[k] = "extracting"
         /\ jpc'[k] = "rename" => jpc[k] = "stage" /\ tree' = tree
  <1>0. /\ ToolTypes /\ AtWork(k) /\ where[k] \in Places
        /\ jpc[k] \in Extracting => where[k] = InstallDir(k)
    BY DEF ToolInv, ToolTypes, AtWork, Working
  <1>1. jpc'[k] = "extracting" => BeginExtract(k)
    BY <1>0 DEF ToolTypes, To, Leave, ToolStep, LookUp, ReadArchive, Request,
           VerifyBytes, WriteArchive, EndExtract, CheckStaging, RenameStaging, CheckWinner,
           Finally, Recheck, Cancel
  <1>2. BeginExtract(k) /\ jpc'[k] = "extracting" => tree'[InstallDir(k)].tool = Pin(k)
    BY <1>0 DEF BeginExtract, Leave, ToolTypes, Extracting, AtWork, Directories
  <1>3. jpc[k] = "extracting" /\ jpc'[k] \in {"stage", "finally"} => EndExtract(k)
    BY <1>0 DEF ToolTypes, ToolStep, LookUp, ReadArchive, Request,
           VerifyBytes, WriteArchive, BeginExtract, CheckStaging, RenameStaging, CheckWinner,
           Finally, Recheck, Cancel
  <1>4. EndExtract(k) => /\ tree'[InstallDir(k)].tool = tree[InstallDir(k)].tool
                         /\ jpc'[k] = "stage" \/ code'[k] = 0 => tree'[InstallDir(k)].whole
    <2>1. ASSUME EndExtract(k), tree' = [tree EXCEPT ![where[k]].whole = TRUE]
          PROVE  tree'[InstallDir(k)].tool = tree[InstallDir(k)].tool /\ tree'[InstallDir(k)].whole
      BY <1>0, <2>1 DEF EndExtract, ToolTypes, Extracting, Directories
    <2>2. ASSUME EndExtract(k), tree' = tree, Leave(k, 1)
          PROVE  tree'[InstallDir(k)].tool = tree[InstallDir(k)].tool /\ jpc'[k] # "stage" /\ code'[k] # 0
      BY <1>0, <2>2 DEF Leave, ToolTypes
    <2> QED
      BY <2>1, <2>2 DEF EndExtract
  <1>5. jpc'[k] = "stage" => jpc[k] = "extracting"
    BY <1>0 DEF ToolTypes, To, Leave, ToolStep, LookUp, ReadArchive, Request,
           VerifyBytes, WriteArchive, BeginExtract, EndExtract, CheckStaging, RenameStaging, CheckWinner,
           Finally, Recheck, Cancel
  <1>6. jpc'[k] = "rename" => jpc[k] = "stage" /\ tree' = tree
    BY <1>0 DEF ToolTypes, To, Leave, ToolStep, LookUp, ReadArchive, Request,
           VerifyBytes, WriteArchive, BeginExtract, EndExtract, CheckStaging, RenameStaging, CheckWinner,
           Finally, Recheck, Cancel
  <1> QED
    BY <1>1, <1>2, <1>3, <1>4, <1>5, <1>6

(* How a job comes to an end with the tool on the path. *)
LEMMA LastStep ==
  ASSUME ToolInv, NEW k \in Jobs, ToolStep(k)
  PROVE  /\ jpc'[k] # "lookup" /\ jpc[k] # "done"
         /\ jpc'[k] = "finally" /\ code'[k] = 0 => jpc[k] = "extracting" \/ jplan[k].atomic
         /\ jpc'[k] = "recheck" => /\ jpc[k] = "finally" /\ code'[k] = code[k]
                                   /\ ~jplan[k].atomic => tree' = tree
         /\ jpc'[k] = "done" /\ code'[k] = 0 =>
              /\ tree' = tree /\ tree[Dest(k)].tool # Nothing
              /\ jpc[k] = "lookup" \/ (jpc[k] = "recheck" /\ code[k] = 0)
  <1>0. ToolTypes /\ AtWork(k)
    BY DEF ToolInv
  <1>1. jpc'[k] # "lookup" /\ jpc[k] # "done"
    BY <1>0 DEF ToolTypes, To, Leave, ToolStep, LookUp, ReadArchive, Request,
           VerifyBytes, WriteArchive, BeginExtract, EndExtract, CheckStaging, RenameStaging, CheckWinner,
           Finally, Recheck, Cancel
  <1>2. jpc'[k] = "finally" /\ code'[k] = 0 => jpc[k] = "extracting" \/ jplan[k].atomic
    BY <1>0 DEF AtWork, ToolTypes, To, Leave, ToolStep, LookUp, ReadArchive, Request,
           VerifyBytes, WriteArchive, BeginExtract, EndExtract, CheckStaging, RenameStaging, CheckWinner,
           Finally, Recheck, Cancel
  <1>3. jpc'[k] = "recheck" => Finally(k)
    BY <1>0 DEF ToolTypes, To, Leave, ToolStep, LookUp, ReadArchive, Request,
           VerifyBytes, WriteArchive, BeginExtract, EndExtract, CheckStaging, RenameStaging, CheckWinner,
           Recheck, Cancel
  <1>4. jpc'[k] = "done" => LookUp(k) \/ Recheck(k)
    BY <1>0 DEF ToolTypes, To, Leave, ToolStep, ReadArchive, Request,
           VerifyBytes, WriteArchive, BeginExtract, EndExtract, CheckStaging, RenameStaging, CheckWinner,
           Finally, Cancel
  <1>5. LookUp(k) /\ jpc'[k] = "done" =>
          tree' = tree /\ tree[Dest(k)].tool # Nothing /\ jpc[k] = "lookup"
    BY <1>0 DEF ToolTypes, To, LookUp, Executable, Dest
  <1>6. Recheck(k) /\ code'[k] = 0 =>
          tree' = tree /\ tree[Dest(k)].tool # Nothing /\ jpc[k] = "recheck" /\ code[k] = 0
    BY <1>0 DEF ToolTypes, Recheck, Executable, Dest
  <1> QED
    <2>1. Finally(k) => /\ jpc[k] = "finally" /\ code' = code
                        /\ ~jplan[k].atomic => tree' = tree
      BY DEF Finally
    <2>2. jpc'[k] = "recheck" => /\ jpc[k] = "finally" /\ code'[k] = code[k]
                                 /\ ~jplan[k].atomic => tree' = tree
      BY <1>3, <2>1, Zenon
    <2>3. jpc'[k] = "done" /\ code'[k] = 0 =>
            /\ tree' = tree /\ tree[Dest(k)].tool # Nothing
            /\ jpc[k] = "lookup" \/ (jpc[k] = "recheck" /\ code[k] = 0)
      BY <1>4, <1>5, <1>6, Zenon
    <2> QED
      BY <1>1, <1>2, <2>2, <2>3, Zenon

(* A staging directory is whole when it is renamed, whoever else is at work. *)
LEMMA StagingStep ==
  ASSUME ToolInv, NEW k \in Jobs, ToolStep(k), NEW j \in Jobs
  PROVE  StagedWhole(j)'
  <1>0. jplan' = jplan /\ StagedWhole(j) /\ Pin(j)' = Pin(j)
    BY ToolFrame DEF ToolInv, Pin
  <1>1. CASE j # k
    BY <1>0, <1>1, ToolFrame, ApartFromOthers DEF StagedWhole
  <1>2. CASE j = k
    <2>1. jplan[k].atomic => InstallDir(k) = k
      BY DEF InstallDir
    <2>2. ASSUME jplan[k].atomic, jpc'[k] = "stage" PROVE tree'[k].tool = Pin(k) /\ tree'[k].whole
      BY <1>0, <1>2, <2>1, <2>2, Extraction DEF StagedWhole
    <2> QED
      BY <1>0, <1>2, <2>1, <2>2, Extraction DEF StagedWhole
  <1> QED
    BY <1>1, <1>2

(* A destination of atomic installs only ever goes from nothing to a whole tool. *)
LEMMA PublishStep ==
  ASSUME ToolInv, NEW k \in Jobs, ToolStep(k), NEW j \in Jobs
  PROVE  Published(j)'
  <1>0. /\ jplan' = jplan /\ Dest(j)' = Dest(j) /\ Sharers(Dest(j))' = Sharers(Dest(j))
        /\ Atomic(Dest(j))' = Atomic(Dest(j))
        /\ {Pin(i) : i \in Sharers(Dest(j))}' = {Pin(i) : i \in Sharers(Dest(j))}
    BY ToolFrame DEF Dest, Pin, Sharers, Atomic
  <1>1. SUFFICES ASSUME Atomic(Dest(j))
                 PROVE  /\ tree'[Dest(j)].tool # Nothing =>
                             /\ tree'[Dest(j)].whole
                             /\ tree'[Dest(j)].tool \in {Pin(i) : i \in Sharers(Dest(j))}
                        /\ jpc'[j] = "done" /\ code'[j] = 0 => tree'[Dest(j)].tool # Nothing
    BY <1>0 DEF Published
  <1>2. \/ tree'[Dest(j)] = tree[Dest(j)]
        \/ /\ k \in Sharers(Dest(j)) /\ tree'[Dest(j)].whole
           /\ tree'[Dest(j)].tool = Pin(k) /\ Pin(k) # Nothing
    <2>1. CASE Dest(k) # Dest(j)
      BY <2>1, ApartFromOthers
    <2>2. CASE Dest(k) = Dest(j)
      <3>1. k \in Sharers(Dest(j)) /\ jplan[k].atomic
        BY <1>1, <2>2, PlanFacts DEF Atomic, ToolInv, ToolTypes
      <3>2. Pin(k) # Nothing
        BY PlanFacts DEF ToolInv, ToolTypes
      <3>3. jpc[k] = "rename" => tree[k].tool = Pin(k) /\ tree[k].whole
        BY <3>1 DEF ToolInv, StagedWhole
      <3> QED
        BY <2>2, <3>1, <3>2, <3>3, ToolWrites
    <2> QED
      BY <2>1, <2>2
  <1>3. Published(j)
    BY DEF ToolInv
  <1>4. jpc'[j] = "done" /\ code'[j] = 0 =>
          tree'[Dest(j)].tool # Nothing \/ (jpc[j] = "done" /\ code[j] = 0)
    BY ToolFrame, LastStep
  <1> QED
    BY <1>1, <1>2, <1>3, <1>4 DEF Published

(* The only job of a destination ends well only once its tool is whole. *)
LEMMA AloneStep ==
  ASSUME ToolInv, NEW k \in Jobs, ToolStep(k), NEW j \in Jobs
  PROVE  Alone(j)'
  <1>0. /\ jplan' = jplan /\ Dest(j)' = Dest(j) /\ Sharers(Dest(j))' = Sharers(Dest(j))
        /\ Pin(j)' = Pin(j) /\ Alone(j)
    BY ToolFrame DEF Dest, Pin, Sharers, ToolInv
  <1>1. SUFFICES ASSUME ~jplan[j].atomic, Sharers(Dest(j)) = {j}
                 PROVE  /\ jpc'[j] = "lookup" => tree'[Dest(j)].tool = Nothing
                        /\ jpc'[j] = "extracting" => tree'[Dest(j)].tool = Pin(j)
                        /\ jpc'[j] \in {"finally", "recheck", "done"} /\ code'[j] = 0 =>
                             tree'[Dest(j)].tool = Pin(j) /\ tree'[Dest(j)].whole
    BY <1>0 DEF Alone
  <1>2. CASE j # k
    <2>1. Dest(k) # Dest(j)
      BY <1>1, <1>2, PlanFacts DEF ToolInv, ToolTypes
    <2> QED
      BY <1>0, <1>1, <1>2, <2>1, ToolFrame, ApartFromOthers DEF Alone
  <1>3. CASE j = k
    <2>1. InstallDir(k) = Dest(k)
      BY <1>1, <1>3 DEF InstallDir, Dest
    <2>2. ASSUME jpc'[k] = "finally", code'[k] = 0
          PROVE  tree'[Dest(k)].tool = Pin(k) /\ tree'[Dest(k)].whole
      BY <1>0, <1>1, <1>3, <2>1, <2>2, Extraction, LastStep DEF Alone
    <2>3. ASSUME jpc'[k] \in {"recheck", "done"}, code'[k] = 0
          PROVE  tree'[Dest(k)].tool = Pin(k) /\ tree'[Dest(k)].whole
      BY <1>0, <1>1, <1>3, <2>3, LastStep DEF Alone
    <2> QED
      BY <1>3, <2>1, <2>2, <2>3, Extraction, LastStep
  <1> QED
    BY <1>2, <1>3

(* Every step of every job keeps the invariant. *)
LEMMA ToolInvariant == TSpec => []ToolInv
  <1>1. ASSUME ToolInv, NEW k \in Jobs, ToolStep(k) PROVE ToolInv'
    <2>1. ToolTypes'
      <3>1. jplan' = jplan /\ jplan \in JobPlans /\ Places' = Places
        BY <1>1, ToolFrame DEF ToolInv, ToolTypes, Places
      <3>2. tree' \in [Places -> Directories]
        BY <1>1, ToolWrites
      <3> QED
        BY <1>1, <3>1, <3>2, ToolLocals DEF ToolTypes
    <2>2. ASSUME NEW j \in Jobs PROVE AtWork(j)'
      <3>1. CASE j = k
        BY <1>1, <3>1, OwnWork
      <3>2. CASE j # k
        BY <1>1, <3>2, ToolFrame DEF ToolInv, AtWork, InstallDir, Pin
      <3> QED
        BY <3>1, <3>2
    <2> QED
      BY <1>1, <2>1, <2>2, StagingStep, PublishStep, AloneStep DEF ToolInv
  <1>2. ASSUME ToolInv, UNCHANGED tvars PROVE ToolInv'
    BY SMTT(30), <1>2 DEF ToolInv, ToolTypes, AtWork, StagedWhole, Published, Alone, Atomic, Dest, Pin,
                InstallDir, Sharers, Places, tvars
  <1>3. ToolInv /\ [TNext]_tvars => ToolInv'
    BY <1>1, <1>2 DEF TNext, ToolStep
  <1> QED
    BY <1>3, ToolInitial, PTL DEF TSpec

(* InstalledToolIsPinned: whoever wins the race for a directory of the tool    *)
(* cache, and whatever was cancelled on the way, a job that goes on with a     *)
(* tool (the re-check of setup/action.yml after installToolAtomically) has a   *)
(* whole one, extracted from bytes that a job of this directory pinned.        *)
THEOREM InstalledTools == TSpec => []InstalledToolIsPinned
  <1>1. ToolInv => InstalledToolIsPinned
    <2> SUFFICES ASSUME ToolInv, NEW j \in Jobs, jpc[j] = "done", code[j] = 0, Guarded(Dest(j))
                 PROVE  /\ tree[Dest(j)].whole
                        /\ tree[Dest(j)].tool \in {jplan[k].pin.integrity : k \in Sharers(Dest(j))}
      BY DEF InstalledToolIsPinned, Dest
    <2>0. j \in Sharers(Dest(j))
      BY PlanFacts DEF ToolInv, ToolTypes
    <2>1. CASE Atomic(Dest(j))
      BY <2>1 DEF ToolInv, Published, Pin
    <2>2. CASE ~Atomic(Dest(j))
      <3>1. Cardinality(Sharers(Dest(j))) = 1
        BY <2>2 DEF Guarded, Atomic
      <3>2. IsFiniteSet(Sharers(Dest(j)))
        BY PlanAssumption, FS_Subset DEF Sharers
      <3>3. Sharers(Dest(j)) = {j}
        BY <2>0, <3>1, <3>2, FS_Singleton
      <3>4. Pin(j) \in {jplan[k].pin.integrity : k \in Sharers(Dest(j))}
        BY <3>3 DEF Pin
      <3> QED
        BY <2>2, <3>3, <3>4 DEF ToolInv, Alone, Atomic
    <2> QED
      BY <2>1, <2>2
  <1> QED
    BY <1>1, ToolInvariant, PTL

-----------------------------------------------------------------------------
(***************************************************************************)
(* The swap file.  Its inode is this run's until it is given up.           *)
(***************************************************************************)
Sizing == {"limits", "swaps", "disk"}
Activated == {"verify", "reread", "recheck", "unlink", "rmdir", "stopped"}
GivenUp == Activated \ {"verify"}

SwapFiles == [ino : {"own", "other"}, whole : BOOLEAN, signed : BOOLEAN]
SwapTypes ==
    /\ host \in Hosts
    /\ torn \in BOOLEAN /\ late \in BOOLEAN
    /\ file = None \/ file \in SwapFiles
    /\ dir \in {"absent", "own", "other"}
    /\ lost \subseteq {"own", "other"}

Mine == file # None /\ file.ino = "own"

(* Only this run's inode is ever an area, or may still become one. *)
AreaIsOurs ==
    /\ IsActive => Mine /\ rpc \in Activated
    /\ late => rpc \in GivenUp
    /\ rpc \in {"swapon", "verify"} \/ late => (file # None /\ file.signed => file.ino = "own")

(* What is unlinked is ours, or was exchanged after the last look. *)
UnlinkIsOurs ==
    /\ "other" \in lost => torn
    /\ rpc \in {"undoUnlink", "unlink"} /\ file # None => torn \/ file.ino = "own"

(* What is added is what was missing, and the disk holds it. *)
SizeIsDeficit ==
    /\ added \in Int /\ \A a \in active : a.path = OwnPath => a.bytes \in Int
    /\ rpc \in {"limits", "swaps"} => active = Areas(host.swaps)
    /\ rpc \notin {"limits", "swaps", "stopped"} => swapBefore \in Int
    /\ rpc \notin Sizing \cup {"stopped"} =>
         /\ added = Target - EffectiveMemory(host) - swapBefore
         /\ DiskHolds(host.scratch[scratch].free, added)

(* How a run has ended, if it has. *)
EndIsTold ==
    /\ rresult # None => rpc = "stopped"
    /\ SwapIsOwned

SwapInv == SwapTypes /\ AreaIsOurs /\ UnlinkIsOurs /\ SizeIsDeficit /\ EndIsTold

(* The sizes of a machine are numbers. *)
LEMMA Sizes ==
  ASSUME host \in Hosts
  PROVE  /\ EffectiveMemory(host) \in Int /\ TotalSwap(Areas(host.swaps)) \in Int
         /\ Target \in Int /\ Header \in Int /\ Header >= 0
  <1>1. Target \in Nat /\ Header \in Nat
    BY ResourceAssumption
  <1>2. EffectiveMemory(host) \in Int /\ TotalSwap(Areas(host.swaps)) \in Int
    BY ResourceAssumption
  <1> QED
    BY <1>1, <1>2

(* No machine starts with an area of ours. *)
LEMMA NoAreaYet ==
  ASSUME host \in Hosts, active = Areas(host.swaps)
  PROVE  ~IsActive
  <1>1. \A i \in DOMAIN host.swaps : host.swaps[i].path # OwnPath
    BY ResourceAssumption
  <1>2. ASSUME NEW a \in Areas(host.swaps) PROVE a.path # OwnPath
    <2>1. PICK i \in DOMAIN host.swaps :
            a = [path |-> host.swaps[i].path, bytes |-> host.swaps[i].bytes]
      BY DEF Areas
    <2> QED
      BY <1>1, <2>1
  <1> QED
    BY <1>2 DEF IsActive

(* Before the first step nothing is made and nothing told. *)
LEMMA SwapInitial == RInit => SwapInv
  <1> SUFFICES ASSUME RInit PROVE SwapInv
    OBVIOUS
  <1>1. ~IsActive
    BY NoAreaYet DEF RInit
  <1>2. SwapTypes
    BY DEF RInit, SwapTypes
  <1>3. AreaIsOurs /\ UnlinkIsOurs
    BY <1>1 DEF RInit, AreaIsOurs, UnlinkIsOurs
  <1>4. SizeIsDeficit
    BY <1>1 DEF RInit, SizeIsDeficit, Sizing, IsActive
  <1>5. EndIsTold
    BY DEF RInit, EndIsTold, SwapIsOwned
  <1> QED
    BY <1>2, <1>3, <1>4, <1>5 DEF SwapInv

(* What stays the same, and what an area never does: go away. *)
LEMMA SwapFrame ==
  ASSUME SwapInv, RNext
  PROVE  /\ SwapTypes' /\ active \subseteq active'
  <1>1. /\ host' = host /\ late' \in BOOLEAN /\ dir' \in {"absent", "own", "other"}
        /\ torn' \in BOOLEAN
    BY DEF SwapInv, SwapTypes, RNext, Fs, Ghosts, ReadLimits, ReadSwaps, MeasureDisk,
           MakeDirectory, OpenFile, WriteFile,
           CheckCreated, CheckUndo, UndoUnlink, DropDir, BeforeMkswap, Mkswap, BeforeSwapon, Swapon, LateSwapon,
           Verify, Reread, RecheckSwap, RemoveFile, RemoveOwnDir, Foreign, Unlink, RemoveDir, ValidateSwap
  <1>2. file' = None \/ file' \in SwapFiles
    <2>0. file = None \/ file \in SwapFiles
      BY DEF SwapInv, SwapTypes
    <2>1. file' \in {file, None, [ino |-> "own", whole |-> FALSE, signed |-> FALSE],
                     [ino |-> "other", whole |-> TRUE, signed |-> FALSE]}
          \/ (file # None /\ file' \in {[file EXCEPT !.whole = TRUE], [file EXCEPT !.signed = TRUE]})
      <3>1. CASE OpenFile
        BY <3>1 DEF OpenFile
      <3>2. CASE WriteFile
        BY <3>2 DEF WriteFile
      <3>3. CASE Mkswap
        BY <3>3 DEF Mkswap
      <3>4. CASE Foreign
        BY <3>4 DEF Foreign
      <3>5. CASE UndoUnlink \/ RemoveFile
        BY <3>5 DEF UndoUnlink, RemoveFile, Unlink
      <3>6. CASE file' = file
        BY <3>6
      <3> QED
        BY <3>1, <3>2, <3>3, <3>4, <3>5, <3>6
           DEF RNext, Fs, ReadLimits, ReadSwaps, MeasureDisk, MakeDirectory, CheckCreated, CheckUndo, DropDir,
               BeforeMkswap, BeforeSwapon, Swapon, LateSwapon, Verify, Reread, RecheckSwap, RemoveOwnDir,
               RemoveDir, ValidateSwap
    <2>2. file # None => /\ [file EXCEPT !.whole = TRUE] \in SwapFiles
                         /\ [file EXCEPT !.signed = TRUE] \in SwapFiles
      BY <2>0 DEF SwapFiles
    <2>3. /\ [ino |-> "own", whole |-> FALSE, signed |-> FALSE] \in SwapFiles
          /\ [ino |-> "other", whole |-> TRUE, signed |-> FALSE] \in SwapFiles
      BY DEF SwapFiles
    <2> QED
      BY <2>0, <2>1, <2>2, <2>3
  <1>3. lost' \subseteq {"own", "other"}
    BY DEF SwapInv, SwapTypes, SwapFiles, RNext, Fs, Ghosts, ReadLimits, ReadSwaps, MeasureDisk,
           MakeDirectory, OpenFile, WriteFile,
           CheckCreated, CheckUndo, UndoUnlink, DropDir, BeforeMkswap, Mkswap, BeforeSwapon, Swapon, LateSwapon,
           Verify, Reread, RecheckSwap, RemoveFile, RemoveOwnDir, Foreign, Unlink, RemoveDir, ValidateSwap
  <1>4. active \subseteq active'
    BY DEF RNext, Fs, Ghosts, Activate, ReadLimits, ReadSwaps, MeasureDisk, MakeDirectory, OpenFile, WriteFile,
           CheckCreated, CheckUndo, UndoUnlink, DropDir, BeforeMkswap, Mkswap, BeforeSwapon, Swapon, LateSwapon,
           Verify, Reread, RecheckSwap, RemoveFile, RemoveOwnDir, Foreign, Unlink, RemoveDir, ValidateSwap
  <1> QED
    BY <1>1, <1>2, <1>3, <1>4 DEF SwapInv, SwapTypes

(* No step makes an area of an inode that is not this run's. *)
LEMMA AreaStep ==
  ASSUME SwapInv, RNext
  PROVE  AreaIsOurs'
  <1> USE DEF SwapInv, SwapTypes, AreaIsOurs, Mine, IsActive, SwapFiles, Activated, GivenUp, SizeIsDeficit,
              Refuse, Refused, StopWith, Proceed
  <1>1. CASE ReadLimits
    BY <1>1 DEF ReadLimits, Fs, Ghosts
  <1>2. CASE ReadSwaps
    BY <1>2 DEF ReadSwaps, Fs, Ghosts
  <1>3. CASE MeasureDisk
    BY <1>3 DEF MeasureDisk, Fs, Ghosts
  <1>4. CASE MakeDirectory
    BY <1>4 DEF MakeDirectory, Ghosts
  <1>5. CASE OpenFile
    BY <1>5 DEF OpenFile, Ghosts
  <1>6. CASE WriteFile
    BY <1>6 DEF WriteFile, Ghosts
  <1>7. CASE CheckCreated
    BY <1>7 DEF CheckCreated, Fs, Ghosts, OwnedSwap
  <1>8. CASE CheckUndo
    BY <1>8 DEF CheckUndo, Fs, Ghosts, Removable
  <1>9. CASE UndoUnlink
    <2>1. ~IsActive /\ ~late
      BY <1>9 DEF UndoUnlink, AreaIsOurs
    <2>2. /\ active' = active /\ late' = late /\ file' \in {file, None}
          /\ rpc' \in {"stopped", "dropDir"}
      BY <1>9 DEF UndoUnlink, Unlink
    <2> QED
      BY <2>1, <2>2 DEF AreaIsOurs
  <1>10. CASE DropDir
    BY <1>10 DEF DropDir, RemoveDir, Ghosts
  <1>11. CASE BeforeMkswap
    BY <1>11 DEF BeforeMkswap, ValidateSwap, Fs, Ghosts, OwnedSwap
  <1>12. CASE Mkswap
    BY <1>12 DEF Mkswap, Ghosts
  <1>13. CASE BeforeSwapon
    BY <1>13 DEF BeforeSwapon, ValidateSwap, Fs, Ghosts, OwnedSwap
  <1>14. CASE Swapon
    BY <1>14 DEF Swapon, Activate, Swappable, Ghosts
  <1>15. CASE LateSwapon
    BY <1>15 DEF LateSwapon, Activate, Swappable, Ghosts
  <1>16. CASE Verify
    BY <1>16 DEF Verify, Fs, Ghosts
  <1>17. CASE Reread
    BY <1>17 DEF Reread, Fs, Ghosts
  <1>18. CASE RecheckSwap
    BY <1>18 DEF RecheckSwap, Fs, Ghosts, OwnedSwap
  <1>19. CASE RemoveFile
    BY <1>19 DEF RemoveFile, Unlink
  <1>20. CASE RemoveOwnDir
    BY <1>20 DEF RemoveOwnDir, RemoveDir, Ghosts
  <1>21. CASE Foreign
    BY <1>21 DEF Foreign
  <1> QED
    BY <1>1, <1>2, <1>3, <1>4, <1>5, <1>6, <1>7, <1>8, <1>9, <1>10, <1>11, <1>12, <1>13,
       <1>14, <1>15, <1>16, <1>17, <1>18, <1>19, <1>20, <1>21 DEF RNext

(* No step unlinks another inode than it looked at, unless it was exchanged. *)
LEMMA UnlinkStep ==
  ASSUME SwapInv, RNext
  PROVE  UnlinkIsOurs'
  <1> USE DEF SwapInv, SwapTypes, UnlinkIsOurs, SwapFiles, Refuse, Refused, StopWith, Proceed
  <1>1. CASE ReadLimits
    BY <1>1 DEF ReadLimits, Fs, Ghosts
  <1>2. CASE ReadSwaps
    BY <1>2 DEF ReadSwaps, Fs, Ghosts
  <1>3. CASE MeasureDisk
    BY <1>3 DEF MeasureDisk, Fs, Ghosts
  <1>4. CASE MakeDirectory
    BY <1>4 DEF MakeDirectory, Ghosts
  <1>5. CASE OpenFile
    BY <1>5 DEF OpenFile, Ghosts
  <1>6. CASE WriteFile
    BY <1>6 DEF WriteFile, Ghosts
  <1>7. CASE CheckCreated
    BY <1>7 DEF CheckCreated, Fs, Ghosts, OwnedSwap
  <1>8. CASE CheckUndo
    BY <1>8 DEF CheckUndo, Fs, Ghosts, Removable
  <1>9. CASE UndoUnlink
    <2>1. file # None => torn \/ file.ino = "own"
      BY <1>9 DEF UndoUnlink, UnlinkIsOurs
    <2>2. /\ lost' = lost \/ (file # None /\ lost' = lost \cup {file.ino})
          /\ torn' = torn /\ rpc' \in {"stopped", "dropDir"}
      BY <1>9 DEF UndoUnlink, Unlink
    <2> QED
      BY <2>1, <2>2 DEF UnlinkIsOurs
  <1>10. CASE DropDir
    BY <1>10 DEF DropDir, RemoveDir, Ghosts
  <1>11. CASE BeforeMkswap
    BY <1>11 DEF BeforeMkswap, ValidateSwap, Fs, Ghosts, OwnedSwap
  <1>12. CASE Mkswap
    BY <1>12 DEF Mkswap, Ghosts
  <1>13. CASE BeforeSwapon
    BY <1>13 DEF BeforeSwapon, ValidateSwap, Fs, Ghosts, OwnedSwap
  <1>14. CASE Swapon
    BY <1>14 DEF Swapon, Activate, Swappable, Ghosts
  <1>15. CASE LateSwapon
    BY <1>15 DEF LateSwapon, Activate, Swappable, Ghosts
  <1>16. CASE Verify
    BY <1>16 DEF Verify, Fs, Ghosts
  <1>17. CASE Reread
    BY <1>17 DEF Reread, Fs, Ghosts
  <1>18. CASE RecheckSwap
    BY <1>18 DEF RecheckSwap, Fs, Ghosts, OwnedSwap
  <1>19. CASE RemoveFile
    BY <1>19 DEF RemoveFile, Unlink
  <1>20. CASE RemoveOwnDir
    BY <1>20 DEF RemoveOwnDir, RemoveDir, Ghosts
  <1>21. CASE Foreign
    BY <1>21 DEF Foreign
  <1> QED
    BY <1>1, <1>2, <1>3, <1>4, <1>5, <1>6, <1>7, <1>8, <1>9, <1>10, <1>11, <1>12, <1>13,
       <1>14, <1>15, <1>16, <1>17, <1>18, <1>19, <1>20, <1>21 DEF RNext

(* The size is decided once, from what was read before. *)
LEMMA SizeStep ==
  ASSUME SwapInv, RNext
  PROVE  SizeIsDeficit'
  <1> USE DEF SwapInv, SwapTypes, SizeIsDeficit, Sizing, Refuse, Refused, StopWith, Proceed
  <1>1. CASE ReadLimits
    BY <1>1 DEF ReadLimits, Fs, Ghosts
  <1>2. CASE ReadSwaps
    BY <1>2, Sizes DEF ReadSwaps, Fs, Ghosts
  <1>3. CASE MeasureDisk
    <2> DEFINE memory == EffectiveMemory(host)
               allowance == SwapAllowed(host.cgroup)
    <2>1. memory \in Int /\ Target \in Int /\ swapBefore \in Int
      <3>1. host \in Hosts /\ rpc = "disk"
        BY <1>3 DEF MeasureDisk
      <3>2. memory \in Int /\ Target \in Int
        BY <3>1, Sizes
      <3> QED
        BY <3>1, <3>2
    <2>2. /\ host' = host /\ swapBefore' = swapBefore /\ rpc' \in {"stopped", "create"}
          /\ rpc' = "create" => /\ DeficitRefusal(memory, allowance) = None
                                /\ added' = SwapDeficit(memory, swapBefore)
                                /\ added' # 0 /\ DiskHolds(host.scratch[scratch'].free, added')
      BY <1>3 DEF MeasureDisk
    <2>3. SwapDeficit(memory, swapBefore) # 0 =>
            SwapDeficit(memory, swapBefore) = Target - memory - swapBefore
      <3>1. ~(memory >= Target) => RequiredSwap(memory) = Target - memory
        BY <2>1 DEF RequiredSwap, Max
      <3> QED
        BY <2>1, <3>1 DEF SwapDeficit
    <2> HIDE DEF memory, allowance
    <2>4. rpc' = "create" => /\ added' = Target - memory - swapBefore
                             /\ DiskHolds(host.scratch[scratch'].free, added')
      BY <2>2, <2>3
    <2>5. added' \in Int /\ active' = active
      <3>1. SwapDeficit(memory, swapBefore) \in Int
        BY <2>1, <2>3 DEF SwapDeficit
      <3>2. added' \in {added, 0, SwapDeficit(memory, swapBefore)} /\ active' = active
        BY <1>3 DEF MeasureDisk, Fs, memory
      <3> QED
        BY <3>1, <3>2
    <2> QED
      BY <1>3, <2>1, <2>2, <2>4, <2>5 DEF memory, MeasureDisk
  <1>4. CASE MakeDirectory
    BY <1>4 DEF MakeDirectory, Ghosts
  <1>5. CASE OpenFile
    BY <1>5 DEF OpenFile, Ghosts
  <1>6. CASE WriteFile
    BY <1>6 DEF WriteFile, Ghosts
  <1>7. CASE CheckCreated
    BY <1>7 DEF CheckCreated, Fs, Ghosts, OwnedSwap
  <1>8. CASE CheckUndo
    BY <1>8 DEF CheckUndo, Fs, Ghosts, Removable
  <1>9. CASE UndoUnlink
    BY <1>9 DEF UndoUnlink, Unlink
  <1>10. CASE DropDir
    BY <1>10 DEF DropDir, RemoveDir, Ghosts
  <1>11. CASE BeforeMkswap
    BY <1>11 DEF BeforeMkswap, ValidateSwap, Fs, Ghosts, OwnedSwap
  <1>12. CASE Mkswap
    BY <1>12 DEF Mkswap, Ghosts
  <1>13. CASE BeforeSwapon
    BY <1>13 DEF BeforeSwapon, ValidateSwap, Fs, Ghosts, OwnedSwap
  <1>14. CASE Swapon
    <2>1. /\ rpc = "swapon" /\ UNCHANGED <<host, scratch, added, swapBefore>>
          /\ rpc' \in {"verify", "reread"}
      BY <1>14 DEF Swapon
    <2>2. \A a \in active' : a.path = OwnPath => a.bytes \in Int
      BY <1>14, Sizes DEF Swapon, Activate
    <2> QED
      BY <2>1, <2>2
  <1>15. CASE LateSwapon
    <2>1. /\ rpc \notin {"limits", "swaps"}
          /\ UNCHANGED <<host, rpc, scratch, added, swapBefore>>
      BY <1>15 DEF LateSwapon, AreaIsOurs, GivenUp, Activated
    <2>2. \A a \in active' : a.path = OwnPath => a.bytes \in Int
      BY <1>15, Sizes DEF LateSwapon, Activate
    <2> QED
      BY <2>1, <2>2
  <1>16. CASE Verify
    BY <1>16 DEF Verify, Fs, Ghosts
  <1>17. CASE Reread
    BY <1>17 DEF Reread, Fs, Ghosts
  <1>18. CASE RecheckSwap
    BY <1>18 DEF RecheckSwap, Fs, Ghosts, OwnedSwap
  <1>19. CASE RemoveFile
    BY <1>19 DEF RemoveFile, Unlink
  <1>20. CASE RemoveOwnDir
    BY <1>20 DEF RemoveOwnDir, RemoveDir, Ghosts
  <1>21. CASE Foreign
    BY <1>21 DEF Foreign
  <1> QED
    BY <1>1, <1>2, <1>3, <1>4, <1>5, <1>6, <1>7, <1>8, <1>9, <1>10, <1>11, <1>12, <1>13,
       <1>14, <1>15, <1>16, <1>17, <1>18, <1>19, <1>20, <1>21 DEF RNext

(* A step that ends the run without a success or a finished cleanup. *)
Quiet == rresult' # None =>
    /\ rpc' = "stopped" /\ rresult'.status # "activated"
    /\ rresult'.why \notin {"failed swap activation", "failed unprivileged swap allocation"}

(* A refusal for any other reason is quiet, and so is going on. *)
LEMMA QuietRefusal ==
  ASSUME NEW reason, Refuse(reason),
         reason \notin {"failed swap activation", "failed unprivileged swap allocation"}
  PROVE  Quiet
  <1>1. rpc' = "stopped" /\ rresult' = [status |-> "refused", why |-> reason, total |-> 0]
    BY DEF Refuse, Refused, StopWith
  <1>2. rresult'.status = "refused" /\ rresult'.why = reason
    BY <1>1
  <1> QED
    BY <1>1, <1>2 DEF Quiet

(* So is going on. *)
LEMMA QuietProceeding ==
  ASSUME SwapInv, rpc # "stopped", NEW label, Proceed(label)
  PROVE  Quiet
  BY DEF SwapInv, EndIsTold, Proceed, Quiet

(* Most steps go on, or end that way. *)
LEMMA QuietStep ==
  ASSUME SwapInv,
         \/ ReadLimits \/ ReadSwaps \/ MeasureDisk \/ MakeDirectory \/ OpenFile \/ WriteFile
         \/ CheckCreated \/ CheckUndo \/ UndoUnlink \/ BeforeMkswap \/ Mkswap
         \/ BeforeSwapon \/ Swapon \/ RecheckSwap \/ RemoveFile
  PROVE  Quiet
  <1>1. CASE ReadLimits
    <2>1. /\ rpc # "stopped"
          /\ \/ Refuse("hidden or invalid limits")
             \/ Proceed("swaps")
             \/ StopWith([status |-> "skipped", why |-> None, total |-> 0])
      BY <1>1 DEF ReadLimits
    <2>2. StopWith([status |-> "skipped", why |-> None, total |-> 0]) => Quiet
      <3>1. None \notin {"failed swap activation", "failed unprivileged swap allocation"}
        BY ResourceAssumption
      <3>2. ASSUME NEW r, r = [status |-> "skipped", why |-> None, total |-> 0]
            PROVE  r.status # "activated" /\ r.why = None
        BY <3>2
      <3> QED
        BY <3>1, <3>2 DEF StopWith, Quiet
    <2>3. \A label : Proceed(label) => Quiet
      BY <2>1, QuietProceeding
    <2>4. Refuse("hidden or invalid limits") => Quiet
      BY QuietRefusal
    <2> QED
      BY <2>1, <2>2, <2>3, <2>4, Zenon
  <1>2. CASE ReadSwaps
    <2>1. rpc # "stopped" /\ (Refuse("invalid swap table") \/ Proceed("disk"))
      BY <1>2 DEF ReadSwaps
    <2> QED
      BY <2>1, QuietRefusal, QuietProceeding
  <1>3. CASE MeasureDisk
    <2> DEFINE refusal == DeficitRefusal(EffectiveMemory(host), SwapAllowed(host.cgroup))
    <2>1. refusal # None => refusal \notin {"failed swap activation", "failed unprivileged swap allocation"}
      BY DEF DeficitRefusal
    <2>2. \/ Refuse("no scratch") \/ Refuse("insufficient disk headroom") \/ Proceed("create")
          \/ (refusal # None /\ Refuse(refusal))
          \/ \E total : StopWith([status |-> "sufficient", why |-> None, total |-> total])
      BY <1>3 DEF MeasureDisk
    <2> HIDE DEF refusal
    <2>3. ASSUME NEW total, StopWith([status |-> "sufficient", why |-> None, total |-> total]) PROVE Quiet
      BY <2>3, ResourceAssumption DEF StopWith, Quiet
    <2> QED
      BY <1>3, <2>1, <2>2, <2>3, QuietRefusal, QuietProceeding DEF MeasureDisk
  <1>4. CASE MakeDirectory
    <2>1. rpc # "stopped" /\ (Refuse("changed directory, size or identity") \/ Proceed("open"))
      BY <1>4 DEF MakeDirectory
    <2> QED
      BY <2>1, QuietRefusal, QuietProceeding
  <1>5. CASE OpenFile
    BY <1>5, QuietProceeding DEF OpenFile
  <1>6. CASE WriteFile
    BY <1>6, QuietProceeding DEF WriteFile
  <1>7. CASE CheckCreated
    BY <1>7, QuietProceeding DEF CheckCreated
  <1>8. CASE CheckUndo
    <2>1. rpc # "stopped" /\ (Refuse("unsafe allocation cleanup") \/ Proceed("undoUnlink"))
      BY <1>8 DEF CheckUndo
    <2> QED
      BY <2>1, QuietRefusal, QuietProceeding
  <1>9. CASE UndoUnlink
    <2>1. rpc # "stopped" /\ (Refuse("failed undo") \/ Proceed("dropDir"))
      BY <1>9 DEF UndoUnlink, Unlink
    <2> QED
      BY <2>1, QuietRefusal, QuietProceeding
  <1>10. CASE BeforeMkswap
    BY <1>10, QuietProceeding DEF BeforeMkswap, ValidateSwap
  <1>11. CASE Mkswap
    BY <1>11, QuietProceeding DEF Mkswap
  <1>12. CASE BeforeSwapon
    BY <1>12, QuietProceeding DEF BeforeSwapon, ValidateSwap
  <1>13. CASE Swapon
    BY <1>13, QuietProceeding DEF Swapon
  <1>14. CASE RecheckSwap
    <2>1. rpc # "stopped" /\ (Refuse(Unverified) \/ Proceed("unlink"))
      BY <1>14 DEF RecheckSwap
    <2> QED
      BY <2>1, QuietRefusal, QuietProceeding DEF Unverified
  <1>15. CASE RemoveFile
    <2>1. rpc # "stopped" /\ (Refuse(Unverified) \/ Proceed("rmdir"))
      BY <1>15 DEF RemoveFile, Unlink
    <2> QED
      BY <2>1, QuietRefusal, QuietProceeding DEF Unverified
  <1> QED
    BY <1>1, <1>2, <1>3, <1>4, <1>5, <1>6, <1>7, <1>8, <1>9, <1>10, <1>11, <1>12, <1>13, <1>14, <1>15

(* What a run tells of its end stays true of the machine it leaves. *)
LEMMA EndStep ==
  ASSUME SwapInv, RNext
  PROVE  EndIsTold'
  <1> USE DEF SwapInv, EndIsTold, SwapIsOwned
  <1>0. ("other" \in lost)' => torn'
    BY UnlinkStep DEF UnlinkIsOurs
  <1>1. CASE Quiet
    BY <1>0, <1>1 DEF Quiet
  <1>2. CASE DropDir \/ RemoveOwnDir
    <2>1. rpc # "stopped" /\ file' = file
      BY <1>2 DEF DropDir, RemoveOwnDir, RemoveDir
    <2>2. Refuse("failed undo") \/ Refuse(Unverified) => Quiet
      BY QuietRefusal DEF Unverified
    <2>3. CASE Quiet
      BY <1>0, <2>3 DEF Quiet
    <2>4. CASE ~Quiet
      <3>1. /\ file = None /\ dir' = "absent" /\ rpc' = "stopped"
            /\ \E reason : rresult' = [status |-> "refused", why |-> reason, total |-> 0]
        <4>1. ~Refuse("failed undo") /\ ~Refuse(Unverified)
          BY <2>2, <2>4
        <4>2. /\ file = None /\ dir' = "absent"
              /\ Refuse("failed unprivileged swap allocation") \/ Refuse("failed swap activation")
          BY <1>2, <4>1 DEF DropDir, RemoveOwnDir, RemoveDir
        <4> QED
          BY <4>2 DEF Refuse, Refused, StopWith
      <3>2. rresult'.status = "refused" /\ file' = None /\ dir' = "absent"
        <4>1. PICK reason : rresult' = [status |-> "refused", why |-> reason, total |-> 0]
          BY <3>1
        <4>2. rresult'.status = "refused"
          BY <4>1
        <4> QED
          BY <2>1, <3>1, <4>2
      <3> QED
        BY <1>0, <3>1, <3>2
    <2> QED
      BY <2>3, <2>4
  <1>3. CASE Verify
    <2>1. CASE Proceed("reread")
      BY <1>0, <1>3, <2>1 DEF Proceed, Verify
    <2>2. CASE ~Proceed("reread")
      <3>1. PICK a \in active :
              /\ a.path = OwnPath /\ a.bytes >= added - Header /\ a.bytes <= added
              /\ rpc' = "stopped"
              /\ rresult' = [status |-> "activated", why |-> None,
                             total |-> EffectiveMemory(host) + swapBefore + a.bytes]
        BY <1>3, <2>2 DEF Verify, StopWith
      <3>2. UNCHANGED <<active, file, host, scratch, added>> /\ rpc = "verify"
        BY <1>3 DEF Verify, Fs
      <3>3. IsActive' /\ file'.ino = "own"
        BY <3>1, <3>2 DEF IsActive, AreaIsOurs, Mine
      <3>4. /\ swapBefore \in Int /\ added = Target - EffectiveMemory(host) - swapBefore
            /\ DiskHolds(host.scratch[scratch].free, added)
        BY <3>2, Zenon DEF SizeIsDeficit, Sizing
      <3>5. EffectiveMemory(host) \in Int /\ Target \in Int /\ Header \in Int
        BY Sizes DEF SwapTypes
      <3>6. ASSUME a.bytes \in Int PROVE /\ rresult'.total >= Target - Header
                                         /\ rresult'.total <= Target
        <4> DEFINE m == EffectiveMemory(host)
                   b == a.bytes
        <4>1. rresult'.total = m + swapBefore + b
          BY <3>1
        <4>2. /\ b \in Int /\ m \in Int /\ swapBefore \in Int /\ Target \in Int /\ Header \in Int
              /\ added = Target - m - swapBefore /\ b >= added - Header /\ b <= added
          BY <3>1, <3>4, <3>5, <3>6
        <4> HIDE DEF m, b
        <4>3. m + swapBefore + b >= Target - Header /\ m + swapBefore + b <= Target
          <5> HIDE DEF SwapInv, EndIsTold, SwapIsOwned
          <5> QED
            BY <4>2
        <4> QED
          BY <4>1, <4>3
      <3>7. a.bytes \in Int
        BY <3>1 DEF SizeIsDeficit
      <3>8. ~(rresult'.why \in {"failed swap activation", "failed unprivileged swap allocation"})
        BY <3>1, ResourceAssumption
      <3> QED
        BY <1>0, <3>1, <3>2, <3>3, <3>4, <3>6, <3>7, <3>8
    <2> QED
      BY <2>1, <2>2
  <1>4. CASE Reread
    <2>1. rpc # "stopped" /\ UNCHANGED active
      BY <1>4 DEF Reread, Fs
    <2>2. CASE Quiet
      BY <1>0, <2>2 DEF Quiet
    <2>3. CASE ~Quiet
      <3>1. ~Refuse(Unverified) /\ \A label : ~Proceed(label)
        BY <2>1, <2>3, QuietRefusal, QuietProceeding DEF Unverified
      <3>2. IsActive /\ Refuse("failed swap activation")
        BY <1>4, <3>1 DEF Reread
      <3>3. IsActive'
        BY <2>1, <3>2 DEF IsActive
      <3> QED
        BY <1>0, <3>2, <3>3 DEF Refuse, Refused, StopWith
    <2> QED
      BY <2>2, <2>3
  <1>5. CASE LateSwapon
    <2>1. UNCHANGED <<rresult, file, dir, host, scratch, added, rpc>>
      BY <1>5 DEF LateSwapon
    <2>2. IsActive => IsActive'
      BY SwapFrame DEF IsActive
    <2> QED
      BY <1>0, <2>1, <2>2
  <1>6. CASE Foreign
    BY <1>0, <1>6 DEF Foreign
  <1> QED
    BY <1>1, <1>2, <1>3, <1>4, <1>5, <1>6, QuietStep DEF RNext

(* Every step of the run, and of whoever else is on the machine, keeps the     *)
(* invariant.                                                                  *)
LEMMA SwapInvariant == RSpec => []SwapInv
  <1>1. ASSUME SwapInv, RNext PROVE SwapInv'
    BY <1>1, SwapFrame, AreaStep, UnlinkStep, SizeStep, EndStep DEF SwapInv
  <1>2. SwapInv /\ UNCHANGED rvars => SwapInv'
    <2> SUFFICES ASSUME SwapInv, UNCHANGED rvars PROVE SwapInv'
      OBVIOUS
    <2>1. SwapTypes'
      BY DEF SwapInv, SwapTypes, rvars
    <2>2. AreaIsOurs' /\ UnlinkIsOurs'
      BY DEF SwapInv, AreaIsOurs, UnlinkIsOurs, Mine, IsActive, rvars
    <2>3. SizeIsDeficit'
      BY DEF SwapInv, SizeIsDeficit, rvars
    <2>4. EndIsTold'
      BY DEF SwapInv, EndIsTold, SwapIsOwned, IsActive, rvars
    <2> QED
      BY <2>1, <2>2, <2>3, <2>4 DEF SwapInv
  <1>3. SwapInv /\ [RNext]_rvars => SwapInv'
    BY <1>1, <1>2
  <1> QED
    BY <1>3, SwapInitial, PTL DEF RSpec

(* SwapIsOwned: the swap file activateRunnerSwap announces is the inode this   *)
(* run created, brings memory and swap to the target within one header and     *)
(* left the disk its reserve; nothing else is unlinked unless it was put there *)
(* after the last look; and a cleanup said to be finished left nothing.        *)
THEOREM SwapAlwaysOwned == RSpec => []SwapIsOwned
  BY SwapInvariant, PTL DEF SwapInv, EndIsTold

-----------------------------------------------------------------------------
(***************************************************************************)
(* The zero-dependency bootstrap.  What stands in node_modules before pnpm *)
(* is what the project pinned, for any number of bootstraps, edits and     *)
(* kills.  A bootstrap carries a pin, a digest and a staged tarball that   *)
(* agree although it read them one after the other; a copy appears only by *)
(* a rename of such a tarball, and disappears only into shredded.          *)
(***************************************************************************)
Origins == {x.of : x \in Leftovers} \cup Registry \cup {Null}
Trees == [dir : BOOLEAN, json : BOOLEAN, whole : BOOLEAN, of : Origins]
ZTypes ==
  /\ modules \in [Packages -> Trees]
  /\ at \in [Bootstraps -> Nat \ {0}]
  /\ DOMAIN zpc = Bootstraps /\ DOMAIN told = Bootstraps /\ DOMAIN chosen = Bootstraps
  /\ DOMAIN sri = Bootstraps /\ DOMAIN stage = Bootstraps
  /\ project \in past

(* Where a bootstrap works on a package, has its pin, its digest, its tarball. *)
Placing(r) == zpc[r] \in {"remove", "removing", "rename"}
HasSri(r) == Placing(r) \/ zpc[r] \in {"firewall", "download", "validate"}
HasPin(r) == HasSri(r) \/ zpc[r] = "integrity"
Busy(r) == HasPin(r) \/ zpc[r] = "pin"

PinIsOfPast(p, q) == \E a \in past : PinOf(a, p) = q
SriIsOfPast(q, s) == \E b \in past : \E e \in Locked(b, q) : e.sri = s

Carries(r) ==
  /\ Busy(r) => at[r] \in DOMAIN Foundation
  /\ HasPin(r) => PinIsOfPast(Package(r), chosen[r])
  /\ HasSri(r) => SriIsOfPast(chosen[r], sri[r])
  /\ zpc[r] = "validate" \/ Placing(r) => stage[r] \in Registry /\ stage[r].sri = sri[r]
  /\ Placing(r) => Acceptable(stage[r], chosen[r])

(* The packages a bootstrap has gone past are there, or were taken away. *)
Passed(r) ==
  /\ zpc[r] = "start" => at[r] = 1
  /\ zpc[r] = "done" => at[r] > Len(Foundation)
  /\ \A i \in DOMAIN Foundation :
       i < at[r] /\ Declared(told[r], Foundation[i]) =>
         Foundation[i] \in shredded \/ modules[Foundation[i]].json

CopiesVouched == \A p \in Packages \ shredded : modules[p].json => Vouched(p)

ZInv == ZTypes /\ CopiesVouched /\ \A r \in Bootstraps : Carries(r) /\ Passed(r)

LEMMA FoundationIndex ==
  /\ Len(Foundation) \in Nat
  /\ DOMAIN Foundation = 1 .. Len(Foundation)
  /\ \A i \in DOMAIN Foundation : Foundation[i] \in Packages
  BY FoundationAssumption DEF Packages

(* A repository's past only grows, and with it what was a pin or a digest. *)
LEMMA PastGrows ==
  ASSUME past \subseteq past'
  PROVE  /\ \A p, q : PinIsOfPast(p, q) => PinIsOfPast(p, q)'
         /\ \A q, s : SriIsOfPast(q, s) => SriIsOfPast(q, s)'
  BY DEF PinIsOfPast, SriIsOfPast

(* What the others carry does not depend on node_modules; what they have     *)
(* passed only on copies that are not taken away unrecorded.                 *)
LEMMA OthersKeep ==
  ASSUME NEW r \in Bootstraps, Carries(r), Passed(r), past \subseteq past',
         zpc'[r] = zpc[r], at'[r] = at[r], told'[r] = told[r], chosen'[r] = chosen[r],
         sri'[r] = sri[r], stage'[r] = stage[r], shredded \subseteq shredded',
         \A p \in Packages : modules[p].json => modules'[p].json \/ p \in shredded'
  PROVE  Carries(r)' /\ Passed(r)'
  <1>1. Carries(r)'
    BY PastGrows DEF Carries, Busy, HasPin, HasSri, Placing, Package
  <1>2. Passed(r)'
    BY FoundationIndex DEF Passed
  <1> QED
    BY <1>1, <1>2

(* A copy that did not change stays vouched for. *)
LEMMA VouchedStays ==
  ASSUME NEW p \in Packages, Vouched(p), modules'[p] = modules[p], past \subseteq past'
  PROVE  Vouched(p)'
  BY DEF Vouched

LEMMA ZInitInv == ZInit => ZInv
  <1> SUFFICES ASSUME ZInit PROVE ZInv
    OBVIOUS
  <1>1. ZTypes
    BY FoundationAssumption DEF ZInit, ZTypes, Origins, Trees
  <1>2. CopiesVouched
    BY DEF ZInit, CopiesVouched, Vouched
  <1>3. ASSUME NEW r \in Bootstraps PROVE Carries(r) /\ Passed(r)
    BY FoundationIndex DEF ZInit, Carries, Passed, Busy, HasPin, HasSri, Placing
  <1> QED
    BY <1>1, <1>2, <1>3 DEF ZInv

(* The steps that only move a bootstrap on. *)
LEMMA QuietBootstrap ==
  ASSUME ZInv, NEW r \in Bootstraps,
         Begin(r) \/ Look(r) \/ ReadPin(r) \/ ReadIntegrity(r) \/ AskFirewall(r)
           \/ Download(r) \/ Validate(r) \/ Stop(r)
  PROVE  ZTypes' /\ Carries(r)' /\ Passed(r)'
  <1> USE DEF ZInv, Go, Files
  <1>1. CASE Begin(r)
    <2>1. at[r] = 1 /\ zpc[r] = "start"
      BY <1>1 DEF Begin, Passed
    <2>2. zpc'[r] \in {"skipped", "look", "failed"} /\ UNCHANGED <<at, modules, past, project, shredded>>
      BY <1>1 DEF Begin, ZTypes
    <2>3. Carries(r)' /\ Passed(r)'
      BY <2>1, <2>2, FoundationIndex DEF Carries, Passed, Busy, HasPin, HasSri, Placing
    <2> QED
      BY <1>1, <2>3 DEF Begin, ZTypes
  <1>2. CASE Look(r)
    <2>1. ZTypes'
      BY <1>2 DEF Look, ZTypes
    <2>2. zpc'[r] \in {"done", "look", "pin"} /\ UNCHANGED <<modules, past, told, shredded>>
          /\ zpc[r] = "look"
      BY <1>2 DEF Look, ZTypes
    <2>3. CASE at[r] > Len(Foundation)
      BY <1>2, <2>2, <2>3 DEF Look, ZTypes, Carries, Passed, Busy, HasPin, HasSri, Placing
    <2>4. CASE ~(at[r] > Len(Foundation))
      <3>1. at[r] \in DOMAIN Foundation
        BY <2>4, FoundationIndex DEF ZTypes
      <3>2. CASE ~Declared(told[r], Package(r)) \/ Installed(Package(r))
        <4>1. at'[r] = at[r] + 1 /\ zpc'[r] = "look"
          BY <1>2, <2>4, <3>2 DEF Look, ZTypes
        <4>2. Passed(r)'
          BY <4>1, <2>2, <3>1, <3>2, FoundationIndex DEF Passed, Package, Installed, ZTypes
        <4> QED
          BY <2>1, <4>1, <4>2 DEF Carries, Busy, HasPin, HasSri, Placing
      <3>3. CASE Declared(told[r], Package(r)) /\ ~Installed(Package(r))
        BY <1>2, <2>1, <2>2, <2>4, <3>1, <3>3
           DEF Look, ZTypes, Carries, Passed, Busy, HasPin, HasSri, Placing
      <3> QED
        BY <3>2, <3>3
    <2> QED
      BY <2>3, <2>4, <2>1
  <1>3. CASE ReadPin(r)
    <2>1. zpc'[r] \in {"failed", "integrity"} /\ chosen'[r] = PinOf(project, Package(r))
          /\ zpc[r] = "pin" /\ UNCHANGED <<modules, at, told, past, shredded>>
      BY <1>3 DEF ReadPin, ZTypes
    <2>2. Carries(r)'
      BY <2>1 DEF Carries, Busy, HasPin, HasSri, Placing, Package, PinIsOfPast, ZTypes
    <2> QED
      BY <1>3, <2>1, <2>2 DEF ReadPin, ZTypes, Passed
  <1>4. CASE ReadIntegrity(r)
    <2>1. /\ zpc[r] = "integrity" /\ UNCHANGED <<modules, at, told, past, shredded, chosen>>
          /\ \/ zpc'[r] = "failed"
             \/ zpc'[r] = "firewall" /\ \E e \in Locked(project, chosen[r]) : e.sri = sri'[r]
      BY <1>4 DEF ReadIntegrity, ZTypes
    <2>2. Carries(r)'
      BY <2>1 DEF Carries, Busy, HasPin, HasSri, Placing, Package, PinIsOfPast, SriIsOfPast, ZTypes
    <2> QED
      BY <1>4, <2>1, <2>2 DEF ReadIntegrity, ZTypes, Passed
  <1>5. CASE AskFirewall(r)
    BY <1>5 DEF AskFirewall, ZTypes, Carries, Passed, Busy, HasPin, HasSri, Placing, Package,
                PinIsOfPast, SriIsOfPast
  <1>6. CASE Download(r)
    <2>1. /\ zpc[r] = "download" /\ UNCHANGED <<modules, at, told, past, shredded, chosen, sri>>
          /\ \/ zpc'[r] = "failed"
             \/ zpc'[r] = "validate" /\ stage'[r] \in Registry /\ stage'[r].sri = sri[r]
      BY <1>6 DEF Download, ZTypes
    <2>2. Carries(r)'
      BY <2>1 DEF Carries, Busy, HasPin, HasSri, Placing, Package, PinIsOfPast, SriIsOfPast
    <2> QED
      BY <1>6, <2>1, <2>2 DEF Download, ZTypes, Passed
  <1>7. CASE Validate(r)
    <2>1. /\ zpc[r] = "validate" /\ UNCHANGED <<modules, at, told, past, shredded, chosen, sri>>
          /\ \/ zpc'[r] = "failed"
             \/ zpc'[r] = "remove" /\ stage'[r] = stage[r] /\ Acceptable(stage[r], chosen[r])
      BY <1>7 DEF Validate, ZTypes
    <2>2. Carries(r)'
      BY <2>1 DEF Carries, Busy, HasPin, HasSri, Placing, Package, PinIsOfPast, SriIsOfPast
    <2> QED
      BY <1>7, <2>1, <2>2 DEF Validate, ZTypes, Passed
  <1>8. CASE Stop(r)
    BY <1>8 DEF Stop, ZTypes, Carries, Passed, Busy, HasPin, HasSri, Placing, Package
  <1> QED
    BY <1>1, <1>2, <1>3, <1>4, <1>5, <1>6, <1>7, <1>8

(* What the three steps on node_modules do to the package they are at, and   *)
(* that no copy goes without being recorded.                                 *)
LEMMA PlacingStep ==
  ASSUME ZInv, NEW r \in Bootstraps, RemoveInstalled(r) \/ Removed(r) \/ Rename(r)
  PROVE  /\ ZTypes' /\ Carries(r)' /\ Passed(r)'
         /\ \A p \in Packages : /\ modules[p].json => modules'[p].json \/ p \in shredded'
                                /\ p \notin shredded' /\ modules'[p].json => Vouched(p)'
  <1>0. PICK p0 \in Packages : p0 = Package(r) /\ at[r] \in DOMAIN Foundation
    BY FoundationIndex DEF ZInv, Carries, Busy, HasPin, HasSri, Placing, Package, RemoveInstalled, Removed, Rename
  <1>2. \A p \in Packages : modules[p] \in Trees
    BY DEF ZInv, ZTypes
  <1>3. past' = past
    BY DEF RemoveInstalled, Removed, Rename, Files
  <1>4. \A p \in Packages \ shredded : modules[p].json => Vouched(p)
    BY DEF ZInv, CopiesVouched
  <1>5. CASE RemoveInstalled(r)
    <2>1. /\ \A p \in Packages : p # p0 => modules'[p] = modules[p]
          /\ modules'[p0].json => modules[p0].json
          /\ modules[p0].json => p0 \in shredded'
          /\ shredded \subseteq shredded'
      <3>1. /\ modules[p0].json => p0 \in shredded'
            /\ shredded \subseteq shredded'
        BY <1>0, <1>5 DEF RemoveInstalled, Shred
      <3>2. \/ modules' = modules
            \/ \E rest \in {modules[p0].json, FALSE} :
                 modules' = [modules EXCEPT ![p0].json = rest, ![p0].whole = FALSE]
        BY <1>0, <1>5 DEF RemoveInstalled
      <3>3. \A p \in Packages : p # p0 => modules'[p] = modules[p]
        BY <3>2 DEF ZInv, ZTypes
      <3>4. modules'[p0].json => modules[p0].json
        BY <1>0, <1>2, <3>2 DEF ZInv, ZTypes, Trees
      <3> QED
        BY <3>1, <3>3, <3>4
    <2>2. ZTypes'
      <3>1. \/ modules' = modules
            \/ \E rest \in BOOLEAN :
                 modules' = [modules EXCEPT ![p0].json = rest, ![p0].whole = FALSE]
        BY <1>0, <1>2, <1>5 DEF RemoveInstalled, Trees
      <3>2. ASSUME NEW rest \in BOOLEAN
            PROVE  [modules[p0] EXCEPT !.json = rest, !.whole = FALSE] \in Trees
        BY <1>2 DEF Trees
      <3>3. \/ modules' = modules
            \/ \E t \in Trees : modules' = [modules EXCEPT ![p0] = t]
        BY ZenonT(30), <3>1, <3>2
      <3>4. modules' \in [Packages -> Trees]
        BY <3>3 DEF ZInv, ZTypes
      <3> QED
        BY <1>5, <3>4 DEF RemoveInstalled, Go, Files, ZInv, ZTypes, Packages
    <2>3. zpc'[r] \in {"removing", "rename"} /\ zpc[r] = "remove"
          /\ UNCHANGED <<at, told, chosen, sri, stage>>
      BY <1>5 DEF RemoveInstalled, Go, ZInv, ZTypes
    <2>4. Carries(r)'
      BY <1>3, <2>3 DEF ZInv, Carries, Busy, HasPin, HasSri, Placing, Package, PinIsOfPast, SriIsOfPast
    <2>5. Passed(r)'
      BY <2>1, <2>3, FoundationIndex DEF ZInv, Passed
    <2>6. \A p \in Packages : p \notin shredded' /\ modules'[p].json => Vouched(p)'
      BY <1>3, <1>4, <2>1, VouchedStays
    <2> QED
      BY <2>1, <2>2, <2>4, <2>5, <2>6
  <1>6. CASE Removed(r)
    <2>1. /\ \A p \in Packages : p # p0 => modules'[p] = modules[p]
          /\ \/ modules'[p0] = modules[p0]
             \/ ~modules'[p0].json /\ (modules[p0].json => p0 \in shredded')
          /\ shredded \subseteq shredded'
      BY <1>0, <1>2, <1>6 DEF Removed, Shred, Gone, ZInv, ZTypes
    <2>2. ZTypes'
      <3>1. modules' \in [Packages -> Trees]
        <4>1. Gone \in Trees
          BY DEF Gone, Trees, Origins
        <4> QED
          BY <1>6, <4>1 DEF Removed, ZInv, ZTypes
      <3> QED
        BY <1>6, <3>1 DEF Removed, Go, Files, ZInv, ZTypes, Packages
    <2>3. zpc'[r] \in {"failed", "rename"} /\ zpc[r] = "removing"
          /\ UNCHANGED <<at, told, chosen, sri, stage>>
      BY <1>6 DEF Removed, Go, ZInv, ZTypes
    <2>4. Carries(r)'
      BY <1>3, <2>3 DEF ZInv, Carries, Busy, HasPin, HasSri, Placing, Package, PinIsOfPast, SriIsOfPast
    <2>5. Passed(r)'
      BY <2>1, <2>3, FoundationIndex DEF ZInv, Passed
    <2>6. \A p \in Packages : p \notin shredded' /\ modules'[p].json => Vouched(p)'
      BY <1>3, <1>4, <2>1, VouchedStays
    <2> QED
      BY <2>1, <2>2, <2>4, <2>5, <2>6
  <1>7. CASE Rename(r)
    <2>0. /\ zpc[r] = "rename" /\ shredded' = shredded /\ UNCHANGED <<told, chosen, sri>>
          /\ stage[r] \in Registry /\ Acceptable(stage[r], chosen[r])
          /\ PinIsOfPast(p0, chosen[r]) /\ SriIsOfPast(chosen[r], stage[r].sri)
      BY <1>0, <1>7 DEF Rename, ZInv, Carries, HasPin, HasSri, Placing
    <2>1. CASE modules[p0].dir
      <3>1. UNCHANGED <<modules, at, stage>> /\ zpc' = [zpc EXCEPT ![r] = "failed"]
        BY <1>0, <1>7, <2>1 DEF Rename, Go
      <3>2. ZTypes' /\ Carries(r)' /\ Passed(r)'
        BY <1>7, <2>0, <3>1 DEF Rename, Files, ZInv, ZTypes, Carries, Passed, Busy, HasPin, HasSri, Placing
      <3> QED
        BY <1>3, <1>4, <2>0, <3>1, <3>2, VouchedStays
    <2>2. CASE ~modules[p0].dir
      <3>1. /\ modules' = [modules EXCEPT ![p0] = Copy(stage[r])]
            /\ at' = [at EXCEPT ![r] = @ + 1] /\ zpc' = [zpc EXCEPT ![r] = "look"]
        BY <1>0, <1>7, <2>2 DEF Rename, Go
      <3>2. /\ \A p \in Packages : p # p0 => modules'[p] = modules[p]
            /\ modules'[p0] = Copy(stage[r]) /\ modules'[p0].json
        BY <3>1 DEF ZInv, ZTypes, Copy
      <3>3. ZTypes'
        <4>1. modules' \in [Packages -> Trees]
          <5>1. Copy(stage[r]) \in Trees
            BY <2>0 DEF Copy, Trees, Origins
          <5> QED
            BY <3>1, <5>1 DEF ZInv, ZTypes
        <4>2. at' \in [Bootstraps -> Nat \ {0}]
          BY <3>1 DEF ZInv, ZTypes
        <4>3. DOMAIN stage' = Bootstraps
          BY <1>0, <1>7, <2>2 DEF Rename, ZInv, ZTypes
        <4> QED
          BY <1>7, <2>0, <3>1, <4>1, <4>2, <4>3 DEF Rename, Files, ZInv, ZTypes, Packages
      <3>4. at'[r] = at[r] + 1 /\ at[r] \in Nat \ {0} /\ zpc'[r] = "look"
        BY <3>1 DEF ZInv, ZTypes
      <3>5. Carries(r)'
        BY <3>4 DEF Carries, Busy, HasPin, HasSri, Placing
      <3>6. Passed(r)'
        BY <1>0, <2>0, <3>2, <3>4, FoundationIndex DEF ZInv, Passed, Package
      <3>7. Vouched(p0)'
        BY <1>3, <2>0, <3>2 DEF Vouched, Copy, Acceptable, PinIsOfPast, SriIsOfPast
      <3>8. \A p \in Packages : p \notin shredded' /\ modules'[p].json => Vouched(p)'
        BY <1>3, <1>4, <2>0, <3>2, <3>7, VouchedStays
      <3> QED
        BY <3>2, <3>3, <3>5, <3>6, <3>8
    <2> QED
      BY <2>1, <2>2
  <1> QED
    BY <1>5, <1>6, <1>7

LEMMA ZNextInv == ZInv /\ [ZNext]_zvars => ZInv'
  <1> SUFFICES ASSUME ZInv, [ZNext]_zvars PROVE ZInv'
    OBVIOUS
  <1>1. ASSUME NEW r \in Bootstraps,
               Begin(r) \/ Look(r) \/ ReadPin(r) \/ ReadIntegrity(r) \/ AskFirewall(r)
                 \/ Download(r) \/ Validate(r) \/ Stop(r)
        PROVE  ZInv'
    <2>1. ZTypes' /\ Carries(r)' /\ Passed(r)'
      BY <1>1, QuietBootstrap
    <2>2. UNCHANGED <<modules, past, shredded>>
      BY <1>1 DEF Begin, Look, ReadPin, ReadIntegrity, AskFirewall, Download, Validate, Stop, Files
    <2>3. ASSUME NEW o \in Bootstraps \ {r}
          PROVE  /\ zpc'[o] = zpc[o] /\ at'[o] = at[o] /\ told'[o] = told[o]
                 /\ chosen'[o] = chosen[o] /\ sri'[o] = sri[o] /\ stage'[o] = stage[o]
      BY <1>1 DEF Begin, Look, ReadPin, ReadIntegrity, AskFirewall, Download, Validate, Stop, Go,
                  ZInv, ZTypes
    <2>4. ASSUME NEW o \in Bootstraps \ {r} PROVE Carries(o)' /\ Passed(o)'
      BY <2>2, <2>3, OthersKeep DEF ZInv
    <2>5. CopiesVouched'
      BY <2>2 DEF ZInv, CopiesVouched, Vouched
    <2> QED
      BY <2>1, <2>4, <2>5 DEF ZInv
  <1>2. ASSUME NEW r \in Bootstraps, RemoveInstalled(r) \/ Removed(r) \/ Rename(r) PROVE ZInv'
    <2>1. /\ ZTypes' /\ Carries(r)' /\ Passed(r)'
          /\ \A p \in Packages : /\ modules[p].json => modules'[p].json \/ p \in shredded'
                                 /\ p \notin shredded' /\ modules'[p].json => Vouched(p)'
      BY <1>2, PlacingStep
    <2>2. past' = past /\ shredded \subseteq shredded'
      BY <1>2 DEF RemoveInstalled, Removed, Rename, Files, Shred
    <2>3. ASSUME NEW o \in Bootstraps \ {r}
          PROVE  /\ zpc'[o] = zpc[o] /\ at'[o] = at[o] /\ told'[o] = told[o]
                 /\ chosen'[o] = chosen[o] /\ sri'[o] = sri[o] /\ stage'[o] = stage[o]
      BY <1>2 DEF RemoveInstalled, Removed, Rename, Go, ZInv, ZTypes
    <2>4. ASSUME NEW o \in Bootstraps \ {r} PROVE Carries(o)' /\ Passed(o)'
      BY <2>1, <2>2, <2>3, OthersKeep DEF ZInv
    <2> QED
      BY <2>1, <2>4 DEF ZInv, CopiesVouched, Packages
  <1>3. ASSUME Bump \/ UNCHANGED zvars PROVE ZInv'
    <2>1. /\ UNCHANGED <<modules, zpc, at, told, chosen, sri, stage, shredded>>
          /\ past \subseteq past' /\ project' \in past'
      BY <1>3 DEF Bump, zvars, ZInv, ZTypes
    <2>2. ASSUME NEW o \in Bootstraps PROVE Carries(o)' /\ Passed(o)'
      BY <2>1, OthersKeep DEF ZInv
    <2>3. CopiesVouched'
      BY <2>1, VouchedStays DEF ZInv, CopiesVouched
    <2> QED
      BY <2>1, <2>2, <2>3 DEF ZInv, ZTypes
  <1> QED
    BY <1>1, <1>2, <1>3 DEF ZNext

(* Whatever is killed, edited or run at the same time (any numbers of each), *)
(* a package that packageIsInstalled finds is one somebody vouched for, and  *)
(* a bootstrap that ends well has left every declared package there.         *)
THEOREM FoundationAlwaysPinned == ZSpec => []FoundationIsPinned
  <1>1. ZInv => FoundationIsPinned
    <2> SUFFICES ASSUME ZInv, NEW p \in Packages \ shredded
                 PROVE  /\ modules[p].json => Vouched(p)
                        /\ \A r \in Bootstraps :
                             zpc[r] = "done" /\ Declared(told[r], p) => modules[p].json
      BY DEF FoundationIsPinned
    <2>1. PICK i \in DOMAIN Foundation : p = Foundation[i]
      BY DEF Packages
    <2>2. ASSUME NEW r \in Bootstraps, zpc[r] = "done", Declared(told[r], p)
          PROVE  modules[p].json
      <3>1. at[r] > Len(Foundation) /\ at[r] \in Nat
        BY <2>2 DEF ZInv, ZTypes, Passed
      <3>2. i < at[r]
        BY <2>1, <3>1, FoundationIndex
      <3> QED
        BY <2>1, <2>2, <3>2 DEF ZInv, Passed
    <2> QED
      BY <2>2 DEF ZInv, CopiesVouched
  <1> QED
    BY <1>1, ZInitInv, ZNextInv, PTL DEF ZSpec

------------------------------------------------------------------------------
(* Induction over the natural numbers, for a set in place of a predicate.  *)
LEMMA SetInduction ==
  ASSUME NEW S \in SUBSET Nat, 0 \in S, \A n \in S : n + 1 \in S
  PROVE  S = Nat
  <1> DEFINE R == OpToRel(<, Nat)
             T == Nat \ S
  <1>1. IsWellFoundedOn(R, Nat)
    BY NatLessThanWellFounded
  <1>2. SUFFICES ASSUME T # {} PROVE FALSE
    OBVIOUS
  <1>3. PICK x \in T : \A y \in T : ~(<<y, x>> \in R)
    <2>1. T \subseteq Nat
      OBVIOUS
    <2> HIDE DEF R, T
    <2> QED
      BY <1>1, <1>2, <2>1, WFMin
  <1>4. x # 0 /\ x - 1 \in Nat /\ x - 1 < x
    OBVIOUS
  <1>5. x - 1 \in T
    BY <1>4
  <1>6. <<x - 1, x>> \in R
    BY <1>4 DEF OpToRel
  <1> QED
    BY <1>3, <1>5, <1>6

(***************************************************************************)
(* Setup.                                                                  *)
(***************************************************************************)
Triples == {v \in Seq(Nat) : Len(v) = 3}

(* The parts of a version are numbers. *)
LEMMA TripleParts ==
  ASSUME NEW v \in Triples
  PROVE  v[1] \in Nat /\ v[2] \in Nat /\ v[3] \in Nat
  BY ElementOfSeq DEF Triples

(* Every finite set of versions has one that none of the others is newer than. *)
LEMMA NewestExists ==
  ASSUME NEW versions \in SUBSET Triples, IsFiniteSet(versions), versions # {}
  PROVE  \E v \in versions : \A w \in versions : ~Older(v, w)
  <1> DEFINE Topped(V) == \E v \in V : \A w \in V : ~Older(v, w)
             S == {n \in Nat : \A V \in SUBSET Triples :
                     IsFiniteSet(V) /\ V # {} /\ Cardinality(V) = n => Topped(V)}
  <1>1. 0 \in S
    BY FS_EmptySet
  <1>2. ASSUME NEW n \in S PROVE n + 1 \in S
    <2>1. SUFFICES ASSUME NEW V \in SUBSET Triples, IsFiniteSet(V), V # {}, Cardinality(V) = n + 1
                   PROVE  Topped(V)
      OBVIOUS
    <2>2. PICK x \in V : TRUE
      BY <2>1
    <2>3. IsFiniteSet(V \ {x}) /\ Cardinality(V \ {x}) = n
      <3>1. n \in Nat
        OBVIOUS
      <3>2. IsFiniteSet(V \ {x}) /\ Cardinality(V \ {x}) = Cardinality(V) - 1
        BY <2>1, FS_RemoveElement
      <3> QED BY <2>1, <3>1, <3>2
    <2>4. x[1] \in Nat /\ x[2] \in Nat /\ x[3] \in Nat
      BY TripleParts
    <2>5. CASE V \ {x} = {}
      <3>1. \A w \in V : w = x
        BY <2>5
      <3>2. ~Older(x, x)
        BY <2>4 DEF Older
      <3> QED BY <3>1, <3>2
    <2>6. CASE V \ {x} # {}
      <3>1. PICK top \in V \ {x} : \A w \in V \ {x} : ~Older(top, w)
        BY <2>3, <2>6
      <3>2. top[1] \in Nat /\ top[2] \in Nat /\ top[3] \in Nat
        BY TripleParts
      <3>3. CASE Older(top, x)
        <4>1. ASSUME NEW w \in V PROVE ~Older(x, w)
          <5>1. w[1] \in Nat /\ w[2] \in Nat /\ w[3] \in Nat
            BY TripleParts
          <5>2. CASE w = x
            BY <5>2, <2>4 DEF Older
          <5>3. CASE w # x
            <6>1. ~Older(top, w)
              BY <3>1, <5>3
            <6> QED BY <6>1, <5>1, <2>4, <3>2, <3>3 DEF Older
          <5> QED BY <5>2, <5>3
        <4> QED BY <4>1
      <3>4. CASE ~Older(top, x)
        BY <3>1, <3>4
      <3> QED BY <3>3, <3>4
    <2> QED BY <2>5, <2>6
  <1>3. S = Nat
    <2>1. S \in SUBSET Nat
      OBVIOUS
    <2> HIDE DEF S
    <2> QED BY <1>1, <1>2, <2>1, SetInduction
  <1>4. Cardinality(versions) \in Nat
    BY FS_CardinalityType
  <1> QED BY <1>3, <1>4

(* resolveHighestSatisfying returns a version of those it may choose from. *)
LEMMA HighestIsNewest ==
  ASSUME NEW published, IsFiniteSet(published), \A v \in published : v \in Seq(Nat),
         NEW range, HighestSatisfying(range, published) # NoVersion
  PROVE  LET highest == HighestSatisfying(range, published)
         IN  /\ highest \in published
             /\ \A v \in published : Len(v) = 3 /\ SatisfiesRange(v, range) => ~Older(highest, v)
  <1> DEFINE fit == {v \in published : Len(v) = 3 /\ SatisfiesRange(v, range)}
             highest == HighestSatisfying(range, published)
  <1>1. highest = Newest(fit) /\ fit # {}
    BY DEF HighestSatisfying, Newest
  <1>2. fit \in SUBSET Triples /\ IsFiniteSet(fit)
    BY FS_Subset DEF Triples
  <1> HIDE DEF fit
  <1>3. \E v \in fit : \A w \in fit : ~Older(v, w)
    BY <1>1, <1>2, NewestExists
  <1>4. highest \in fit /\ \A w \in fit : ~Older(highest, w)
    BY <1>1, <1>3 DEF Newest
  <1> QED BY <1>4 DEF fit

(* The firewall on disk is the one its flavor's entry of the catalog resolves to. *)
SfwFits ==
    /\ sfw.flavor \in {"enterprise", "free"}
    /\ ResolveSfw(sfw.flavor) # Nothing /\ sfw.asset = ResolveSfw(sfw.flavor).asset
    /\ sfw.version = SfwTool(sfw.flavor).version

BeforeExport == {"status", "pnpm", "node", "uv", "sfw", "probe", "fallback", "export"}
SetupInv ==
    /\ scene \in Scenes
    /\ PnpmIsNewest /\ TokenIsGranted
    /\ cpc \in {"probe", "fallback", "export"} => SfwFits
    /\ env # Nothing => SfwFits /\ env = SfwExports(sfw, scene.apiToken, scene.extended)
    /\ cpc \in BeforeExport => env = Nothing
    /\ cpc \in BeforeExport \cup {"cache", "token", "mint"} => token = Nothing
    /\ cpc = "mint" => scene.request.repositories # {}
    /\ cpc = "ready" => FloorHolds(scene.stable, scene.lib, scene.npmLatest, HardFloor)

(* An asset the resolver answers is one of its tool's, and the catalog has that. *)
LEMMA ResolvedSfw ==
  ASSUME scene \in Scenes, NEW f \in {"enterprise", "free"}, ResolveSfw(f) # Nothing
  PROVE  /\ scene.catalog.present /\ scene.catalog.canonical
         /\ SfwTool(f) = scene.catalog.sfw[f]
         /\ \E key \in DOMAIN scene.catalog.sfw[f].platforms :
              ResolveSfw(f).asset = scene.catalog.sfw[f].platforms[key].asset
  <1> DEFINE tool == SfwTool(f)
             key == SfwKey(tool)
             entry == PlatformEntry(tool.platforms, key)
  <1>1. ResolveSfw(f) = ResolveAsset(tool, NoRequest, key, Nothing).plan
    BY DEF ResolveSfw
  <1>2. tool # Nothing
    BY <1>1 DEF ResolveAsset, Exit
  <1>3. scene.catalog.present /\ scene.catalog.canonical /\ tool = scene.catalog.sfw[f]
    BY <1>2 DEF SfwTool, SfwShape
  <1>4. ~tool.isGo
    BY <1>3, SceneAssumption
  <1>5. entry # Nothing /\ ResolveSfw(f).asset = entry.asset
    <2> HIDE DEF tool, key
    <2>1. ResolveAsset(tool, NoRequest, key, Nothing).plan # Nothing
      BY <1>1
    <2> DEFINE wanted == WantedVersion(tool, NoRequest)
    <2>2. /\ entry # Nothing
          /\ ResolveAsset(tool, NoRequest, key, Nothing).plan = CatalogAsset(tool, entry, wanted)
      <3> HIDE DEF entry, wanted
      <3> QED BY <2>1, <1>4 DEF ResolveAsset, Exit, entry, wanted
    <2> HIDE DEF entry, wanted
    <2> QED BY <2>2, <1>1 DEF CatalogAsset
  <1>6. \E k \in DOMAIN tool.platforms : entry = tool.platforms[k]
    <2> HIDE DEF tool, key
    <2> QED BY <1>5 DEF PlatformEntry
  <1> QED BY <1>3, <1>5, <1>6

(* Before the first step nothing is installed. *)
LEMMA SetupInitial == CInit => SetupInv
  BY DEF CInit, SetupInv, PnpmIsNewest, TokenIsGranted, BeforeExport

(* What a step that touches neither the firewall nor the pins leaves of them. *)
LEMMA SfwStays ==
  ASSUME UNCHANGED <<scene, sfw>>
  PROVE  /\ SfwFits' <=> SfwFits
         /\ \A f : ResolveSfw(f)' = ResolveSfw(f) /\ SfwTool(f)' = SfwTool(f)
  <1>1. ASSUME NEW f PROVE SfwTool(f)' = SfwTool(f)
    BY DEF SfwTool
  <1>2. ASSUME NEW f PROVE SfwKey(SfwTool(f))' = SfwKey(SfwTool(f))
    BY <1>1 DEF SfwKey
  <1>3. ASSUME NEW f PROVE ResolveSfw(f)' = ResolveSfw(f)
    BY <1>1, <1>2 DEF ResolveSfw
  <1> QED BY <1>1, <1>3 DEF SfwFits

(* Every step of a setup keeps the invariant. *)
LEMMA SetupNext == SetupInv /\ [CNext]_cvars => SetupInv'
  <1> SUFFICES ASSUME SetupInv, [CNext]_cvars PROVE SetupInv'
    OBVIOUS
  <1> USE DEF Next1, Fail
  <1>0. scene \in Scenes
    BY DEF SetupInv
  <1>1. CASE CheckStatus
    <2>1. /\ UNCHANGED <<scene, pnpm, node, sfw, probes, env, cacheKey, token, grant>>
          /\ cpc = "status" /\ cpc' \in {"failed", "pnpm"}
      BY <1>1 DEF CheckStatus
    <2> QED BY <2>1, SfwStays DEF SetupInv, PnpmIsNewest, TokenIsGranted, BeforeExport
  <1>2. CASE InstallPnpm
    <2>1. /\ UNCHANGED <<scene, node, sfw, probes, env, cacheKey, token, grant>>
          /\ cpc = "pnpm" /\ cpc' \in {"failed", "node"}
          /\ pnpm' = pnpm \/ (PnpmVersion # NoVersion /\ pnpm' = PnpmVersion)
      BY <1>2 DEF InstallPnpm
    <2>2. PnpmIsNewest'
      <3>1. CASE pnpm' = pnpm
        BY <2>1, <3>1 DEF SetupInv, PnpmIsNewest
      <3>2. CASE PnpmVersion # NoVersion /\ pnpm' = PnpmVersion
        <4>1. SUFFICES ASSUME ~scene.catalog.present
                       PROVE  /\ pnpm' \in scene.published
                              /\ \A v \in scene.published :
                                   Len(v) = 3 /\ SatisfiesRange(v, PnpmPin(scene.engines))
                                     => ~Older(pnpm', v)
          BY <2>1 DEF PnpmIsNewest
        <4> DEFINE range == PnpmPin(scene.engines)
        <4>2. pnpm' = HighestSatisfying(range, scene.published) /\ pnpm' # NoVersion
          BY <3>2, <4>1 DEF PnpmVersion
        <4>3. IsFiniteSet(scene.published) /\ \A v \in scene.published : v \in Seq(Nat)
          BY <1>0, SceneAssumption
        <4> HIDE DEF range
        <4>4. /\ pnpm' \in scene.published
              /\ \A v \in scene.published : Len(v) = 3 /\ SatisfiesRange(v, range) => ~Older(pnpm', v)
          BY <4>2, <4>3, HighestIsNewest
        <4> QED BY <4>4 DEF range
      <3> QED BY <2>1, <3>1, <3>2
    <2> QED BY <2>1, <2>2, SfwStays DEF SetupInv, TokenIsGranted, BeforeExport
  <1>3. CASE InstallNode
    <2>1. /\ UNCHANGED <<scene, pnpm, sfw, probes, env, cacheKey, token, grant>>
          /\ cpc = "node" /\ cpc' \in {"failed", "uv"}
      BY <1>3 DEF InstallNode
    <2> QED BY <2>1, SfwStays DEF SetupInv, PnpmIsNewest, TokenIsGranted, BeforeExport
  <1>4. CASE InstallUv
    <2>1. /\ UNCHANGED <<scene, pnpm, node, sfw, probes, env, cacheKey, token, grant>>
          /\ cpc = "uv" /\ cpc' \in {"failed", "sfw"}
      BY <1>4 DEF InstallUv
    <2> QED BY <2>1, SfwStays DEF SetupInv, PnpmIsNewest, TokenIsGranted, BeforeExport
  <1>5. CASE InstallSfw
    <2> DEFINE flavor == SelectSfwFlavor(scene.apiToken)
    <2>1. /\ UNCHANGED <<scene, pnpm, node, probes, env, cacheKey, token, grant>> /\ cpc = "sfw"
          /\ \/ cpc' = "failed" /\ sfw' = sfw
             \/ /\ ResolveSfw(flavor) # Nothing /\ cpc' \in {"probe", "export"}
                /\ sfw' = Install(flavor, SfwTool(flavor).version, ResolveSfw(flavor))
      BY <1>5 DEF InstallSfw
    <2>2. flavor \in {"enterprise", "free"}
      BY DEF SelectSfwFlavor
    <2>3. \A f : ResolveSfw(f)' = ResolveSfw(f) /\ SfwTool(f)' = SfwTool(f)
      BY <2>1 DEF ResolveSfw, SfwTool, SfwKey
    <2> HIDE DEF flavor
    <2>4. cpc' \in {"probe", "fallback", "export"} => SfwFits'
      BY <2>1, <2>2, <2>3 DEF SfwFits, Install
    <2> QED BY <2>1, <2>4 DEF SetupInv, PnpmIsNewest, TokenIsGranted, BeforeExport
  <1>6. CASE Probe
    <2>1. /\ UNCHANGED <<scene, pnpm, node, sfw, env, cacheKey, token, grant>>
          /\ cpc = "probe" /\ cpc' \in {"failed", "probe", "fallback", "export"}
      BY <1>6 DEF Probe
    <2> QED BY <2>1, SfwStays DEF SetupInv, PnpmIsNewest, TokenIsGranted, BeforeExport
  <1>7. CASE FallBack
    <2>1. /\ UNCHANGED <<scene, pnpm, node, probes, env, cacheKey, token, grant>> /\ cpc = "fallback"
          /\ \/ cpc' = "failed" /\ sfw' = sfw
             \/ /\ ResolveSfw("free") # Nothing /\ cpc' = "export"
                /\ sfw' = Install("free", IF FallbackRereadsVersion(SfwShape(scene.catalog.canonical))
                                          THEN SfwTool("free").version ELSE sfw.version,
                                  ResolveSfw("free"))
      BY <1>7 DEF FallBack
    <2>2. \A f : ResolveSfw(f)' = ResolveSfw(f) /\ SfwTool(f)' = SfwTool(f)
      BY <2>1 DEF ResolveSfw, SfwTool, SfwKey
    <2>3. cpc' = "export" => SfwFits'
      <3>1. SUFFICES ASSUME cpc' = "export" PROVE SfwFits'
        OBVIOUS
      <3>2. scene.catalog.canonical /\ ResolveSfw("free") # Nothing
        BY <1>0, <2>1, <3>1, ResolvedSfw
      <3>3. sfw' = Install("free", SfwTool("free").version, ResolveSfw("free"))
        BY <2>1, <3>1, <3>2 DEF FallbackRereadsVersion, SfwShape
      <3> QED BY <2>2, <3>2, <3>3 DEF SfwFits, Install
    <2> QED BY <2>1, <2>3 DEF SetupInv, PnpmIsNewest, TokenIsGranted, BeforeExport
  <1>8. CASE ExportSfw
    <2>1. /\ UNCHANGED <<scene, pnpm, node, sfw, probes, cacheKey, token, grant>> /\ cpc = "export"
          /\ \/ cpc' = "failed" /\ env' = env
             \/ cpc' = "cache" /\ env' = SfwExports(sfw, scene.apiToken, scene.extended)
      BY <1>8 DEF ExportSfw
    <2> QED BY <2>1, SfwStays DEF SetupInv, PnpmIsNewest, TokenIsGranted, BeforeExport
  <1>9. CASE ResolveCache
    <2>1. /\ UNCHANGED <<scene, pnpm, node, sfw, probes, env, token, grant>>
          /\ cpc = "cache" /\ cpc' \in {"failed", "token"}
      BY <1>9 DEF ResolveCache
    <2> QED BY <2>1, SfwStays DEF SetupInv, PnpmIsNewest, TokenIsGranted, BeforeExport
  <1>10. CASE LookUpInstallation
    <2>1. /\ UNCHANGED <<scene, pnpm, node, sfw, probes, env, cacheKey, token>> /\ cpc = "token"
          /\ \/ cpc' \in {"failed", "install"}
             \/ cpc' = "mint" /\ RepositoriesOk(scene.request)
      BY <1>10 DEF LookUpInstallation
    <2> QED BY <2>1, SfwStays DEF SetupInv, PnpmIsNewest, TokenIsGranted, BeforeExport, RepositoriesOk
  <1>11. CASE MintToken
    <2>1. PICK now \in scene.grants :
            /\ grant' = now
            /\ \/ /\ ~scene.request.given \/ MissingPermissions(scene.request.scopes, now) = {}
                  /\ token' = [scopes |-> IF scene.request.given THEN scene.request.scopes ELSE now,
                               repositories |-> scene.request.repositories]
                  /\ cpc' = "install"
               \/ cpc' = "failed" /\ token' = token
      BY <1>11 DEF MintToken
    <2>2. UNCHANGED <<scene, pnpm, node, sfw, probes, env, cacheKey>> /\ cpc = "mint"
      BY <1>11 DEF MintToken
    <2>3. TokenIsGranted'
      <3>1. CASE token' = token
        BY <2>2, <3>1 DEF SetupInv, TokenIsGranted
      <3>2. CASE token' # token
        <4>1. /\ token'.repositories = scene.request.repositories /\ scene.request.repositories # {}
              /\ token'.scopes = IF scene.request.given THEN scene.request.scopes ELSE now
          BY <2>1, <2>2, <3>2 DEF SetupInv
        <4>2. MissingPermissions(now, now) = {}
          <5>1. ASSUME NEW level PROVE ~(PermissionRank(level) < PermissionRank(level))
            <6>1. PermissionRank(level) \in {0, 1, 2, 3}
              BY DEF PermissionRank
            <6> QED BY <6>1
          <5>2. \A s \in DOMAIN now : Granted(now, s) = now[s]
            BY DEF Granted
          <5> QED BY <5>1, <5>2 DEF MissingPermissions
        <4>3. MissingPermissions(token'.scopes, now) = {}
          BY <2>1, <3>2, <4>1, <4>2
        <4> QED BY <2>1, <2>2, <4>1, <4>3 DEF TokenIsGranted
      <3> QED BY <3>1, <3>2
    <2> QED BY <2>1, <2>2, <2>3, SfwStays DEF SetupInv, PnpmIsNewest, BeforeExport
  <1>12. CASE InstallDependencies
    <2>1. /\ UNCHANGED <<scene, pnpm, node, sfw, probes, env, cacheKey, token, grant>>
          /\ cpc = "install" /\ cpc' \in {"failed", "floor"}
      BY <1>12 DEF InstallDependencies
    <2> QED BY <2>1, SfwStays DEF SetupInv, PnpmIsNewest, TokenIsGranted, BeforeExport
  <1>13. CASE VerifyFloor
    <2>1. /\ UNCHANGED <<scene, pnpm, node, sfw, probes, env, cacheKey, token, grant>> /\ cpc = "floor"
          /\ \/ cpc' = "failed"
             \/ cpc' = "ready" /\ FloorHolds(scene.stable, scene.lib, scene.npmLatest, HardFloor)
      BY <1>13 DEF VerifyFloor
    <2> QED BY <2>1, SfwStays DEF SetupInv, PnpmIsNewest, TokenIsGranted, BeforeExport
  <1>14. CASE UNCHANGED cvars
    BY <1>14, SfwStays DEF cvars, SetupInv, PnpmIsNewest, TokenIsGranted
  <1> QED BY <1>1, <1>2, <1>3, <1>4, <1>5, <1>6, <1>7, <1>8, <1>9, <1>10, <1>11, <1>12, <1>13, <1>14
          DEF CNext

(* What the setup of any job tells its later steps is true of what it         *)
(* installed: the newest pnpm in the repository's range, the firewall that is *)
(* on disk with its own version, a token of the scopes asked for and granted, *)
(* and a library no older than npm's latest release where a job gets through. *)
THEOREM SetupAlwaysCoherent == CSpec => []SetupIsCoherent
  <1>1. SetupInv => SetupIsCoherent
    <2> SUFFICES ASSUME SetupInv PROVE SetupIsCoherent
      OBVIOUS
    <2>1. SfwIsAnnounced
      <3>1. SUFFICES ASSUME env # Nothing
                     PROVE  /\ env.bin = sfw.asset
                            /\ env.enterprise <=> ResolveSfw("enterprise") # Nothing
                                                   /\ sfw.asset = ResolveSfw("enterprise").asset
                            /\ scene.extended => env.version = SfwTool(env.flavor).version
        BY DEF SfwIsAnnounced
      <3>2. SfwFits /\ env = SfwExports(sfw, scene.apiToken, scene.extended) /\ scene \in Scenes
        BY <3>1 DEF SetupInv
      <3>3. /\ env.bin = sfw.asset /\ env.enterprise = (sfw.flavor = "enterprise")
            /\ scene.extended => env.flavor = sfw.flavor /\ env.version = sfw.version
        BY <3>2 DEF SfwExports
      <3>4. CASE sfw.flavor = "enterprise"
        BY <3>2, <3>3, <3>4 DEF SfwFits
      <3>5. CASE sfw.flavor = "free"
        <4>1. ASSUME ResolveSfw("enterprise") # Nothing, sfw.asset = ResolveSfw("enterprise").asset
              PROVE  FALSE
          <5> DEFINE assets(f) == {scene.catalog.sfw[f].platforms[key].asset :
                                     key \in DOMAIN scene.catalog.sfw[f].platforms}
          <5>1. ResolveSfw("enterprise").asset \in assets("enterprise")
            BY <3>2, <4>1, ResolvedSfw
          <5>2. ResolveSfw("free").asset \in assets("free") /\ scene.catalog.present
            BY <3>2, <3>5, ResolvedSfw DEF SfwFits
          <5>3. assets("enterprise") \cap assets("free") = {}
            BY <3>2, <5>2, SceneAssumption
          <5>4. sfw.asset = ResolveSfw("free").asset
            BY <3>2, <3>5 DEF SfwFits
          <5> QED BY <4>1, <5>1, <5>2, <5>3, <5>4
        <4> QED BY <3>2, <3>3, <3>5, <4>1 DEF SfwFits
      <3> QED BY <3>2, <3>4, <3>5 DEF SfwFits
    <2>2. cpc = "ready" /\ Len(scene.npmLatest) = 3 =>
            ~Older(SelectLib(scene.stable, scene.lib), scene.npmLatest)
      BY DEF SetupInv, FloorHolds, ChooseFloor
    <2> QED BY <2>1, <2>2 DEF SetupInv, SetupIsCoherent
  <1> QED BY <1>1, SetupInitial, SetupNext, PTL DEF CSpec

------------------------------------------------------------------------------
(***************************************************************************)
(* The detector tables.                                                    *)
(***************************************************************************)
GenRuns  == {"gen", "drift"}
Deriving == {"derive", "write", "second"}
Known    == {Ordered[i] : i \in DOMAIN Ordered}
Now(u)   == [tag |-> pinned[u], version |-> slice[u].version]
MadeFile(g, u, i) == Dir(g)[SourcesOf(u)[i]] = Written(RowsOf(u, SourcesOf(u)[i], Now(u)))

TableTypes ==
    /\ pinned \in [Upstreams -> Nat]
    /\ slice \in [Upstreams -> [version : Nat, impl : BOOLEAN]]
    /\ gens \subseteq Known /\ Derived \ Moving \subseteq gens
    /\ gpc \in [GenRuns -> Deriving \cup {"idle", "compose", "ok", "failed"}]
    /\ todo = [g \in GenRuns |-> todo[g]] /\ stamp = [g \in GenRuns |-> stamp[g]]
    /\ data = [f \in DataFiles |-> data[f]] /\ fresh = [f \in DataFiles |-> fresh[f]]

(* Where a run is: what it has left to do is something it can do. *)
RunShape(g) ==
    /\ gpc[g] \in Deriving => todo[g] # {} /\ todo[g] \subseteq Known
    /\ gpc[g] = "compose" => todo[g] # {} /\ todo[g] \subseteq DOMAIN Plan
    /\ gpc[g] \in {"write", "second"} => Turn(g) \in Derived
    /\ gpc[g] = "second" => DOMAIN SourcesOf(Turn(g)) = {1, 2}

(* What a run that nobody disturbed has made so far. *)
Underived(g)  == IF gpc[g] \in Deriving THEN todo[g] ELSE {}
Uncomposed(g) == IF gpc[g] = "compose" THEN todo[g] ELSE {}
SourcesMade(g) ==
    /\ Underived(g) \subseteq gens
    /\ \A u \in gens \ Underived(g) : /\ u \in Derived /\ u \in DeclaredSlices
                                      /\ \A i \in DOMAIN SourcesOf(u) : MadeFile(g, u, i)
TurnStamped(g) ==
    /\ gpc[g] \in {"write", "second"} => stamp[g] = Now(Turn(g)) /\ Turn(g) \in DeclaredSlices
    /\ gpc[g] = "second" => MadeFile(g, Turn(g), 1)
TablesMade(g) ==
    gpc[g] \in {"compose", "ok"} =>
        \A t \in DOMAIN Plan \ Uncomposed(g) :
            Readable(t, Dir(g)) /\ Dir(g)[t] = Written(Composed(t, Dir(g)))
RunTrue(g) == g \in still /\ gpc[g] \notin {"idle", "failed"} =>
                  SourcesMade(g) /\ TurnStamped(g) /\ TablesMade(g)

(* The scratch directory holds nothing of an upstream without a generator. *)
FreshTrue ==
    /\ gpc["drift"] = "idle" => \A f \in DataFiles : fresh[f] = NoFile
    /\ "drift" \in still /\ gpc["drift"] \notin {"idle", "failed"} =>
         \A u \in Derived \ gens : \A i \in DOMAIN SourcesOf(u) : fresh[SourcesOf(u)[i]] = NoFile
DriftTrue ==
    /\ drift = "off" => gpc["drift"] = "idle"
    /\ drift = "passed" => gpc["drift"] = "ok" /\ ("drift" \in still => data = fresh)
(* What the copyleft gate has looked at does not offend. *)
GateTrue ==
    /\ gate = "passed" => look = {} /\ ~found
    /\ gate \in {"running", "passed"} /\ "gate" \in still /\ ~found =>
         \A u \in Watched : \A what \in {"tree", "rows"} : <<u, what>> \notin look => ~Offends(u, what)
(* The copyleft slices the materializer has been through hold no implementation. *)
MaterialTrue ==
    /\ left \subseteq Known /\ (mpc \in {"apply", "assert"} => left # {}) /\ (mpc = "done" => left = {})
    /\ mpc # "failed" /\ "materialize" \in still => \A u \in (names \ left) \cap Copyleft : ~slice[u].impl

TablesInv ==
    /\ TableTypes /\ \A g \in GenRuns : RunShape(g) /\ RunTrue(g)
    /\ FreshTrue /\ DriftTrue /\ GateTrue /\ MaterialTrue

(* The first of some names, in an order they are all in, is one of them. *)
LEMMA FirstAmong ==
  ASSUME NEW order, Len(order) \in Nat, DOMAIN order = 1..Len(order), NEW some,
         some # {}, some \subseteq {order[i] : i \in DOMAIN order}
  PROVE  First(order, some) \in some
  <1> DEFINE T == {i \in DOMAIN order : order[i] \in some}
             R == OpToRel(<, Nat)
  <1>1. T # {} /\ T \subseteq Nat
    OBVIOUS
  <1>2. IsWellFoundedOn(R, Nat)
    BY NatLessThanWellFounded
  <1>3. PICK i \in T : \A j \in T : ~(<<j, i>> \in R)
    <2> HIDE DEF T, R
    <2> QED BY <1>1, <1>2, WFMin
  <1>4. \A j \in T : i <= j
    <2> SUFFICES ASSUME NEW j \in T PROVE i <= j
      OBVIOUS
    <2>1. i \in Nat /\ j \in Nat
      BY <1>1
    <2>2. ~(j < i)
      BY <1>3, <2>1 DEF OpToRel
    <2> QED BY <2>1, <2>2
  <1>5. i \in DOMAIN order /\ order[i] \in some /\ \A j \in DOMAIN order : order[j] \in some => i <= j
    BY <1>3, <1>4
  <1> QED BY <1>5 DEF First

(* The upstreams, by name. *)
LEMMA KnownUpstreams ==
  /\ Known = {"agentshield", "codex-security", "gitleaks", "skillspector", "trivy", "zizmor", "trufflehog"}
  /\ Len(Ordered) \in Nat /\ DOMAIN Ordered = 1..Len(Ordered)
  /\ Upstreams \subseteq Known
  <1>1. Len(Ordered) = 7 /\ DOMAIN Ordered = 1..7
    BY DEF Ordered
  <1>2. 1..7 = {1, 2, 3, 4, 5, 6, 7}
    OBVIOUS
  <1> QED BY <1>1, <1>2, UpstreamAssumption DEF Known, Ordered

(* The tables, by name. *)
LEMMA TableNames ==
  /\ DOMAIN Plan = {"agentConfigs", "secrets", "skills", "workflows", "manifests"}
  /\ {Tables[i] : i \in DOMAIN Tables} = DOMAIN Plan
  /\ Len(Tables) \in Nat /\ DOMAIN Tables = 1..Len(Tables)
  <1>1. Len(Tables) = 5 /\ DOMAIN Tables = 1..5
    BY DEF Tables
  <1>2. 1..5 = {1, 2, 3, 4, 5}
    OBVIOUS
  <1>3. DOMAIN Plan = {"agentConfigs", "secrets", "skills", "workflows", "manifests"}
    BY DEF Plan
  <1> QED BY <1>1, <1>2, <1>3 DEF Tables

(* The source files of an upstream are no tables, and no two are the same. *)
LEMMA SourceNames ==
  ASSUME NEW u \in Known
  PROVE  /\ u = "agentshield" => Len(SourcesOf(u)) = 2 /\ DOMAIN SourcesOf(u) = {1, 2}
         /\ u # "agentshield" => Len(SourcesOf(u)) = 1 /\ DOMAIN SourcesOf(u) = {1}
         /\ \A i \in DOMAIN SourcesOf(u) : SourcesOf(u)[i] \notin DOMAIN Plan
         /\ \A i, j \in DOMAIN SourcesOf(u) : SourcesOf(u)[i] = SourcesOf(u)[j] => i = j
         /\ u \in Derived => \A i \in DOMAIN SourcesOf(u) : SourcesOf(u)[i] \in Sources
  <1>1. CASE u = "agentshield"
    <2>1. SourcesOf(u) = <<"agentshield-agent-configs", "agentshield-skills">>
      BY <1>1 DEF SourcesOf
    <2>2. DOMAIN SourcesOf(u) = {1, 2} /\ Len(SourcesOf(u)) = 2
      BY <2>1
    <2> QED BY <1>1, <2>1, <2>2, TableNames DEF Sources
  <1>2. CASE u # "agentshield"
    <2>1. SourcesOf(u) = <<u>>
      BY <1>2 DEF SourcesOf
    <2>2. DOMAIN SourcesOf(u) = {1} /\ Len(SourcesOf(u)) = 1
      BY <2>1
    <2> QED BY <1>2, <2>1, <2>2, TableNames, KnownUpstreams DEF Sources
  <1> QED BY <1>1, <1>2

(* Two upstreams write no file of each other's. *)
LEMMA SourcesApart ==
  ASSUME NEW u \in Known, NEW v \in Known, u # v
  PROVE  \A i \in DOMAIN SourcesOf(u) : \A j \in DOMAIN SourcesOf(v) : SourcesOf(u)[i] # SourcesOf(v)[j]
  <1>1. ASSUME NEW w \in Known PROVE
          \A i \in DOMAIN SourcesOf(w) :
            SourcesOf(w)[i] = IF w = "agentshield"
                              THEN (IF i = 1 THEN "agentshield-agent-configs" ELSE "agentshield-skills")
                              ELSE w
    BY SourceNames DEF SourcesOf
  <1> QED BY <1>1, KnownUpstreams

(* Every row set goes into a table. *)
LEMMA SourceIsUsed ==
  ASSUME NEW u \in Derived
  PROVE  \E t \in DOMAIN Plan : \E i \in DOMAIN SourcesOf(u) : SourcesOf(u)[i] \in Plan[t] \cap Sources
  <1>1. u \in Known /\ u # "trufflehog"
    BY KnownUpstreams DEF Derived, Blocked
  <1>2. 1 \in DOMAIN SourcesOf(u) /\ SourcesOf(u)[1] \in Sources
    BY <1>1, SourceNames
  <1>3. SourcesOf(u)[1] = IF u = "agentshield" THEN "agentshield-agent-configs" ELSE u
    BY DEF SourcesOf
  <1>4. /\ "agentshield-agent-configs" \in Plan["agentConfigs"] /\ "gitleaks" \in Plan["secrets"]
        /\ "trivy" \in Plan["secrets"] /\ "codex-security" \in Plan["skills"]
        /\ "skillspector" \in Plan["skills"] /\ "zizmor" \in Plan["workflows"]
    BY DEF Plan
  <1> QED BY <1>1, <1>2, <1>3, <1>4, KnownUpstreams, TableNames

(* What a run turns to next is something it has left to do. *)
LEMMA TurnIsLeft ==
  ASSUME NEW g \in GenRuns, RunShape(g)
  PROVE  /\ gpc[g] \in Deriving => Turn(g) \in todo[g] /\ Turn(g) \in Known
         /\ gpc[g] = "compose" => Turn(g) \in todo[g] /\ Turn(g) \in DOMAIN Plan
  <1>1. CASE gpc[g] \in Deriving
    <2>1. Turn(g) = First(Ordered, todo[g])
      BY <1>1 DEF Turn, Deriving
    <2> QED BY <1>1, <2>1, KnownUpstreams, FirstAmong DEF RunShape, Known, Deriving
  <1>2. CASE gpc[g] = "compose"
    <2>1. Turn(g) = First(Tables, todo[g])
      BY <1>2 DEF Turn
    <2> QED BY <1>2, <2>1, TableNames, FirstAmong DEF RunShape, Deriving
  <1> QED BY <1>1, <1>2

(* Nothing a run has made changes while what it depends on does not. *)
LEMMA RunFrame ==
  ASSUME NEW g \in GenRuns, RunShape(g), RunTrue(g),
         gpc'[g] = gpc[g], todo'[g] = todo[g], stamp'[g] = stamp[g],
         g \in still' => g \in still /\ UNCHANGED <<pinned, slice, gens>> /\ Dir(g)' = Dir(g)
  PROVE  RunShape(g)' /\ RunTrue(g)'
  <1>1. Turn(g)' = Turn(g)
    BY DEF Turn
  <1>2. RunShape(g)'
    BY <1>1 DEF RunShape
  <1>3. SUFFICES ASSUME g \in still', gpc[g] \notin {"idle", "failed"}
                 PROVE  SourcesMade(g)' /\ TurnStamped(g)' /\ TablesMade(g)'
    BY <1>2 DEF RunTrue
  <1>4. SourcesMade(g) /\ TurnStamped(g) /\ TablesMade(g)
    BY <1>3 DEF RunTrue
  <1>5. /\ UNCHANGED <<pinned, slice, gens>> /\ Dir(g)' = Dir(g) /\ DeclaredSlices' = DeclaredSlices
        /\ \A u : Now(u)' = Now(u)
    BY <1>3 DEF DeclaredSlices, Now
  <1>6. \A u, i : MadeFile(g, u, i)' <=> MadeFile(g, u, i)
    BY <1>5 DEF MadeFile
  <1>7. Underived(g)' = Underived(g) /\ Uncomposed(g)' = Uncomposed(g)
    BY DEF Underived, Uncomposed
  <1>8. SourcesMade(g)'
    BY <1>4, <1>5, <1>6, <1>7 DEF SourcesMade
  <1>9. TurnStamped(g)'
    BY <1>1, <1>4, <1>5, <1>6 DEF TurnStamped
  <1>10. TablesMade(g)'
    BY <1>4, <1>5, <1>7 DEF TablesMade
  <1> QED BY <1>8, <1>9, <1>10

(* What the gate has seen stays so while nobody changes the checkout. *)
LEMMA GateFrame ==
  ASSUME GateTrue, UNCHANGED <<gate, look, found>>,
         "gate" \in still' => "gate" \in still /\ UNCHANGED <<repo, slice, data>>
  PROVE  GateTrue'
  <1>1. SUFFICES ASSUME "gate" \in still' PROVE GateTrue'
    BY DEF GateTrue
  <1>2. UNCHANGED <<pinned, gens, licence, slice, data>>
    BY <1>1 DEF repo
  <1>3. Watched' = Watched
    BY <1>2 DEF Watched, DeclaredSlices, Copyleft
  <1>4. \A u, what : Offends(u, what)' = Offends(u, what)
    BY <1>2 DEF Offends, Present, Cites
  <1> QED BY <1>1, <1>3, <1>4 DEF GateTrue

(* As does what the materializer has left behind. *)
LEMMA MaterialFrame ==
  ASSUME MaterialTrue, UNCHANGED material,
         "materialize" \in still' => "materialize" \in still /\ UNCHANGED <<repo, slice>>
  PROVE  MaterialTrue'
  BY DEF MaterialTrue, Copyleft, material, repo

(* And the scratch directory. *)
LEMMA FreshFrame ==
  ASSUME FreshTrue, gpc'["drift"] = gpc["drift"], fresh' = fresh,
         "drift" \in still' => "drift" \in still /\ gens' = gens
  PROVE  FreshTrue'
  BY DEF FreshTrue

(* And the comparison's outcome. *)
LEMMA DriftFrame ==
  ASSUME DriftTrue, gpc'["drift"] = gpc["drift"], drift' = drift,
         "drift" \in still' => "drift" \in still /\ UNCHANGED <<data, fresh>>
  PROVE  DriftTrue'
  BY DEF DriftTrue

(* The checkout before anyone has done anything. *)
LEMMA TablesInitial == TablesInit => TablesInv
  <1> SUFFICES ASSUME TablesInit PROVE TablesInv
    OBVIOUS
  <1>1. pinned \in [Upstreams -> Nat] /\ gens = Derived
    BY DEF TablesInit
  <1>2. slice \in [Upstreams -> [version : Nat, impl : BOOLEAN]]
    <2>1. PICK there \in {0, 1} : slice = [u \in Upstreams |-> [version |-> there, impl |-> u \in Derived]]
      BY DEF TablesInit
    <2>2. \A u \in Upstreams : (u \in Derived) \in BOOLEAN /\ there \in Nat
      OBVIOUS
    <2> QED BY <2>1, <2>2
  <1>3. gens \subseteq Known /\ Derived \ Moving \subseteq gens
    BY <1>1, KnownUpstreams DEF Derived
  <1>4. data = [f \in DataFiles |-> data[f]] /\ fresh = [f \in DataFiles |-> NoFile]
    BY DEF TablesInit, Generation
  <1>5. gpc = [g \in GenRuns |-> "idle"] /\ todo = [g \in GenRuns |-> {}]
        /\ stamp = [g \in GenRuns |-> [tag |-> 0, version |-> 0]]
    BY DEF TablesInit, GenRuns
  <1>6. TableTypes
    BY <1>1, <1>2, <1>3, <1>4, <1>5 DEF TableTypes
  <1>7. \A g \in GenRuns : RunShape(g) /\ RunTrue(g)
    BY <1>5 DEF RunShape, RunTrue, Deriving
  <1>8. drift = "off" /\ gate = "off" /\ mpc = "off" /\ names = {} /\ left = {}
    BY DEF TablesInit
  <1>9. FreshTrue
    BY <1>4, <1>5 DEF FreshTrue, GenRuns
  <1>10. DriftTrue
    BY <1>5, <1>8 DEF DriftTrue, GenRuns
  <1>11. GateTrue
    BY <1>8 DEF GateTrue
  <1>12. MaterialTrue
    BY <1>8 DEF MaterialTrue
  <1> QED BY <1>6, <1>7, <1>9, <1>10, <1>11, <1>12 DEF TablesInv

(* A file a run puts in its directory is in nobody else's. *)
LEMMA PutsFacts ==
  ASSUME TableTypes, NEW g \in GenRuns, NEW f, NEW x, Puts(g, f, x)
  PROVE  /\ still' \subseteq still /\ (g \in still' <=> g \in still) /\ (g = "drift" => UNCHANGED <<data, still>>)
         /\ \A r \in still' : r # g => data' = data
         /\ (g = "gen" => UNCHANGED fresh)
         /\ Dir(g)' = [Dir(g) EXCEPT ![f] = x] /\ DOMAIN Dir(g) = DataFiles
         /\ data' = [h \in DataFiles |-> data'[h]] /\ fresh' = [h \in DataFiles |-> fresh'[h]]
  <1>1. CASE g = "gen"
    BY <1>1 DEF Puts, Disturbs, Dir, TableTypes
  <1>2. CASE g = "drift"
    BY <1>2 DEF Puts, Dir, TableTypes
  <1> QED BY <1>1, <1>2 DEF GenRuns

(* A step of a run is its own: what else is known stays known. *)
LEMMA RunStep ==
  ASSUME TablesInv, NEW g \in GenRuns, gpc[g] \in Deriving \cup {"compose"},
         NEW to \in Deriving \cup {"compose", "ok", "failed"}, gpc' = [gpc EXCEPT ![g] = to],
         NEW rest, todo' = [todo EXCEPT ![g] = rest], NEW mark, stamp' = [stamp EXCEPT ![g] = mark],
         UNCHANGED <<repo, slice, checks, material>>,
         UNCHANGED <<data, fresh, still>> \/ \E f, x : Puts(g, f, x),
         RunShape(g)', RunTrue(g)', g = "drift" => FreshTrue'
  PROVE  TablesInv'
  <1>1. /\ still' \subseteq still /\ (g = "drift" => UNCHANGED <<data, still>>)
        /\ \A r \in still' : r # g => data' = data
        /\ (g = "gen" => UNCHANGED fresh)
        /\ data' = [h \in DataFiles |-> data'[h]] /\ fresh' = [h \in DataFiles |-> fresh'[h]]
    <2>1. CASE UNCHANGED <<data, fresh, still>>
      BY <2>1 DEF TablesInv, TableTypes
    <2>2. CASE \E f, x : Puts(g, f, x)
      BY <2>2, PutsFacts DEF TablesInv
    <2> QED BY <2>1, <2>2
  <1>2. UNCHANGED <<pinned, gens, licence, drift, gate, look, found, mpc, names, left>>
    BY DEF repo, checks, material
  <1>3. TableTypes'
    BY <1>1, <1>2 DEF TablesInv, TableTypes
  <1>4. ASSUME NEW h \in GenRuns PROVE RunShape(h)' /\ RunTrue(h)'
    <2>1. CASE h = g
      BY <2>1
    <2>2. CASE h # g
      <3>1. gpc'[h] = gpc[h] /\ todo'[h] = todo[h] /\ stamp'[h] = stamp[h]
        BY <2>2 DEF TablesInv, TableTypes
      <3>2. h \in still' => Dir(h)' = Dir(h)
        BY <1>1, <2>2 DEF Dir, GenRuns
      <3> QED BY <1>1, <1>2, <3>1, <3>2, RunFrame DEF TablesInv
    <2> QED BY <2>1, <2>2
  <1>5. FreshTrue' /\ DriftTrue'
    <2>1. CASE g = "drift"
      <3>1. gpc["drift"] \notin {"idle", "ok"}
        BY <2>1 DEF Deriving
      <3> QED BY <1>2, <2>1, <3>1 DEF TablesInv, DriftTrue
    <2>2. CASE g = "gen"
      <3>1. gpc'["drift"] = gpc["drift"]
        BY <2>2 DEF TablesInv, TableTypes, GenRuns
      <3>2. "drift" \in still' => UNCHANGED <<data, fresh>>
        BY <1>1, <2>2
      <3>3. FreshTrue /\ DriftTrue /\ fresh' = fresh
        BY <1>1, <2>2 DEF TablesInv
      <3> QED BY <1>1, <1>2, <3>1, <3>2, <3>3, FreshFrame, DriftFrame
    <2> QED BY <2>1, <2>2 DEF GenRuns
  <1>6. GateTrue'
    <2>1. "gate" \in still' => UNCHANGED <<repo, slice, data>>
      BY <1>1 DEF GenRuns
    <2> QED BY <1>1, <1>2, <2>1, GateFrame DEF TablesInv
  <1>7. MaterialTrue'
    BY <1>1, MaterialFrame DEF TablesInv
  <1> QED BY <1>3, <1>4, <1>5, <1>6, <1>7 DEF TablesInv

(* The scratch directory, at a step of the drift check's run. *)
LEMMA FreshStep ==
  ASSUME FreshTrue, gpc["drift"] \notin {"idle", "failed"}, gpc'["drift"] # "idle",
         still' = still, gens' = gens,
         "drift" \in still /\ gpc'["drift"] # "failed" =>
           \A u \in Derived \ gens : \A i \in DOMAIN SourcesOf(u) :
              fresh'[SourcesOf(u)[i]] = fresh[SourcesOf(u)[i]]
  PROVE  FreshTrue'
  BY DEF FreshTrue

(* One step of each process: a slice is resolved and parsed, *)
LEMMA DeriveStep ==
  ASSUME TablesInv, NEW g \in GenRuns, Derive(g)
  PROVE  TablesInv'
  <1> DEFINE u == Turn(g)
  <1>1. /\ gpc[g] = "derive" /\ UNCHANGED <<repo, slice, data, fresh, todo, checks, material, still>>
        /\ RunShape(g) /\ RunTrue(g)
    BY DEF Derive, TablesInv
  <1>2. u \in todo[g] /\ u \in Known
    BY <1>1, TurnIsLeft DEF Deriving
  <1>3. todo' = [todo EXCEPT ![g] = todo[g]] /\ gens' = gens /\ pinned' = pinned
    BY <1>1 DEF TablesInv, TableTypes, repo
  <1>4. CASE Resolves(u) /\ Parse(SourcesOf(u)[1], slice[u].version) # {}
    <2>1. gpc' = [gpc EXCEPT ![g] = "write"] /\ stamp' = [stamp EXCEPT ![g] = Now(u)]
      BY <1>4 DEF Derive, Goes, Now
    <2>2. gpc'[g] = "write" /\ stamp'[g] = Now(u) /\ todo'[g] = todo[g]
      BY <1>1, <2>1 DEF TablesInv, TableTypes
    <2>3. u \in Derived /\ u \in DeclaredSlices
      BY <1>4 DEF Resolves, DeclaredSlices, Derived
    <2>4. Turn(g)' = u /\ DeclaredSlices' = DeclaredSlices /\ \A v : Now(v)' = Now(v)
      BY <1>1, <1>3, <2>2 DEF Turn, DeclaredSlices, Now
    <2>5. RunShape(g)'
      BY <1>1, <2>2, <2>3, <2>4 DEF RunShape, Deriving
    <2>6. RunTrue(g)'
      <3>1. SUFFICES ASSUME g \in still PROVE SourcesMade(g)' /\ TurnStamped(g)' /\ TablesMade(g)'
        BY <1>1 DEF RunTrue
      <3>2. SourcesMade(g)
        BY <1>1, <3>1 DEF RunTrue
      <3>3. Underived(g)' = Underived(g)
        BY <1>1, <2>2 DEF Underived, Deriving
      <3>4. \A v, i : MadeFile(g, v, i)' <=> MadeFile(g, v, i)
        BY <1>1, <2>4 DEF MadeFile, Dir
      <3>5. SourcesMade(g)'
        BY <1>3, <2>4, <3>2, <3>3, <3>4 DEF SourcesMade
      <3> QED BY <2>2, <2>3, <2>4, <3>5 DEF TurnStamped, TablesMade
    <2>7. g = "drift" => FreshTrue'
      BY <1>1, <1>3, <2>2, FreshStep DEF TablesInv
    <2> QED BY <1>1, <1>3, <2>1, <2>5, <2>6, <2>7, RunStep DEF Deriving
  <1>5. CASE ~(Resolves(u) /\ Parse(SourcesOf(u)[1], slice[u].version) # {})
    <2>1. gpc' = [gpc EXCEPT ![g] = "failed"] /\ stamp' = [stamp EXCEPT ![g] = stamp[g]]
      BY <1>5 DEF Derive, Goes, TablesInv, TableTypes
    <2>2. gpc'[g] = "failed"
      BY <2>1 DEF TablesInv, TableTypes
    <2>3. RunShape(g)' /\ RunTrue(g)'
      BY <2>2 DEF RunShape, RunTrue, Deriving
    <2>4. g = "drift" => FreshTrue'
      BY <1>1, <1>3, <2>2, FreshStep DEF TablesInv
    <2> QED BY <1>1, <1>3, <2>1, <2>3, <2>4, RunStep DEF Deriving
  <1> QED BY <1>4, <1>5

(* a row set written, the last of its generator or not, *)
LEMMA WriteStep ==
  ASSUME TablesInv, NEW g \in GenRuns, WriteSource(g)
  PROVE  TablesInv'
  <1>0. PICK u, k : u = Turn(g) /\ k = IF gpc[g] = "write" THEN 1 ELSE 2
    OBVIOUS
  <1> DEFINE f == SourcesOf(u)[k]
             x == Written(RowsOf(u, f, stamp[g]))
  <1>1. /\ gpc[g] \in {"write", "second"} /\ UNCHANGED <<repo, slice, stamp, checks, material>>
        /\ RunShape(g) /\ RunTrue(g) /\ gpc[g] \in Deriving /\ TableTypes
    BY DEF WriteSource, TablesInv, Deriving
  <1>2. /\ u \in todo[g] /\ u \in Known /\ u \in Derived /\ todo[g] \subseteq Known
        /\ k \in DOMAIN SourcesOf(u) /\ f \in Sources
    <2>1. u \in todo[g] /\ u \in Known /\ u \in Derived /\ todo[g] \subseteq Known
      BY <1>0, <1>1, TurnIsLeft DEF RunShape
    <2>2. k \in DOMAIN SourcesOf(u)
      BY <1>0, <1>1, <2>1, SourceNames DEF RunShape
    <2> QED BY <2>1, <2>2, SourceNames
  <1>3. Puts(g, f, x)
    <2>1. Pending(g) = f
      BY <1>0, <1>1 DEF Pending
    <2> QED BY <1>0, <2>1 DEF WriteSource
  <1>4. /\ gens' = gens /\ pinned' = pinned /\ slice' = slice /\ stamp' = [stamp EXCEPT ![g] = stamp[g]]
        /\ DeclaredSlices' = DeclaredSlices /\ (\A v : Now(v)' = Now(v)) /\ stamp'[g] = stamp[g]
    BY <1>1 DEF TableTypes, repo, DeclaredSlices, Now
  <1>5. Dir(g)' = [Dir(g) EXCEPT ![f] = x] /\ DOMAIN Dir(g) = DataFiles /\ f \in DataFiles
        /\ (g \in still' <=> g \in still)
    <2> HIDE DEF f, x
    <2>1. f \in DataFiles
      BY <1>2 DEF DataFiles
    <2> QED BY <1>1, <1>3, <2>1, PutsFacts
  <1>6. g \in still => SourcesMade(g) /\ TurnStamped(g) /\ TablesMade(g)
    BY <1>1 DEF RunTrue
  <1>7. \A v \in Known : \A i \in DOMAIN SourcesOf(v) :
          (v # u \/ i # k) => (MadeFile(g, v, i)' <=> MadeFile(g, v, i))
    <2> SUFFICES ASSUME NEW v \in Known, NEW i \in DOMAIN SourcesOf(v), v # u \/ i # k
                 PROVE  MadeFile(g, v, i)' <=> MadeFile(g, v, i)
      OBVIOUS
    <2>1. SourcesOf(v)[i] # f
      BY <1>2, SourcesApart, SourceNames
    <2>2. Dir(g)'[SourcesOf(v)[i]] = Dir(g)[SourcesOf(v)[i]]
      <3> HIDE DEF f, x
      <3> QED BY <1>5, <2>1
    <2> QED BY <1>4, <2>2 DEF MadeFile
  <1>8. g \in still => MadeFile(g, u, k)'
    <2>1. Dir(g)'[f] = x
      BY <1>5
    <2>2. g \in still => stamp[g] = Now(u)
      BY <1>0, <1>1, <1>6 DEF TurnStamped
    <2> QED BY <1>4, <2>1, <2>2 DEF MadeFile
  <1>9. "drift" = g /\ "drift" \in still =>
          \A v \in Derived \ gens : \A i \in DOMAIN SourcesOf(v) :
             fresh'[SourcesOf(v)[i]] = fresh[SourcesOf(v)[i]]
    <2> SUFFICES ASSUME "drift" = g, "drift" \in still, NEW v \in Derived \ gens,
                        NEW i \in DOMAIN SourcesOf(v)
                 PROVE  fresh'[SourcesOf(v)[i]] = fresh[SourcesOf(v)[i]]
      OBVIOUS
    <2>1. u \in gens
      BY <1>1, <1>2, <1>6 DEF SourcesMade, Underived
    <2>2. v # u /\ v \in Known
      BY <2>1, KnownUpstreams DEF Derived
    <2>3. SourcesOf(v)[i] # f
      BY <1>2, <2>2, SourcesApart
    <2>4. fresh' = [fresh EXCEPT ![f] = x]
      BY <1>5 DEF Dir
    <2> QED BY <2>3, <2>4
  <1>10. ASSUME gpc'[g] # "idle" PROVE g = "drift" => FreshTrue'
    <2>1. g = "drift" => still' = still
      BY <1>3 DEF Puts
    <2> QED BY <1>1, <1>4, <1>9, <1>10, <2>1, FreshStep DEF TablesInv, Deriving
  <1>11. CASE gpc[g] = "write" /\ Len(SourcesOf(u)) > 1
    <2>1. gpc' = [gpc EXCEPT ![g] = "second"] /\ todo' = [todo EXCEPT ![g] = todo[g]]
      BY <1>0, <1>1, <1>11 DEF WriteSource, Goes, TableTypes
    <2>2. gpc'[g] = "second" /\ todo'[g] = todo[g]
      BY <1>1, <2>1 DEF TableTypes
    <2>3. Turn(g)' = u
      BY <1>0, <1>11, <2>2 DEF Turn
    <2>4. DOMAIN SourcesOf(u) = {1, 2}
      <3>1. u # "agentshield" => Len(SourcesOf(u)) = 1
        BY <1>2, SourceNames
      <3>2. u = "agentshield"
        <4>1. Len(SourcesOf(u)) > 1 /\ ~(1 > 1)
          BY <1>11
        <4> QED BY <3>1, <4>1
      <3> QED BY <1>2, <3>2, SourceNames
    <2>5. RunShape(g)'
      BY <1>1, <1>2, <2>2, <2>3, <2>4 DEF RunShape, Deriving
    <2>6. RunTrue(g)'
      <3>1. SUFFICES ASSUME g \in still PROVE SourcesMade(g)' /\ TurnStamped(g)' /\ TablesMade(g)'
        BY <1>5 DEF RunTrue
      <3>2. Underived(g)' = todo[g] /\ Underived(g) = todo[g]
        BY <1>1, <2>2 DEF Underived, Deriving
      <3>3. \A v \in gens \ todo[g] : v # u /\ v \in Known
        BY <1>1, <1>2 DEF TableTypes
      <3>4. SourcesMade(g)'
        BY <1>4, <1>6, <1>7, <3>1, <3>2, <3>3 DEF SourcesMade
      <3>5. TurnStamped(g)'
        BY <1>0, <1>1, <1>4, <1>6, <1>8, <1>11, <2>3, <3>1 DEF TurnStamped
      <3> QED BY <2>2, <3>4, <3>5 DEF TablesMade
    <2>7. g = "drift" => FreshTrue'
      BY <1>10, <2>2
    <2> QED BY <1>1, <1>3, <1>4, <2>1, <2>5, <2>6, <2>7, RunStep DEF Deriving
  <1>12. CASE ~(gpc[g] = "write" /\ Len(SourcesOf(u)) > 1)
    <2>1. g \in still => \A i \in DOMAIN SourcesOf(u) : MadeFile(g, u, i)'
      <3> SUFFICES ASSUME g \in still, NEW i \in DOMAIN SourcesOf(u), i # k PROVE MadeFile(g, u, i)'
        BY <1>8
      <3>1. i = 1 /\ gpc[g] = "second"
        BY <1>0, <1>1, <1>2, <1>12, SourceNames DEF RunShape
      <3>2. MadeFile(g, u, 1)
        BY <1>0, <1>6, <3>1 DEF TurnStamped
      <3> QED BY <1>0, <1>2, <1>7, <3>1, <3>2
    <2>2. g \in still => \A v \in gens \ (todo[g] \ {u}) :
             /\ v \in Derived /\ v \in DeclaredSlices
             /\ \A i \in DOMAIN SourcesOf(v) : MadeFile(g, v, i)'
      <3> SUFFICES ASSUME g \in still, NEW v \in gens \ (todo[g] \ {u})
                   PROVE  /\ v \in Derived /\ v \in DeclaredSlices
                          /\ \A i \in DOMAIN SourcesOf(v) : MadeFile(g, v, i)'
        OBVIOUS
      <3>1. CASE v = u
        BY <1>0, <1>1, <1>2, <1>6, <2>1, <3>1 DEF TurnStamped
      <3>2. CASE v # u
        <4>1. v \in gens \ Underived(g) /\ v \in Known
          BY <1>1, <3>2 DEF Underived, TableTypes
        <4> QED BY <1>6, <1>7, <3>2, <4>1 DEF SourcesMade
      <3> QED BY <3>1, <3>2
    <2>3. g \in still => todo[g] \subseteq gens
      BY <1>1, <1>6 DEF SourcesMade, Underived
    <2>4. CASE todo[g] # {u}
      <3>1. gpc' = [gpc EXCEPT ![g] = "derive"] /\ todo' = [todo EXCEPT ![g] = todo[g] \ {u}]
        BY <1>0, <1>1, <1>12, <2>4 DEF WriteSource, Goes, Done
      <3>2. gpc'[g] = "derive" /\ todo'[g] = todo[g] \ {u}
        BY <1>1, <3>1 DEF TableTypes
      <3>3. RunShape(g)'
        BY <1>2, <2>4, <3>2 DEF RunShape, Deriving
      <3>4. RunTrue(g)'
        <4>1. SUFFICES ASSUME g \in still PROVE SourcesMade(g)' /\ TurnStamped(g)' /\ TablesMade(g)'
          BY <1>5 DEF RunTrue
        <4>2. Underived(g)' = todo[g] \ {u}
          BY <3>2 DEF Underived, Deriving
        <4>3. SourcesMade(g)'
          BY <1>4, <2>2, <2>3, <4>1, <4>2 DEF SourcesMade
        <4> QED BY <3>2, <4>3 DEF TurnStamped, TablesMade
      <3>5. g = "drift" => FreshTrue'
        BY <1>10, <3>2
      <3> QED BY <1>1, <1>3, <1>4, <3>1, <3>3, <3>4, <3>5, RunStep DEF Deriving
    <2>5. CASE todo[g] = {u}
      <3>1. gpc' = [gpc EXCEPT ![g] = "compose"] /\ todo' = [todo EXCEPT ![g] = DOMAIN Plan]
        BY <1>0, <1>1, <1>12, <2>5 DEF WriteSource, Goes, ToTables
      <3>2. gpc'[g] = "compose" /\ todo'[g] = DOMAIN Plan
        BY <1>1, <3>1 DEF TableTypes
      <3>3. RunShape(g)'
        BY <3>2, TableNames DEF RunShape, Deriving
      <3>4. RunTrue(g)'
        <4>1. SUFFICES ASSUME g \in still PROVE SourcesMade(g)' /\ TurnStamped(g)' /\ TablesMade(g)'
          BY <1>5 DEF RunTrue
        <4>2. Underived(g)' = {} /\ Uncomposed(g)' = DOMAIN Plan
          BY <3>2 DEF Underived, Uncomposed, Deriving
        <4>3. SourcesMade(g)'
          BY <1>4, <2>2, <2>5, <4>1, <4>2 DEF SourcesMade
        <4> QED BY <3>2, <4>2, <4>3 DEF TurnStamped, TablesMade
      <3>5. g = "drift" => FreshTrue'
        BY <1>10, <3>2
      <3> QED BY <1>1, <1>3, <1>4, <3>1, <3>3, <3>4, <3>5, RunStep DEF Deriving
    <2> QED BY <2>4, <2>5
  <1> QED BY <1>11, <1>12

(* a table composed of row sets that are all there, *)
LEMMA ComposeStep ==
  ASSUME TablesInv, NEW g \in GenRuns, Compose(g)
  PROVE  TablesInv'
  <1>0. PICK t : t = Turn(g)
    OBVIOUS
  <1> DEFINE x == Written(Composed(t, Dir(g)))
  <1>1. /\ gpc[g] = "compose" /\ UNCHANGED <<repo, slice, stamp, checks, material>>
        /\ RunShape(g) /\ RunTrue(g) /\ TableTypes
    BY DEF Compose, TablesInv
  <1>2. t \in todo[g] /\ t \in DOMAIN Plan /\ todo[g] \subseteq DOMAIN Plan
    BY <1>0, <1>1, TurnIsLeft DEF RunShape
  <1>3. /\ gens' = gens /\ pinned' = pinned /\ slice' = slice /\ stamp' = [stamp EXCEPT ![g] = stamp[g]]
        /\ DeclaredSlices' = DeclaredSlices /\ (\A v : Now(v)' = Now(v))
    BY <1>1 DEF TableTypes, repo, DeclaredSlices, Now
  <1>4. CASE Readable(t, Dir(g)) /\ IdsUnique(Composed(t, Dir(g)))
    <2> DEFINE to == IF todo[g] # {t} THEN "compose" ELSE "ok"
    <2>1. Puts(g, t, x) /\ gpc' = [gpc EXCEPT ![g] = to] /\ todo' = [todo EXCEPT ![g] = todo[g] \ {t}]
      BY <1>0, <1>4 DEF Compose, Goes, Done
    <2>2. gpc'[g] = to /\ todo'[g] = todo[g] \ {t} /\ to \in {"compose", "ok"}
      BY <1>1, <2>1 DEF TableTypes
    <2>3. Dir(g)' = [Dir(g) EXCEPT ![t] = x] /\ DOMAIN Dir(g) = DataFiles /\ t \in DataFiles
          /\ (g \in still' <=> g \in still) /\ (g = "drift" => still' = still)
      <3> HIDE DEF x
      <3>1. t \in DataFiles
        BY <1>2 DEF DataFiles
      <3> QED BY <1>1, <2>1, <3>1, PutsFacts
    <2>4. \A f : f # t => Dir(g)'[f] = Dir(g)[f]
      <3> HIDE DEF x
      <3> QED BY <2>3
    <2>5. t \notin Sources /\ \A v \in Known : \A i \in DOMAIN SourcesOf(v) : SourcesOf(v)[i] # t
      <3>1. \A v \in Known : \A i \in DOMAIN SourcesOf(v) : SourcesOf(v)[i] # t
        BY <1>2, SourceNames
      <3>2. ASSUME t \in Sources PROVE FALSE
        <4>1. PICK v \in Derived : t \in {SourcesOf(v)[i] : i \in DOMAIN SourcesOf(v)}
          BY <3>2 DEF Sources
        <4>2. v \in Known
          BY KnownUpstreams DEF Derived
        <4> QED BY <3>1, <4>1, <4>2
      <3> QED BY <3>1, <3>2
    <2>6. \A v \in Known : \A i \in DOMAIN SourcesOf(v) : MadeFile(g, v, i)' <=> MadeFile(g, v, i)
      BY <1>3, <2>4, <2>5 DEF MadeFile
    <2>7. \A f \in Sources : Dir(g)'[f] = Dir(g)[f]
      BY <2>4, <2>5
    <2>8. \A table \in DOMAIN Plan : /\ Composed(table, Dir(g)') = Composed(table, Dir(g))
                                     /\ Readable(table, Dir(g)') <=> Readable(table, Dir(g))
      <3>1. ASSUME NEW table \in DOMAIN Plan
            PROVE  UNION {Dir(g)'[s].rows : s \in Plan[table] \cap Sources}
                     = UNION {Dir(g)[s].rows : s \in Plan[table] \cap Sources}
        <4>1. {Dir(g)'[s].rows : s \in Plan[table] \cap Sources}
                = {Dir(g)[s].rows : s \in Plan[table] \cap Sources}
          BY <2>7
        <4> QED BY <4>1
      <3> QED BY <2>7, <3>1 DEF Composed, Readable
    <2>9. RunShape(g)'
      BY <1>2, <2>2 DEF RunShape, Deriving
    <2>10. RunTrue(g)'
      <3>1. SUFFICES ASSUME g \in still PROVE SourcesMade(g)' /\ TurnStamped(g)' /\ TablesMade(g)'
        BY <2>3 DEF RunTrue
      <3>2. SourcesMade(g) /\ TablesMade(g)
        BY <1>1, <3>1 DEF RunTrue
      <3>3. Underived(g)' = {} /\ Underived(g) = {} /\ gens \subseteq Known
        BY <1>1, <2>2 DEF Underived, Deriving, TableTypes
      <3>4. SourcesMade(g)'
        BY <1>3, <2>6, <3>2, <3>3 DEF SourcesMade
      <3>5. Uncomposed(g) = todo[g] /\ Uncomposed(g)' = todo[g] \ {t}
        BY <1>1, <1>2, <2>2 DEF Uncomposed
      <3>6. ASSUME NEW table \in DOMAIN Plan \ (todo[g] \ {t})
            PROVE  /\ Readable(table, Dir(g)')
                   /\ Dir(g)'[table] = Written(Composed(table, Dir(g)'))
        <4>1. CASE table = t
          BY <1>4, <2>3, <2>8, <4>1
        <4>2. CASE table # t
          BY <1>1, <2>4, <2>8, <3>2, <3>5, <4>2 DEF TablesMade
        <4> QED BY <4>1, <4>2
      <3>7. TablesMade(g)'
        BY <3>5, <3>6 DEF TablesMade
      <3> QED BY <2>2, <3>4, <3>7 DEF TurnStamped
    <2>11. g = "drift" => FreshTrue'
      <3> SUFFICES ASSUME g = "drift" PROVE FreshTrue'
        OBVIOUS
      <3>1. \A f : f # t => fresh'[f] = fresh[f]
        BY <2>4 DEF Dir
      <3>2. \A v \in Derived \ gens : \A i \in DOMAIN SourcesOf(v) :
              fresh'[SourcesOf(v)[i]] = fresh[SourcesOf(v)[i]]
        <4> SUFFICES ASSUME NEW v \in Derived \ gens, NEW i \in DOMAIN SourcesOf(v)
                     PROVE  fresh'[SourcesOf(v)[i]] = fresh[SourcesOf(v)[i]]
          OBVIOUS
        <4>1. v \in Known
          BY KnownUpstreams DEF Derived
        <4>2. SourcesOf(v)[i] # t
          BY <2>5, <4>1
        <4> QED BY <3>1, <4>2
      <3> QED BY <1>1, <1>3, <2>2, <2>3, <3>2, FreshStep DEF TablesInv
    <2> HIDE DEF x, to
    <2> QED BY <1>1, <1>3, <2>1, <2>2, <2>9, <2>10, <2>11, RunStep DEF Deriving
  <1>5. CASE ~(Readable(t, Dir(g)) /\ IdsUnique(Composed(t, Dir(g))))
    <2>1. gpc' = [gpc EXCEPT ![g] = "failed"] /\ todo' = [todo EXCEPT ![g] = todo[g]]
          /\ UNCHANGED <<data, fresh, still>>
      BY <1>0, <1>1, <1>5 DEF Compose, Goes, TableTypes
    <2>2. gpc'[g] = "failed"
      BY <1>1, <2>1 DEF TableTypes
    <2>3. RunShape(g)' /\ RunTrue(g)'
      BY <2>2 DEF RunShape, RunTrue, Deriving
    <2>4. g = "drift" => FreshTrue'
      BY <1>1, <1>3, <2>1, <2>2, FreshStep DEF TablesInv
    <2> QED BY <1>1, <1>3, <2>1, <2>3, <2>4, RunStep DEF Deriving
  <1> QED BY <1>4, <1>5

(* and a generation killed. *)
LEMMA KillStep ==
  ASSUME TablesInv, KillGeneration
  PROVE  TablesInv'
  <1>1. /\ gpc["gen"] \notin {"idle", "ok", "failed"} /\ gpc' = [gpc EXCEPT !["gen"] = "failed"]
        /\ UNCHANGED <<repo, slice, todo, stamp, checks, material>>
        /\ UNCHANGED <<data, fresh, still>> \/ \E f, x : Puts("gen", f, x)
    BY DEF KillGeneration, Goes
  <1>2. /\ todo' = [todo EXCEPT !["gen"] = todo["gen"]] /\ stamp' = [stamp EXCEPT !["gen"] = stamp["gen"]]
        /\ gpc'["gen"] = "failed" /\ gpc["gen"] \in Deriving \cup {"compose"} /\ "gen" \in GenRuns
    BY <1>1 DEF TablesInv, TableTypes, GenRuns
  <1>3. RunShape("gen")' /\ RunTrue("gen")'
    BY <1>2 DEF RunShape, RunTrue, Deriving
  <1> QED BY <1>1, <1>2, <1>3, RunStep

(* What nobody disturbs, somebody else's step leaves as it is. *)
LEMMA RunsKept ==
  ASSUME TablesInv, UNCHANGED <<runs, fresh>>,
         \A g \in still' \cap GenRuns : g \in still /\ UNCHANGED <<pinned, slice, gens, data>>
  PROVE  FreshTrue' /\ \A g \in GenRuns : RunShape(g)' /\ RunTrue(g)'
  <1>1. UNCHANGED <<gpc, todo, stamp, fresh>>
    BY DEF runs
  <1>2. ASSUME NEW g \in GenRuns PROVE RunShape(g)' /\ RunTrue(g)'
    <2>1. g \in still' => g \in still /\ UNCHANGED <<pinned, slice, gens>> /\ Dir(g)' = Dir(g)
      BY <1>1 DEF Dir
    <2> QED BY <1>1, <2>1, RunFrame DEF TablesInv
  <1>3. FreshTrue'
    BY <1>1, FreshFrame DEF TablesInv, GenRuns
  <1> QED BY <1>2, <1>3

(* The runs and both checks, at a step of the materializer or of people. *)
LEMMA OthersKept ==
  ASSUME TablesInv, UNCHANGED <<runs, fresh, checks>>,
         \A r \in still' \cap {"gen", "drift", "gate"} : r \in still /\ UNCHANGED <<repo, slice, data>>
  PROVE  FreshTrue' /\ DriftTrue' /\ GateTrue' /\ \A g \in GenRuns : RunShape(g)' /\ RunTrue(g)'
  <1>1. UNCHANGED <<gpc, drift, gate, look, found>>
    BY DEF runs, checks
  <1>2. FreshTrue' /\ \A g \in GenRuns : RunShape(g)' /\ RunTrue(g)'
    <2>1. \A g \in still' \cap GenRuns : g \in still /\ UNCHANGED <<pinned, slice, gens, data>>
      BY DEF GenRuns, repo
    <2> QED BY <2>1, RunsKept
  <1>3. DriftTrue'
    BY <1>1, DriftFrame DEF TablesInv
  <1>4. GateTrue'
    BY <1>1, GateFrame DEF TablesInv
  <1> QED BY <1>2, <1>3, <1>4

(* A run begins with every generator to go. *)
LEMMA Begun ==
  ASSUME TableTypes, NEW g \in GenRuns, BeginRun(g), gens' = gens
  PROVE  RunShape(g)' /\ RunTrue(g)' /\ gpc'[g] = "derive"
  <1>1. gpc'[g] = "derive" /\ todo'[g] = gens /\ gens # {} /\ gens \subseteq Known
    BY UpstreamAssumption DEF BeginRun, TableTypes
  <1>2. RunShape(g)'
    BY <1>1 DEF RunShape, Deriving
  <1>3. Underived(g)' = gens
    BY <1>1 DEF Underived, Deriving
  <1> QED BY <1>1, <1>2, <1>3 DEF RunTrue, SourcesMade, TurnStamped, TablesMade

(* The generation begins. *)
LEMMA StartGenerationStep ==
  ASSUME TablesInv, StartGeneration
  PROVE  TablesInv'
  <1>1. /\ BeginRun("gen") /\ still' = still \cup {"gen"} /\ "gen" \in GenRuns
        /\ UNCHANGED <<repo, slice, data, fresh, checks, material>>
        /\ TableTypes /\ FreshTrue /\ DriftTrue /\ GateTrue /\ MaterialTrue
    BY DEF StartGeneration, TablesInv, GenRuns
  <1>2. UNCHANGED <<pinned, gens, drift, gate, look, found>>
    BY <1>1 DEF repo, checks
  <1>3. /\ gpc'["drift"] = gpc["drift"] /\ todo'["drift"] = todo["drift"] /\ stamp'["drift"] = stamp["drift"]
        /\ ("drift" \in still' => "drift" \in still)
    BY <1>1 DEF BeginRun, TableTypes, GenRuns
  <1>4. TableTypes'
    BY <1>1, <1>2 DEF TableTypes, BeginRun, Deriving
  <1>5. RunShape("gen")' /\ RunTrue("gen")'
    BY <1>1, <1>2, Begun
  <1>6. RunShape("drift")' /\ RunTrue("drift")'
    <2>1. Dir("drift")' = Dir("drift")
      BY <1>1 DEF Dir
    <2> QED BY <1>1, <1>2, <1>3, <2>1, RunFrame DEF TablesInv, GenRuns
  <1>7. FreshTrue' /\ DriftTrue'
    BY <1>1, <1>2, <1>3, FreshFrame, DriftFrame
  <1>8. GateTrue' /\ MaterialTrue'
    BY <1>1, <1>2, GateFrame, MaterialFrame
  <1> QED BY <1>4, <1>5, <1>6, <1>7, <1>8 DEF TablesInv, GenRuns

(* The drift check begins, into an empty directory. *)
LEMMA StartDriftStep ==
  ASSUME TablesInv, StartDrift
  PROVE  TablesInv'
  <1>1. /\ UNCHANGED <<repo, slice, data, fresh, gate, look, found, material>> /\ drift = "off"
        /\ TableTypes /\ FreshTrue /\ DriftTrue /\ GateTrue /\ MaterialTrue /\ "drift" \in GenRuns
        /\ still' \subseteq still \cup {"drift"}
    BY DEF StartDrift, TablesInv, GenRuns
  <1>2. UNCHANGED <<pinned, gens>> /\ gpc["drift"] = "idle"
    BY <1>1 DEF repo, DriftTrue
  <1>3. GateTrue' /\ MaterialTrue'
    BY <1>1, GateFrame, MaterialFrame
  <1>4. CASE drift' \in {"skipped", "failed"} /\ UNCHANGED <<runs, still>>
    <2>1. TableTypes'
      BY <1>1, <1>2, <1>4 DEF TableTypes, runs
    <2>2. FreshTrue' /\ \A g \in GenRuns : RunShape(g)' /\ RunTrue(g)'
      BY <1>1, <1>2, <1>4, RunsKept
    <2> QED BY <1>3, <1>4, <2>1, <2>2 DEF TablesInv, DriftTrue
  <1>5. CASE drift' = "running" /\ BeginRun("drift")
    <2>1. /\ gpc'["gen"] = gpc["gen"] /\ todo'["gen"] = todo["gen"] /\ stamp'["gen"] = stamp["gen"]
          /\ ("gen" \in still' => "gen" \in still)
      BY <1>1, <1>5 DEF BeginRun, TableTypes, GenRuns
    <2>2. TableTypes'
      BY <1>1, <1>2, <1>5 DEF TableTypes, BeginRun, Deriving
    <2>3. RunShape("drift")' /\ RunTrue("drift")' /\ gpc'["drift"] = "derive"
      BY <1>1, <1>2, <1>5, Begun
    <2>4. RunShape("gen")' /\ RunTrue("gen")'
      <3>1. Dir("gen")' = Dir("gen")
        BY <1>1 DEF Dir
      <3> QED BY <1>1, <1>2, <2>1, <3>1, RunFrame DEF TablesInv, GenRuns
    <2>5. FreshTrue'
      <3>1. \A f \in DataFiles : fresh'[f] = NoFile
        BY <1>1, <1>2 DEF FreshTrue
      <3>2. \A u \in Derived : \A i \in DOMAIN SourcesOf(u) : SourcesOf(u)[i] \in DataFiles
        BY SourceNames, KnownUpstreams DEF Derived, DataFiles
      <3> QED BY <2>3, <3>1, <3>2 DEF FreshTrue
    <2> QED BY <1>3, <1>5, <2>2, <2>3, <2>4, <2>5 DEF TablesInv, GenRuns, DriftTrue
  <1> QED BY <1>4, <1>5 DEF StartDrift

(* Trees are compared; slices are looked at and do not offend, or are found to. *)
LEMMA CheckSteps ==
  ASSUME TablesInv, CompareTrees \/ StartGate \/ LookNext
  PROVE  TablesInv'
  <1>1. /\ UNCHANGED <<repo, slice, data, fresh, runs, material>>
        /\ TableTypes /\ DriftTrue /\ GateTrue /\ MaterialTrue
        /\ still' \subseteq still \cup {"gate"}
    BY DEF CompareTrees, StartGate, LookNext, TablesInv
  <1>2. UNCHANGED <<pinned, gens, licence, gpc, todo, stamp>>
    BY <1>1 DEF repo, runs
  <1>3. TableTypes'
    BY <1>1, <1>2 DEF TableTypes
  <1>4. FreshTrue' /\ \A g \in GenRuns : RunShape(g)' /\ RunTrue(g)'
    BY <1>1, <1>2, RunsKept DEF GenRuns
  <1>5. MaterialTrue'
    BY <1>1, MaterialFrame
  <1>6. DriftTrue' /\ GateTrue'
    <2>1. CASE CompareTrees
      <3>1. UNCHANGED <<gate, look, found, still, data, fresh>> /\ drift = "running"
            /\ drift' = IF gpc["drift"] = "ok" /\ data = fresh THEN "passed" ELSE "failed"
        BY <2>1 DEF CompareTrees
      <3> QED BY <1>1, <1>2, <3>1, GateFrame DEF DriftTrue
    <2>2. CASE StartGate
      <3>1. UNCHANGED drift /\ gate' = "running" /\ look' = Watched \X {"tree", "rows"}
        BY <2>2 DEF StartGate
      <3>2. DriftTrue'
        BY <1>1, <1>2, <3>1, DriftFrame
      <3>3. Watched' = Watched
        BY <1>2 DEF Watched, DeclaredSlices, Copyleft
      <3> QED BY <3>1, <3>2, <3>3 DEF GateTrue
    <2>3. CASE LookNext
      <3>1. UNCHANGED <<drift, still>> /\ gate = "running"
        BY <2>3 DEF LookNext
      <3>2. DriftTrue'
        BY <1>1, <1>2, <3>1, DriftFrame
      <3>3. Watched' = Watched
        BY <1>2 DEF Watched, DeclaredSlices, Copyleft
      <3>4. \A u, what : Offends(u, what)' = Offends(u, what)
        BY <1>1, <1>2 DEF Offends, Present, Cites
      <3>5. CASE look = {}
        <4>1. gate' = (IF found THEN "failed" ELSE "passed") /\ UNCHANGED <<look, found>>
          BY <2>3, <3>5 DEF LookNext
        <4> QED BY <1>1, <3>1, <3>2, <3>3, <3>4, <3>5, <4>1 DEF GateTrue
      <3>6. CASE look # {}
        <4>1. PICK u, what : /\ found' = (found \/ Offends(u, what)) /\ gate' = gate
                            /\ look' = look \ {<<u, what>>}
          BY <2>3, <3>6 DEF LookNext
        <4> QED BY <1>1, <3>1, <3>2, <3>3, <3>4, <4>1 DEF GateTrue
      <3> QED BY <3>5, <3>6
    <2> QED BY <2>1, <2>2, <2>3
  <1> QED BY <1>3, <1>4, <1>5, <1>6 DEF TablesInv

(* The slice being cloned is one that is left. *)
LEMMA CloningIsLeft ==
  ASSUME left # {}, left \subseteq Known
  PROVE  Cloning \in left
  BY KnownUpstreams, FirstAmong DEF Cloning, Known

(* The materializer passes on from a slice only without its implementation. *)
LEMMA MaterialSteps ==
  ASSUME TablesInv, StartMaterialize \/ Clone \/ ApplyMode \/ AssertTests \/ KillMaterialize
  PROVE  TablesInv'
  <1>1. /\ UNCHANGED <<repo, data, fresh, runs, checks>> /\ TableTypes /\ MaterialTrue
        /\ \A r \in still' \cap {"gen", "drift", "gate"} : r \in still /\ slice' = slice
        /\ still' \ {"materialize"} \subseteq still
    BY DEF StartMaterialize, Clone, ApplyMode, AssertTests, KillMaterialize, Disturbs, TablesInv
  <1>2. UNCHANGED <<pinned, gens, licence, sparse, gpc, todo, stamp>> /\ Copyleft' = Copyleft
    BY <1>1 DEF repo, runs, Copyleft
  <1>3. FreshTrue' /\ DriftTrue' /\ GateTrue' /\ \A g \in GenRuns : RunShape(g)' /\ RunTrue(g)'
    BY <1>1, OthersKept
  <1>4. slice' \in [Upstreams -> [version : Nat, impl : BOOLEAN]] => TableTypes'
    BY <1>1, <1>2 DEF TableTypes
  <1>5. CASE StartMaterialize
    <2>1. mpc' = "clone" /\ left' = names' /\ names' \subseteq Upstreams /\ slice' = slice
      BY <1>5 DEF StartMaterialize, DeclaredSlices
    <2>2. MaterialTrue'
      BY <2>1, KnownUpstreams DEF MaterialTrue
    <2> QED BY <1>1, <1>3, <1>4, <2>1, <2>2 DEF TablesInv, TableTypes
  <1>6. CASE Clone
    <2>1. mpc = "clone" /\ left # {} /\ UNCHANGED <<names, left>>
      BY <1>6 DEF Clone
    <2>2. CASE mpc' = "failed" /\ UNCHANGED <<slice, still>>
      <3>1. MaterialTrue'
        BY <1>1, <2>1, <2>2 DEF MaterialTrue
      <3> QED BY <1>1, <1>3, <1>4, <2>2, <3>1 DEF TablesInv, TableTypes
    <2>3. CASE ~(mpc' = "failed" /\ UNCHANGED <<slice, still>>)
      <3>1. PICK u : u = Cloning
        OBVIOUS
      <3>2. /\ u \in DeclaredSlices /\ mpc' = "apply" /\ still' = still \cap {"materialize"}
            /\ slice' = [slice EXCEPT ![u] = [version |-> pinned[u], impl |-> TRUE]]
        BY <1>6, <2>3, <3>1 DEF Clone, Disturbs
      <3>3. u \in left /\ left \subseteq Known
        BY <1>1, <2>1, <3>1, CloningIsLeft DEF MaterialTrue
      <3>4. [version |-> pinned[u], impl |-> TRUE] \in [version : Nat, impl : BOOLEAN]
        BY <1>1, <3>2 DEF TableTypes, DeclaredSlices
      <3>5. slice' \in [Upstreams -> [version : Nat, impl : BOOLEAN]]
        BY <1>1, <3>2, <3>4 DEF TableTypes
      <3>6. \A v : v # u /\ v \in Upstreams => slice'[v] = slice[v]
        BY <1>1, <3>2 DEF TableTypes
      <3>7. MaterialTrue'
        BY <1>1, <1>2, <2>1, <3>2, <3>3, <3>6 DEF MaterialTrue, Copyleft
      <3> QED BY <1>3, <1>4, <3>5, <3>7 DEF TablesInv
    <2> QED BY <2>2, <2>3
  <1>7. CASE ApplyMode
    <2>1. mpc = "apply" /\ mpc' = "assert" /\ UNCHANGED <<names, left>>
      BY <1>7 DEF ApplyMode
    <2>2. CASE UNCHANGED <<slice, still>>
      <3>1. MaterialTrue'
        BY <1>1, <1>2, <2>1, <2>2 DEF MaterialTrue
      <3> QED BY <1>1, <1>3, <1>4, <2>2, <3>1 DEF TablesInv, TableTypes
    <2>3. CASE ~UNCHANGED <<slice, still>>
      <3>1. PICK u, wide : u = Cloning /\ wide = (sparse.patterns = "wide") /\ wide \in BOOLEAN
        OBVIOUS
      <3>2. /\ still' = still \cap {"materialize"}
            /\ slice' = [slice EXCEPT ![u] = [slice[u] EXCEPT !.impl = wide]]
        BY <1>7, <2>3, <3>1 DEF ApplyMode, Disturbs
      <3>3. u \in left
        BY <1>1, <2>1, <3>1, CloningIsLeft DEF MaterialTrue
      <3>4. u \in Upstreams => [slice[u] EXCEPT !.impl = wide] \in [version : Nat, impl : BOOLEAN]
        BY <1>1, <3>1 DEF TableTypes
      <3>5. slice' \in [Upstreams -> [version : Nat, impl : BOOLEAN]]
        BY <1>1, <3>2, <3>4 DEF TableTypes
      <3>6. \A v : v # u /\ v \in Upstreams => slice'[v] = slice[v]
        BY <1>1, <3>2 DEF TableTypes
      <3>7. MaterialTrue'
        BY <1>1, <1>2, <2>1, <3>2, <3>3, <3>6 DEF MaterialTrue, Copyleft
      <3> QED BY <1>3, <1>4, <3>5, <3>7 DEF TablesInv
    <2> QED BY <2>2, <2>3
  <1>8. CASE AssertTests
    <2>1. mpc = "assert" /\ UNCHANGED <<slice, names, still>>
      BY <1>8 DEF AssertTests
    <2>2. CASE Cloning \in DeclaredSlices \ {u \in Copyleft : slice[u].impl}
      <3>1. left' = left \ {Cloning} /\ mpc' = IF left # {Cloning} THEN "clone" ELSE "done"
        BY <1>8, <2>2 DEF AssertTests
      <3>2. MaterialTrue'
        BY <1>1, <1>2, <2>1, <2>2, <3>1 DEF MaterialTrue
      <3> QED BY <1>1, <1>3, <1>4, <2>1, <3>2 DEF TablesInv, TableTypes
    <2>3. CASE Cloning \notin DeclaredSlices \ {u \in Copyleft : slice[u].impl}
      <3>1. mpc' = "failed" /\ UNCHANGED left
        BY <1>8, <2>3 DEF AssertTests
      <3>2. MaterialTrue'
        BY <1>1, <2>1, <3>1 DEF MaterialTrue
      <3> QED BY <1>1, <1>3, <1>4, <2>1, <3>2 DEF TablesInv, TableTypes
    <2> QED BY <2>2, <2>3
  <1>9. CASE KillMaterialize
    <2>1. mpc' = "failed" /\ UNCHANGED <<slice, names, left, still>>
      BY <1>9 DEF KillMaterialize
    <2>2. MaterialTrue'
      BY <1>1, <2>1 DEF MaterialTrue
    <2> QED BY <1>1, <1>3, <1>4, <2>1, <2>2 DEF TablesInv, TableTypes
  <1> QED BY <1>5, <1>6, <1>7, <1>8, <1>9

(* What people change disturbs everyone, and stays of its type. *)
LEMMA EditStep ==
  ASSUME TablesInv, Edit
  PROVE  TablesInv'
  <1>1. /\ UNCHANGED <<fresh, runs, checks, material>> /\ still' = still \cap {"people"}
        /\ TableTypes /\ MaterialTrue
    BY DEF Edit, Disturbs, TablesInv
  <1>2. FreshTrue' /\ DriftTrue' /\ GateTrue' /\ \A g \in GenRuns : RunShape(g)' /\ RunTrue(g)'
    BY <1>1, OthersKept
  <1>3. MaterialTrue'
    BY <1>1, MaterialFrame
  <1>4. TableTypes'
    <2>1. UNCHANGED <<gpc, todo, stamp, fresh>>
      BY <1>1 DEF runs
    <2>2. CASE UNCHANGED <<pinned, gens, slice, data>>
      BY <1>1, <2>1, <2>2 DEF TableTypes
    <2>3. CASE /\ \E u \in Moving, tag \in (0..MaxTag) : tag # pinned[u] /\ pinned' = [pinned EXCEPT ![u] = tag]
               /\ UNCHANGED <<sparse, gens, licence, slice, data>>
      <3>1. PICK u \in Moving, tag \in (0..MaxTag) : pinned' = [pinned EXCEPT ![u] = tag]
        BY <2>3
      <3>2. tag \in Nat
        BY UpstreamAssumption
      <3>3. pinned' \in [Upstreams -> Nat]
        BY <1>1, <3>1, <3>2 DEF TableTypes
      <3> QED BY <1>1, <2>1, <2>3, <3>3 DEF TableTypes
    <2>4. CASE /\ \E u \in Moving \cup Blocked : gens' = IF u \in gens THEN gens \ {u} ELSE gens \cup {u}
               /\ UNCHANGED <<pinned, sparse, licence, slice, data>>
      <3>1. PICK u \in Moving \cup Blocked : gens' = IF u \in gens THEN gens \ {u} ELSE gens \cup {u}
        BY <2>4
      <3>2. u \in Known /\ u \notin Derived \ Moving
        BY UpstreamAssumption, KnownUpstreams DEF Derived, Blocked
      <3>3. gens' \subseteq Known /\ Derived \ Moving \subseteq gens'
        BY <1>1, <3>1, <3>2 DEF TableTypes
      <3> QED BY <1>1, <2>1, <2>4, <3>3 DEF TableTypes
    <2>5. CASE /\ \E u \in Moving : Present(u) /\ slice' = [slice EXCEPT ![u].version = 0]
               /\ UNCHANGED <<repo, data>>
      <3>1. PICK u \in Moving : slice' = [slice EXCEPT ![u] = [slice[u] EXCEPT !.version = 0]]
        BY <2>5
      <3>2. u \in Upstreams
        BY UpstreamAssumption
      <3>3. [slice[u] EXCEPT !.version = 0] \in [version : Nat, impl : BOOLEAN]
        BY <1>1, <3>2 DEF TableTypes
      <3>4. slice' \in [Upstreams -> [version : Nat, impl : BOOLEAN]]
        BY <1>1, <3>1, <3>3 DEF TableTypes
      <3> QED BY <1>1, <2>1, <2>5, <3>4 DEF TableTypes, repo
    <2>6. CASE /\ \E f \in Touched : EditData(f)
               /\ UNCHANGED <<repo, slice>>
      <3>1. PICK f, put : data' = [data EXCEPT ![f] = put]
        BY <2>6 DEF EditData
      <3>2. data' = [h \in DataFiles |-> data'[h]]
        BY <1>1, <3>1 DEF TableTypes
      <3> QED BY <1>1, <2>1, <2>6, <3>2 DEF TableTypes, repo
    <2> QED BY <2>2, <2>3, <2>4, <2>5, <2>6 DEF Edit
  <1> QED BY <1>2, <1>3, <1>4 DEF TablesInv

(* Nothing happens. *)
LEMMA TablesStutter ==
  ASSUME TablesInv, UNCHANGED tableVars
  PROVE  TablesInv'
  <1>1. UNCHANGED <<repo, slice, data, fresh, runs, checks, material, still>>
    BY DEF tableVars
  <1>2. FreshTrue' /\ DriftTrue' /\ GateTrue' /\ \A g \in GenRuns : RunShape(g)' /\ RunTrue(g)'
    BY <1>1, OthersKept
  <1>3. MaterialTrue'
    BY <1>1, MaterialFrame DEF TablesInv
  <1>4. TableTypes'
    BY <1>1 DEF TablesInv, TableTypes, repo, runs
  <1> QED BY <1>2, <1>3, <1>4 DEF TablesInv

(* What is derived and composed cites upstreams with a generator only. *)
LEMMA CitedIsGenerated ==
  ASSUME TablesAreComposed, SourcesAreDerived(Derived), NEW u, Cites(u)
  PROVE  u \in Derived
  <1>1. ASSUME NEW f \in Sources, NEW r \in data[f].rows PROVE r.of \in Derived
    <2>1. PICK v \in Derived : f \in {SourcesOf(v)[i] : i \in DOMAIN SourcesOf(v)}
      BY <1>1 DEF Sources
    <2>2. PICK now : data[f] = Written(RowsOf(v, f, now))
      BY <2>1 DEF SourcesAreDerived
    <2>3. r \in RowsOf(v, f, now)
      BY <1>1, <2>2 DEF Written
    <2> QED BY <2>3 DEF RowsOf, Row
  <1>2. ASSUME NEW t \in DOMAIN Plan, NEW r \in data[t].rows PROVE r.of \in Derived
    <2>1. data[t] = Written(Composed(t, data))
      BY DEF TablesAreComposed
    <2>2. r \in UNION {data[s].rows : s \in Plan[t] \cap Sources}
      BY <1>2, <2>1 DEF Written, Composed
    <2> QED BY <1>1, <2>2
  <1> QED BY <1>1, <1>2 DEF Cites, DataFiles

(* Every step keeps the invariant, *)
LEMMA TablesNextInv == TablesInv /\ [TablesNext]_tableVars => TablesInv'
  BY DeriveStep, WriteStep, ComposeStep, KillStep, StartGenerationStep, StartDriftStep, CheckSteps,
     MaterialSteps, EditStep, TablesStutter DEF TablesNext, GenRuns

(* which says all that a success stands for. *)
LEMMA VouchedTables == TablesInv => TablesAreVouched
  <1> SUFFICES ASSUME TablesInv PROVE TablesAreVouched
    OBVIOUS
  <1>0. GenRuns = {"gen", "drift"} /\ Dir("gen") = data /\ Dir("drift") = fresh
    BY DEF GenRuns, Dir
  <1>1. ASSUME NEW g \in GenRuns, gpc[g] = "ok", g \in still, Dir(g) = data
        PROVE  TablesAreComposed /\ SourcesAreDerived(gens)
               /\ \A u \in gens : u \in Derived /\ u \in DeclaredSlices
    <2>1. SourcesMade(g) /\ TablesMade(g)
      BY <1>1 DEF TablesInv, RunTrue
    <2>2. Underived(g) = {} /\ Uncomposed(g) = {}
      BY <1>1 DEF Underived, Uncomposed, Deriving
    <2> QED BY <1>1, <2>1, <2>2 DEF SourcesMade, TablesMade, MadeFile, Now, TablesAreComposed, SourcesAreDerived
  <1>2. gpc["gen"] = "ok" /\ Unmixed("gen") => TablesAreComposed /\ SourcesAreDerived(gens)
    BY <1>0, <1>1 DEF Unmixed
  <1>3. mpc = "done" /\ Unmixed("materialize") => \A u \in names \cap Copyleft : ~slice[u].impl
    BY DEF TablesInv, MaterialTrue, Unmixed
  <1>4. ASSUME drift = "passed", gate = "passed", {"drift", "gate"} \subseteq still
        PROVE  /\ TablesAreComposed /\ SourcesAreDerived(Derived)
               /\ \A u \in Copyleft : ~Cites(u) /\ (Present(u) /\ u \in DeclaredSlices => ~slice[u].impl)
    <2>1. gpc["drift"] = "ok" /\ data = fresh /\ "drift" \in GenRuns
      BY <1>0, <1>4 DEF TablesInv, DriftTrue
    <2>2. TablesAreComposed /\ SourcesAreDerived(gens) /\ \A u \in gens : u \in Derived /\ u \in DeclaredSlices
      BY <1>0, <1>1, <1>4, <2>1
    <2>3. Derived \subseteq gens
      <3> SUFFICES ASSUME NEW u \in Derived, u \notin gens PROVE FALSE
        OBVIOUS
      <3>1. PICK t \in DOMAIN Plan, i \in DOMAIN SourcesOf(u) : SourcesOf(u)[i] \in Plan[t] \cap Sources
        BY SourceIsUsed
      <3>2. data[SourcesOf(u)[i]].kind = "rows"
        BY <2>2, <3>1 DEF TablesAreComposed, Readable
      <3>3. data[SourcesOf(u)[i]] = NoFile
        BY <1>4, <2>1 DEF TablesInv, FreshTrue
      <3> QED BY <3>2, <3>3 DEF NoFile
    <2>4. SourcesAreDerived(Derived)
      BY <2>2, <2>3 DEF SourcesAreDerived
    <2>5. ASSUME NEW u \in Watched PROVE ~Offends(u, "tree") /\ ~Offends(u, "rows")
      BY <1>4 DEF TablesInv, GateTrue
    <2>6. ASSUME NEW u \in Copyleft PROVE ~Cites(u)
      <3> SUFFICES ASSUME Cites(u) PROVE FALSE
        OBVIOUS
      <3>1. u \in gens /\ u \in DeclaredSlices
        BY <2>2, <2>3, <2>4, CitedIsGenerated
      <3>2. u \in Watched
        BY <2>6, <3>1 DEF Watched
      <3> QED BY <2>5, <3>2 DEF Offends
    <2>7. ASSUME NEW u \in Copyleft, Present(u), u \in DeclaredSlices PROVE ~slice[u].impl
      <3>1. u \in Watched
        BY <2>7 DEF Watched
      <3> QED BY <2>5, <2>7, <3>1 DEF Offends
    <2> QED BY <2>2, <2>4, <2>6, <2>7
  <1> QED BY <1>2, <1>3, <1>4 DEF TablesAreVouched

(* Whatever is edited, killed or run beside it: a generation that succeeds   *)
(* and that nobody disturbed leaves row sets of the worktrees under their    *)
(* pins and tables of them; a materializer that does leaves no copyleft      *)
(* implementation; and when both gates pass over a checkout that nobody      *)
(* changed, data/ is whole, derived and cites no copyleft upstream.          *)
THEOREM TablesAlwaysVouched == TablesSpec => []TablesAreVouched
  BY TablesInitial, TablesNextInv, VouchedTables, PTL DEF TablesSpec
=============================================================================
