--------------------------- MODULE PrepareDoctor ---------------------------
(***************************************************************************)
(* The prepare doctor (prepare.mts) hydrates a checkout and installs its   *)
(* dependencies.  Plainly it hydrates and installs.  With --pipeline it    *)
(* fingerprints what an install reads and lets pnpm install; pnpm starts a *)
(* second doctor, which hydrates again and compares the fingerprint.  An   *)
(* editor and the session kernel change the same files meanwhile.  The     *)
(* fingerprint is of the bytes: a file that is changed and put back, by    *)
(* whomever, has the fingerprint it had.                                   *)
(***************************************************************************)
EXTENDS Naturals, Sequences, FiniteSets

CONSTANTS Ecosystem,  \* Cargo.toml, pyproject.toml, ...: read behind identity checks
          Plain,      \* package.json and the manifests of the workspace packages
          Wordings,   \* what a file may say
          MaxChanges  \* bound on the changes others make

Inputs == Ecosystem \cup Plain \cup {"workspace"}
Doctors == {"outer", "inner"}
OuterArgs == {"plain", "hydrate-only", "pipeline", "both", "help", "dashes"}
Strict(mode) == mode # "plain"

(* Of the workspace file it matters that it has retired keys and that it lacks *)
(* packages of the fleet.                                                      *)
InputFiles == [text : Wordings, retired : BOOLEAN, lacking : BOOLEAN]
FilesOf(i) == IF i = "workspace" THEN InputFiles ELSE {f \in InputFiles : ~f.retired /\ ~f.lacking}

VARIABLES content,   \* input -> file
          folder,    \* the directory that holds the ecosystem files
          owns,      \* pnpm's config claims the ecosystem files
          fetcher,   \* fleet.mjs is beside the doctor
          args, at,  \* per doctor: what it was asked, where it is
          held,      \* per doctor: the workspace file it has read to repair it
          captured,  \* per doctor: the directory its scan recorded
          statted,   \* per doctor: the input and the file lstat saw, or <<>>
          prints,    \* per doctor: input -> the file its fingerprint has read, or <<>>
          installed, \* input -> the file the last install has read, or <<>>
          putBack,   \* history: inputs that again became what the outer doctor had read
          result, changes

doctorVars == <<content, folder, owns, fetcher, args, at, held, captured, statted, prints,
                installed, putBack, result, changes>>
checkout == <<content, folder, putBack>>
reading  == <<captured, statted, prints>>
setting  == <<owns, fetcher, args>>

Nothing == [i \in Inputs |-> <<>>]
Goes(d, to) == at' = [at EXCEPT ![d] = to]
Printed == Plain \cup {"workspace"} \cup IF owns THEN Ecosystem ELSE {}

(* What is written, and whether that is what the first fingerprint was of. *)
Saves(files) ==
  /\ content' = files
  /\ putBack' = putBack \cup {i \in Inputs : files[i] # content[i] /\ prints["outer"][i] = <<files[i]>>}
Save(i, file) == Saves([content EXCEPT ![i] = file])
Changes(where) == \E i \in where : \E file \in FilesOf(i) : Save(i, file)

DoctorInit ==
  /\ \E text \in Wordings, retired, lacking \in BOOLEAN :
       content = [i \in Inputs |-> [text |-> text, retired |-> retired /\ i = "workspace",
                                   lacking |-> lacking /\ i = "workspace"]]
  /\ folder = "first" /\ owns \in BOOLEAN /\ fetcher \in BOOLEAN
  /\ args \in [Doctors -> OuterArgs \cup {"expected"}]
  /\ args["outer"] # "expected" /\ args["inner"] = "expected"
  /\ at = [outer |-> "start", inner |-> "off"]
  /\ held = [d \in Doctors |-> <<>>]
  /\ captured = [d \in Doctors |-> "none"] /\ statted = [d \in Doctors |-> <<>>]
  /\ prints = [d \in Doctors |-> Nothing] /\ installed = Nothing /\ putBack = {}
  /\ result = [d \in Doctors |-> "none"] /\ changes = 0

Ends(d, code) == result' = [result EXCEPT ![d] = code] /\ Goes(d, "ended")

(* runMainMinimal: help runs nothing, a bare double dash is refused. *)
StartDoctor(d) ==
  /\ at[d] = "start"
  /\ CASE args[d] = "help"               -> Ends(d, "0")
       [] args[d] \in {"dashes", "both"} -> Ends(d, "1")
       [] OTHER                          -> Goes(d, "fetch") /\ result' = result
  /\ UNCHANGED <<checkout, setting, held, reading, installed, changes>>

(***************************************************************************)
(* hydrateWorkspace: it reads before it writes, and others write between.  *)
(***************************************************************************)
(* fleet.mjs places a pack file by file: another text than before, or again *)
(* the one an editor had changed.                                           *)
PlaceInput(d) ==
  /\ at[d] = "fetch" /\ fetcher /\ changes < MaxChanges /\ changes' = changes + 1
  /\ \E i \in Plain \cup {"workspace"} : \E file \in FilesOf(i) :
       /\ file.retired => content[i].retired
       /\ file.lacking => content[i].lacking
       /\ Save(i, file)
  /\ UNCHANGED <<folder, setting, at, held, reading, installed, result>>

(* migrateRuleFile may fail; the plain doctor goes on without a pack. *)
FetchBundle(d) ==
  /\ at[d] = "fetch"
  /\ \/ fetcher /\ Goes(d, "settings") /\ result' = result
     \/ IF Strict(args[d]) THEN Ends(d, "1") ELSE Goes(d, "settings") /\ result' = result
     \/ Ends(d, "1")   \* the rule files cannot be migrated
  /\ UNCHANGED <<checkout, setting, held, reading, installed, changes>>

(* The workspace file is read and tested for retired keys. *)
ReadSettings(d) ==
  /\ at[d] = "settings" /\ held' = [held EXCEPT ![d] = <<content["workspace"]>>]
  /\ Goes(d, IF content["workspace"].retired THEN "migrate" ELSE "repair")
  /\ UNCHANGED <<checkout, setting, reading, installed, result, changes>>

(* The retired keys leave what was read, after fleet.mjs was loaded. *)
MigrateWorkspace(d) ==
  /\ at[d] = "migrate"
  /\ \/ /\ fetcher /\ Save("workspace", [held[d][1] EXCEPT !.retired = FALSE])
        /\ Goes(d, "repair") /\ result' = result
     \/ UNCHANGED <<content, putBack>> /\ Ends(d, "1")   \* malformed exemptions, or no fleet.mjs to load
  /\ UNCHANGED <<folder, setting, held, reading, installed, changes>>

Hydrated(d) ==
  IF args[d] = "hydrate-only" THEN Ends(d, "0")
  ELSE Goes(d, IF args[d] = "plain" THEN "install" ELSE "scan") /\ result' = result

ReadPackages(d) ==
  /\ at[d] = "repair" /\ held' = [held EXCEPT ![d] = <<content["workspace"]>>]
  /\ IF content["workspace"].lacking THEN Goes(d, "mend") /\ result' = result ELSE Hydrated(d)
  /\ UNCHANGED <<checkout, setting, reading, installed, changes>>

RepairPackages(d) ==
  /\ at[d] = "mend" /\ Save("workspace", [held[d][1] EXCEPT !.lacking = FALSE])
  /\ Hydrated(d)
  /\ UNCHANGED <<folder, setting, held, reading, installed, changes>>

(***************************************************************************)
(* workspaceInstallFingerprint                                             *)
(***************************************************************************)
Unread(d) == {i \in Printed : prints[d][i] = <<>>}
Note(d, i) == prints' = [prints EXCEPT ![d][i] = <<content[i]>>]

(* pnpm's config and the walk for the ecosystem files; either may fail, or find *)
(* too many entries.                                                            *)
ScanEcosystem(d) ==
  /\ at[d] = "scan"
  /\ \/ captured' = [captured EXCEPT ![d] = folder] /\ Goes(d, "read") /\ result' = result
     \/ captured' = captured /\ Ends(d, "1")
  /\ UNCHANGED <<checkout, setting, held, statted, prints, installed, changes>>

(* readPnpmInput: the directory must be the one recorded, before and after. *)
StatInput(d) ==
  /\ at[d] = "read" /\ statted[d] = <<>>
  /\ \E i \in Unread(d) \cap Ecosystem :
       IF folder = captured[d]
         THEN statted' = [statted EXCEPT ![d] = <<i, content[i]>>] /\ UNCHANGED <<at, result>>
         ELSE statted' = statted /\ Ends(d, "1")
  /\ UNCHANGED <<checkout, setting, held, captured, prints, installed, changes>>

(* A file that changed under its lstat is refused, unless it kept its size and *)
(* inode: then its new bytes are read.                                         *)
ReadInput(d) ==
  /\ at[d] = "read" /\ statted[d] # <<>>
  /\ \E i \in Unread(d) \cap Ecosystem :
       /\ statted[d][1] = i
       /\ \/ folder = captured[d] /\ Note(d, i) /\ UNCHANGED <<at, result>>
          \/ (folder # captured[d] \/ content[i] # statted[d][2]) /\ prints' = prints /\ Ends(d, "1")
  /\ statted' = [statted EXCEPT ![d] = <<>>]
  /\ UNCHANGED <<checkout, setting, held, captured, installed, changes>>

ReadPlain(d) ==
  /\ at[d] = "read" /\ Unread(d) \cap Ecosystem = {}
  /\ \E i \in Unread(d) : Note(d, i)
  /\ UNCHANGED <<checkout, setting, held, at, captured, statted, installed, result, changes>>

(* A mutant of EndFingerprint: the inner doctor compares the ecosystem files only. *)
EndFingerprintPartly(d) ==
  /\ at[d] = "read" /\ Unread(d) = {}
  /\ IF d = "inner"
       THEN Ends(d, IF \A i \in Ecosystem : prints["inner"][i] = prints["outer"][i] THEN "0" ELSE "1")
       ELSE Goes(d, "install") /\ result' = result
  /\ UNCHANGED <<checkout, setting, held, reading, installed, changes>>

(* The outer doctor starts the pipeline with its fingerprint, unless the package *)
(* scripts lack the build task; the inner one compares.                          *)
EndFingerprint(d) ==
  /\ at[d] = "read" /\ Unread(d) = {}
  /\ IF d = "inner" THEN Ends(d, IF prints["inner"] = prints["outer"] THEN "0" ELSE "1")
     ELSE \/ Goes(d, "install") /\ result' = result
          \/ Ends(d, "1")
  /\ UNCHANGED <<checkout, setting, held, reading, installed, changes>>

(***************************************************************************)
(* The install: pnpm reads its inputs one by one.                          *)
(***************************************************************************)
InstallRead ==
  /\ at["outer"] = "install"
  /\ \E i \in {j \in Inputs : installed[j] = <<>>} : installed' = [installed EXCEPT ![i] = <<content[i]>>]
  /\ UNCHANGED <<checkout, setting, held, reading, at, result, changes>>

InstallEnds ==
  /\ at["outer"] = "install"
  /\ \/ /\ \A i \in Inputs : installed[i] # <<>>
        /\ IF args["outer"] = "pipeline"
             THEN at' = [at EXCEPT !["outer"] = "pipeline", !["inner"] = "start"] /\ result' = result
             ELSE Ends("outer", "0")
     \/ Ends("outer", "1")
  /\ UNCHANGED <<checkout, setting, held, reading, installed, changes>>

(* The pipeline passes when its lifecycle script and its tasks do. *)
PipelineEnds ==
  /\ at["outer"] = "pipeline" /\ at["inner"] = "ended"
  /\ \/ result["inner"] = "0" /\ Ends("outer", "0")
     \/ Ends("outer", "1")
  /\ UNCHANGED <<checkout, setting, held, reading, installed, changes>>

(***************************************************************************)
(* Others: an editor, a replaced directory, and a session that starts and  *)
(* has fleet.mjs bring the payload up to date (fetch-session.mts).         *)
(***************************************************************************)
EditInput ==
  /\ changes < MaxChanges /\ changes' = changes + 1
  /\ Changes(Inputs)
  /\ UNCHANGED <<folder, setting, held, reading, at, installed, result>>

(* Another directory is put in place, or the one that was there before. *)
ReplaceFolder ==
  /\ changes < MaxChanges /\ changes' = changes + 1
  /\ folder' \in {"first", "second"} \ {folder}
  /\ \E text \in Wordings :
       Saves([i \in Inputs |-> IF i \in Ecosystem THEN [content[i] EXCEPT !.text = text] ELSE content[i]])
  /\ UNCHANGED <<setting, held, reading, at, installed, result>>

EnsurePayload ==
  /\ fetcher /\ changes < MaxChanges /\ changes' = changes + 1
  /\ Changes(Plain)
  /\ UNCHANGED <<folder, setting, held, reading, at, installed, result>>

DoctorNext ==
  \/ \E d \in Doctors :
       StartDoctor(d) \/ PlaceInput(d) \/ FetchBundle(d) \/ ReadSettings(d) \/ MigrateWorkspace(d)
         \/ ReadPackages(d) \/ RepairPackages(d) \/ ScanEcosystem(d) \/ StatInput(d) \/ ReadInput(d)
         \/ ReadPlain(d) \/ EndFingerprint(d)
  \/ InstallRead \/ InstallEnds \/ PipelineEnds
  \/ EditInput \/ ReplaceFolder \/ EnsurePayload

DoctorSpec == DoctorInit /\ [][DoctorNext]_doctorVars

(* When the pipeline passes, an input the install has read otherwise than the *)
(* fingerprint of the outer doctor was put back in between, by an editor, a   *)
(* session or the hydration of the inner doctor, which runs before the        *)
(* comparison: no change that lasted escapes, whoever wrote before, between   *)
(* and after.  And unless the workspace file was put back, the one that was   *)
(* installed has been through the repairs, although an editor may spoil it    *)
(* after the outer doctor has repaired it: the repair of the inner doctor is  *)
(* then what the comparison sees.                                             *)
InstallSeesItsInputs ==
  result["outer"] = "0" /\ args["outer"] = "pipeline" =>
    /\ \A i \in Printed \ putBack : installed[i] = prints["outer"][i]
    /\ "workspace" \notin putBack =>
         ~installed["workspace"][1].retired /\ ~installed["workspace"][1].lacking
=============================================================================
