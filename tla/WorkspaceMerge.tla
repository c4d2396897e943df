--------------------------- MODULE WorkspaceMerge ---------------------------
(***************************************************************************)
(* The structured files a member shares with the fleet: the workspace file *)
(* (pnpm-workspace.yaml), the Claude settings and the scripts of           *)
(* package.json.  Every install merges the fleet's part in again; the      *)
(* prepare doctor repairs the workspace file on its own.  A workspace file *)
(* has blocks under its top-level keys: under each key those that have it, *)
(* in their order.  A block is the entries it lists, or one it cannot be   *)
(* told entries from (a scalar, an empty or unindented list).              *)
(***************************************************************************)
EXTENDS Naturals, Sequences, FiniteSets, SequencesExt

CONSTANTS Bundle,       \* the workspace file the pack ships
          FleetKeys,    \* workspaceSegment.fleetKeys
          Package,      \* packageNameFromSpec: what an entry is called -> its package
          Conditional,  \* dependencies of conditionalScopedFiles
          FleetPackages,\* FLEET_WORKSPACE_PACKAGES
          Workspaces,   \* workspace files members have
          FleetSettings, MemberSettings,  \* [keys, hooks], likewise
          Prepares,     \* prepare scripts members have, sequences of commands
          MaxMerges     \* bound on the merges, repairs and edits

VARIABLES yaml,       \* the workspace file
          config,     \* the drift exemptions of the fleet's config file
          declared, locked,      \* dependencies of package.json, of the lockfile
          settings, prepareScript,
          carried,    \* the migrated file a merge holds in memory
          mergeStep, merges, fresh,
          own,        \* <<key, id>> of the entries the member wrote
          dropped,    \* dependencies a merge found unused
          settingsAtFirst, prepareAtFirst

mergeVars == <<yaml, config, declared, locked, settings, prepareScript, carried, mergeStep, merges,
               fresh, own, dropped, settingsAtFirst, prepareAtFirst>>

Entries == [id : DOMAIN Package, text : {"fleet", "own"}]
Block(entries, flat) == [entries |-> entries, flat |-> flat]
Ids(block) == {e.id : e \in block.entries}
Mergeable(block) == ~block.flat /\ block.entries # {}

Under(file, key) == IF key \in DOMAIN file THEN file[key] ELSE <<>>
Without(file, keys) == [key \in DOMAIN file \ keys |-> file[key]]
Repeated(file, key) == \E i, j \in DOMAIN Under(file, key) : i # j

RetiredFlags == {"confirmModulesPurge", "managePackageManagerVersions"}
Exempt  == "catalogDriftIgnore"
Patches == "patchedDependencies"

(* The retired flags are scalars, the patches are listed once, the doctor has *)
(* packages to see to, and the fleet's settings carry their markers           *)
(* (fleetSettingsKeys refuses others).                                        *)
ASSUME WorkspaceAssumption ==
  \A file \in Workspaces \cup {Bundle} :
    /\ \A key \in DOMAIN file :
         /\ file[key] \in Seq([entries : SUBSET Entries, flat : BOOLEAN]) \ {<<>>}
         /\ key \in RetiredFlags => \A block \in Range(file[key]) : ~Mergeable(block)
    /\ ~Repeated(file, Patches)
ASSUME PackagesAssumption == FleetPackages # {} /\ FleetPackages \cup {"later"} \subseteq DOMAIN Package
ASSUME SettingsAssumption ==
  /\ {"<fleet>", "</fleet>"} \subseteq FleetSettings.keys
  /\ Prepares \subseteq Seq((UNION {Range(script) : script \in Prepares}) \cup {"prepare"})

(***************************************************************************)
(* migrateWorkspaceSettings: retired keys leave the workspace file, and    *)
(* the drift exemptions among them go to the config.                       *)
(***************************************************************************)
Migratable(file) ==
  /\ ~Repeated(file, Exempt)
  /\ \A block \in Range(Under(file, Exempt)) : ~block.flat \/ block.entries = {}
  /\ \A key \in RetiredFlags : \A block \in Range(Under(file, key)) : Ids(block) \subseteq {"true", "false"}
  /\ Exempt \in DOMAIN file => config # {"malformed"}
MigratedYaml(file) == Without(file, RetiredFlags \cup {Exempt})
MigratedConfig(file) == config \cup UNION {Ids(block) : block \in Range(Under(file, Exempt))}

(***************************************************************************)
(* prepareWorkspacePatchMerge: patches of packages nothing depends on, and *)
(* the member's patches of packages the fleet patches, are left out.       *)
(***************************************************************************)
Requires(dependency) == dependency \in declared \cup locked
Inactive == {d \in Conditional : ~Requires(d)}

(* The first block of the patches is the one that is read. *)
Patching(file) == Patches \in DOMAIN file /\ Mergeable(file[Patches][1])
FilterPatches(file, without) ==
  LET kept == {e \in file[Patches][1].entries : Package[e.id] \notin without}
      rest == IF kept = {} THEN Tail(file[Patches])
              ELSE [file[Patches] EXCEPT ![1] = Block(kept, FALSE)]
  IN IF ~Patching(file) THEN file
     ELSE IF rest = <<>> THEN Without(file, {Patches})
     ELSE [file EXCEPT ![Patches] = rest]

FleetPatched == IF Patching(Bundle) THEN {Package[e.id] : e \in Bundle[Patches][1].entries} ELSE {}
ActiveBundle == FilterPatches(Bundle, Inactive)
PatchedConsumer(file) == FilterPatches(file, FleetPatched \cup Inactive)

(***************************************************************************)
(* mergeYamlKeyBlock, mergeWorkspaceYaml                                   *)
(***************************************************************************)
\* A mutant of MergedBlock: the pack's block replaces the member's.
MergedBlockWhole(shipped, consumer) == shipped
MergedBlock(shipped, consumer) ==
  IF ~Mergeable(shipped) \/ ~Mergeable(consumer) THEN shipped
  ELSE Block(shipped.entries \cup {e \in consumer.entries : e.id \notin Ids(shipped)}, FALSE)

Unmergeable(file) == \E key \in FleetKeys : Repeated(file, key)
MergedYaml(file, bundle) ==
  LET shipped == FleetKeys \cap DOMAIN bundle
  IN [key \in DOMAIN file \cup shipped |->
        IF key \notin shipped THEN file[key]
        ELSE IF key \notin DOMAIN file THEN <<Last(bundle[key])>>
        ELSE [i \in DOMAIN file[key] |-> MergedBlock(Last(bundle[key]), file[key][i])]]

(* ensureWorkspacePackages: missing globs join the first indented list of *)
(* `packages`, or a new one before everything else.                       *)
RepairedPackages(file) ==
  LET blocks  == Under(file, "packages")
      lists   == {i \in DOMAIN blocks : ~blocks[i].flat}
      first   == CHOOSE i \in lists : \A j \in lists : i <= j
      missing(present) == {[id |-> g, text |-> "fleet"] : g \in FleetPackages \ present}
      listed  == Block(blocks[first].entries \cup missing(Ids(blocks[first])), FALSE)
      repaired == IF lists = {} THEN <<Block(missing({}), FALSE)>> \o blocks
                  ELSE [blocks EXCEPT ![first] = listed]
  IN [key \in DOMAIN file \cup {"packages"} |-> IF key = "packages" THEN repaired ELSE file[key]]

(***************************************************************************)
(* mergeClaudeSettings: the fleet's keys, the member's other keys and the  *)
(* member's hooks kept under hooks/repo; a host that launches an event its *)
(* own way keeps that.                                                     *)
(***************************************************************************)
WiredEvents(given) == {h.event : h \in {x \in given.hooks : x.command = "launcher"}}
RepoHooks(given) == {h \in given.hooks : h.command \in {"repo", "repo2"}}
Dispatched(hooks, wired) ==
  IF wired = {} THEN hooks
  ELSE {IF h.command \in {"launcher", "dispatch"}
        THEN [event |-> h.event, matcher |-> h.matcher,
              command |-> IF h.event \in wired THEN "launcher" ELSE "dispatch"]
        ELSE h : h \in hooks}
MergedSettings(given) ==
  [keys  |-> FleetSettings.keys \cup (given.keys \ {"<fleet>", "</fleet>", "legacy env"}),
   hooks |-> Dispatched(FleetSettings.hooks \cup RepoHooks(given), WiredEvents(given))]

(* wirePackageJson *)
Wired(script) == IF script # <<>> /\ script[1] = "prepare" THEN script ELSE <<"prepare">> \o script

(***************************************************************************)
(* The steps.                                                              *)
(***************************************************************************)
MemberEntries(file) ==
  UNION {{<<key, e.id>> : e \in {x \in UNION {b.entries : b \in {c \in Range(file[key]) : ~c.flat}} :
                                   x.text = "own"}} : key \in DOMAIN file}

MergeInit ==
  /\ yaml \in Workspaces /\ config \in {{}, {"x"}, {"malformed"}}
  /\ declared \in SUBSET Conditional /\ locked = {}
  /\ settings \in MemberSettings /\ prepareScript \in Prepares
  /\ carried = <<>> /\ mergeStep = "idle" /\ merges = 0 /\ fresh = FALSE
  /\ own = MemberEntries(yaml) /\ dropped = {}
  /\ settingsAtFirst = settings /\ prepareAtFirst = prepareScript

Count == merges < MaxMerges /\ merges' = merges + 1

(* installWorkspaceSegment and hydrateWorkspace: the config is written while *)
(* the workspace file still is the old one.                                  *)
MigrateSettings ==
  /\ mergeStep = "idle" /\ Count
  /\ \E who \in {"merge", "doctor"} :
       /\ mergeStep' = IF Migratable(yaml) THEN who ELSE "idle"
       /\ config' = IF Migratable(yaml) /\ Exempt \in DOMAIN yaml THEN MigratedConfig(yaml) ELSE config
       /\ carried' = IF Migratable(yaml) THEN MigratedYaml(yaml) ELSE <<>>
  /\ UNCHANGED <<yaml, declared, locked, settings, prepareScript, fresh, own, dropped,
                 settingsAtFirst, prepareAtFirst>>

MergeWorkspace ==
  /\ mergeStep = "merge"
  /\ LET patched == PatchedConsumer(carried)
     IN yaml' = IF Unmergeable(patched) THEN yaml ELSE MergedYaml(patched, ActiveBundle)
  /\ fresh' = ~Unmergeable(PatchedConsumer(carried))
  /\ dropped' = dropped \cup Inactive
  /\ carried' = <<>> /\ mergeStep' = "idle"
  /\ UNCHANGED <<config, declared, locked, settings, prepareScript, merges, own,
                 settingsAtFirst, prepareAtFirst>>

RepairWorkspace ==
  /\ mergeStep = "doctor" /\ mergeStep' = "idle" /\ carried' = <<>>
  /\ yaml' = RepairedPackages(carried)
  /\ UNCHANGED <<config, declared, locked, settings, prepareScript, merges, fresh, own, dropped,
                 settingsAtFirst, prepareAtFirst>>

DieInMerge ==
  /\ mergeStep # "idle" /\ mergeStep' = "idle" /\ carried' = <<>>
  /\ yaml' \in IF mergeStep = "doctor" THEN {yaml, carried} ELSE {yaml}  \* written, not repaired
  /\ UNCHANGED <<config, declared, locked, settings, prepareScript, own, settingsAtFirst,
                 prepareAtFirst, merges, fresh, dropped>>

MergeSettingsAndScripts ==
  /\ mergeStep = "idle" /\ Count
  /\ settings' = MergedSettings(settings) /\ prepareScript' = Wired(prepareScript)
  /\ UNCHANGED <<yaml, config, declared, locked, carried, mergeStep, fresh, own, dropped,
                 settingsAtFirst, prepareAtFirst>>

(* The member adds an entry to a list, or changes its dependencies. *)
EditWorkspace ==
  /\ mergeStep = "idle" /\ Count
  /\ \/ \E key \in DOMAIN yaml : \E i \in DOMAIN yaml[key] :
          /\ Mergeable(yaml[key][i]) /\ "later" \notin Ids(yaml[key][i])
          /\ yaml' = [yaml EXCEPT ![key] = [@ EXCEPT ![i] =
                        Block(yaml[key][i].entries \cup {[id |-> "later", text |-> "own"]}, FALSE)]]
          /\ own' = own \cup {<<key, "later">>}
          /\ fresh' = (fresh /\ key # Patches)
          /\ UNCHANGED <<declared, locked>>
     \/ /\ declared' \in SUBSET Conditional /\ locked' \in {declared, declared'} /\ fresh' = FALSE
        /\ UNCHANGED <<yaml, own>>
  /\ UNCHANGED <<config, settings, prepareScript, carried, mergeStep, dropped,
                 settingsAtFirst, prepareAtFirst>>

MergeNext == MigrateSettings \/ MergeWorkspace \/ RepairWorkspace \/ DieInMerge
               \/ MergeSettingsAndScripts \/ EditWorkspace

MergeSpec == MergeInit /\ [][MergeNext]_mergeVars

(***************************************************************************)
(* What a member keeps.                                                    *)
(***************************************************************************)
InYaml(key, id) == \E block \in Range(Under(yaml, key)) : id \in Ids(block)
ReplacedWhole(key) ==
  key \in FleetKeys /\ \E block \in Range(Under(Bundle, key)) : ~Mergeable(block)

(* mergeWorkspaceYaml, migrateWorkspaceSettings and ensureWorkspacePackages, in *)
(* any order, cut short anywhere, lose no entry a member wrote: it is in the    *)
(* workspace file under its key, or in the config if it was an exemption.  Only *)
(* a patch the fleet makes itself, one of a dependency nothing uses, and what   *)
(* cannot be told entries from under a key of the fleet's give way.             *)
EntriesSurvive ==
  \A entry \in own :
    LET key == entry[1]
        id  == entry[2]
    IN \/ InYaml(key, id)
       \/ key = Exempt /\ id \in config
       \/ ReplacedWhole(key)
       \/ key = Patches /\ Package[id] \in FleetPatched \cup dropped

(* After a merge the fleet's patches are those of the dependencies in use. *)
PatchesFollowGraph ==
  fresh => \A block \in Range(Under(yaml, Patches)) :
             ~block.flat => \A e \in block.entries : Package[e.id] \notin Inactive

(* Registrations of the member's own hooks, its other settings and the launcher *)
(* it chose outlive every merge, and so do the commands of its prepare script.  *)
SettingsSurvive ==
  /\ RepoHooks(settingsAtFirst) \subseteq settings.hooks
  /\ settingsAtFirst.keys \ {"legacy env"} \subseteq settings.keys
  /\ WiredEvents(settingsAtFirst) \cap {h.event : h \in {x \in FleetSettings.hooks : x.command = "dispatch"}}
       \subseteq WiredEvents(settings)
  /\ prepareScript \in {prepareAtFirst, <<"prepare">> \o prepareAtFirst}

EntriesAreKept == EntriesSurvive /\ PatchesFollowGraph /\ SettingsSurvive
=============================================================================
