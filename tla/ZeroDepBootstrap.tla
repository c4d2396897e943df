-------------------------- MODULE ZeroDepBootstrap --------------------------
(***************************************************************************)
(* The foundation packages put into node_modules before pnpm exists        *)
(* (scripts/fleet/setup/bootstrap/zero-dep-packages.mjs with the helpers   *)
(* of setup/lib): any number of bootstraps of one checkout, each a process *)
(* that may be killed, while the project's pins and lockfile are edited.   *)
(***************************************************************************)
EXTENDS Naturals, Sequences

CONSTANTS Bootstraps,
          Foundation,       \* FOUNDATION_PACKAGES, in order
          Projects,         \* the states the repository's own files may have
          Registry,         \* the tarballs npm may answer with
          Flagged,          \* the pins the firewall knows as malware
          Leftovers,        \* what node_modules may hold of a package at the start
          Null, Placeholder,
          MaxBumps,         \* bound: edits of the project
          MaxStopped        \* bound: bootstraps killed

(* The two things the proofs take from the constants. *)
ASSUME FoundationAssumption ==
    /\ Foundation \in Seq({Foundation[i] : i \in DOMAIN Foundation})
    /\ Leftovers \subseteq [dir : BOOLEAN, json : BOOLEAN, whole : BOOLEAN,
                            of : {x.of : x \in Leftovers}]

VARIABLES project, past,    \* the repository's files, and all they have been
          modules,          \* node_modules, per package
          zpc, at, told, chosen, sri, stage,
          shredded,         \* packages of which a bootstrap deleted an installed copy
          bumps, stopped
zvars == <<project, past, modules, zpc, at, told, chosen, sri, stage, shredded, bumps, stopped>>

Packages == {Foundation[i] : i \in DOMAIN Foundation}
Fields == {"dependencies", "devDependencies", "optionalDependencies", "peerDependencies"}

(* A package directory; json: its package.json is there; of: its tarball. *)
Gone == [dir |-> FALSE, json |-> FALSE, whole |-> FALSE, of |-> Null]
Copy(tarball) == [dir |-> TRUE, json |-> TRUE, whole |-> TRUE, of |-> tarball]

(* isDeclaredDependency: any of the four fields, placeholders included. *)
Declared(prj, p) == \E f \in Fields : prj.literal[p][f] # Null

(* Mutated: the directory is taken for the package. *)
InstalledByDir(p) == modules[p].dir

(* packageIsInstalled: its package.json, whatever version it is of. *)
Installed(p) == modules[p].json

(* read-pinned-version: the catalog, then the two fields that pin. *)
Pins(prj, p) == {f \in {"dependencies", "devDependencies"} :
                    prj.literal[p][f] \notin {Null, Placeholder}}
PinOf(prj, p) ==
    IF prj.catalog[p] # Null THEN prj.catalog[p]
    ELSE IF Pins(prj, p) = {} THEN Null
    ELSE prj.literal[p][IF "dependencies" \in Pins(prj, p) THEN "dependencies" ELSE "devDependencies"]

(* readPnpmLockIntegrity: the entry of exactly this name and version. *)
Locked(prj, q) == {e \in prj.lock : e.pin = q}

(* installPackage and validateZeroDepManifest, once the bytes are verified. *)
Acceptable(tarball, q) ==
    tarball.readable /\ tarball.pin = q /\ ~tarball.dependencies

ZInit ==
    /\ project \in Projects /\ past = {project}
    /\ modules \in [Packages -> Leftovers]
    /\ zpc = [r \in Bootstraps |-> "start"]
    /\ at = [r \in Bootstraps |-> 1]
    /\ told = [r \in Bootstraps |-> project]
    /\ chosen = [r \in Bootstraps |-> Null]
    /\ sri = [r \in Bootstraps |-> Null]
    /\ stage = [r \in Bootstraps |-> Null]
    /\ shredded = {} /\ bumps = 0 /\ stopped = 0

Go(r, label) == zpc' = [zpc EXCEPT ![r] = label]
Files == <<project, past, bumps, stopped>>
Package(r) == Foundation[at[r]]

(* bootstrapZeroDepPackages: a repository with a script of its own is left   *)
(* to it; otherwise package.json is read, once.                              *)
Begin(r) ==
    /\ zpc[r] = "start"
    /\ told' = [told EXCEPT ![r] = project]
    /\ Go(r, IF project.ownScript THEN "skipped"
             ELSE IF project.manifest THEN "look" ELSE "failed")
    /\ UNCHANGED <<Files, modules, at, chosen, sri, stage, shredded>>

(* The loop: packages that are not declared or already there are passed by. *)
Look(r) ==
    /\ zpc[r] = "look"
    /\ IF at[r] > Len(Foundation) THEN Go(r, "done") /\ UNCHANGED at
       ELSE IF ~Declared(told[r], Package(r)) \/ Installed(Package(r))
         THEN at' = [at EXCEPT ![r] = @ + 1] /\ UNCHANGED zpc
       ELSE Go(r, "pin") /\ UNCHANGED at
    /\ UNCHANGED <<Files, modules, told, chosen, sri, stage, shredded>>
ReadPin(r) ==
    /\ zpc[r] = "pin"
    /\ chosen' = [chosen EXCEPT ![r] = PinOf(project, Package(r))]
    /\ Go(r, IF chosen'[r] = Null THEN "failed" ELSE "integrity")
    /\ UNCHANGED <<Files, modules, at, told, sri, stage, shredded>>
ReadIntegrity(r) ==
    /\ zpc[r] = "integrity"
    /\ \/ \E e \in Locked(project, chosen[r]) :
            sri' = [sri EXCEPT ![r] = e.sri] /\ Go(r, "firewall")
       \/ Locked(project, chosen[r]) = {} /\ Go(r, "failed") /\ UNCHANGED sri
    /\ UNCHANGED <<Files, modules, at, told, chosen, stage, shredded>>

(* check/sfw.mjs: any alert blocks; a firewall that does not answer does not. *)
AskFirewall(r) ==
    /\ zpc[r] = "firewall"
    /\ \/ Go(r, "download")
       \/ chosen[r] \in Flagged /\ Go(r, "failed")
    /\ UNCHANGED <<Files, modules, at, told, chosen, sri, stage, shredded>>

(* install-tool.mjs into a staging directory of this run: the bytes must     *)
(* have the lockfile's digest; a failure removes the staging directory.      *)
Download(r) ==
    /\ zpc[r] = "download"
    /\ \/ \E t \in Registry :
            /\ t.sri = sri[r]
            /\ stage' = [stage EXCEPT ![r] = t] /\ Go(r, "validate")
       \/ Go(r, "failed") /\ UNCHANGED stage
    /\ UNCHANGED <<Files, modules, at, told, chosen, sri, shredded>>
Validate(r) ==
    /\ zpc[r] = "validate"
    /\ IF Acceptable(stage[r], chosen[r]) THEN Go(r, "remove") /\ UNCHANGED stage
       ELSE Go(r, "failed") /\ stage' = [stage EXCEPT ![r] = Null]
    /\ UNCHANGED <<Files, modules, at, told, chosen, sri, shredded>>

(* rmSync of the destination goes file by file; package.json may be the      *)
(* last of them.  It was not there when this run looked, but may be now.     *)
Shred(p) == shredded' = IF modules[p].json THEN shredded \cup {p} ELSE shredded
RemoveInstalled(r) ==
    /\ zpc[r] = "remove"
    /\ LET p == Package(r)
       IN /\ IF modules[p].dir
               THEN \E left \in {modules[p].json, FALSE} :
                      modules' = [modules EXCEPT ![p].json = left, ![p].whole = FALSE]
               ELSE UNCHANGED modules
          /\ Shred(p)
          /\ Go(r, IF modules[p].dir THEN "removing" ELSE "rename")
    /\ UNCHANGED <<Files, at, told, chosen, sri, stage>>
Removed(r) ==
    /\ zpc[r] = "removing"
    /\ \/ /\ modules' = [modules EXCEPT ![Package(r)] = Gone]
          /\ Shred(Package(r)) /\ Go(r, "rename")
       \/ UNCHANGED <<modules, shredded>> /\ Go(r, "failed")
    /\ UNCHANGED <<Files, at, told, chosen, sri, stage>>

(* renameSync puts the package in place at once, or throws because another   *)
(* bootstrap's directory is there; then the staging directory goes.          *)
Rename(r) ==
    /\ zpc[r] = "rename"
    /\ IF modules[Package(r)].dir
         THEN Go(r, "failed") /\ UNCHANGED <<modules, at, stage>>
         ELSE /\ modules' = [modules EXCEPT ![Package(r)] = Copy(stage[r])]
              /\ stage' = [stage EXCEPT ![r] = Null]
              /\ at' = [at EXCEPT ![r] = @ + 1]
              /\ Go(r, "look")
    /\ UNCHANGED <<Files, told, chosen, sri, shredded>>

Ending == {"done", "skipped", "failed", "killed"}
Stop(r) ==
    /\ zpc[r] \notin Ending /\ stopped < MaxStopped
    /\ stopped' = stopped + 1 /\ Go(r, "killed")
    /\ UNCHANGED <<project, past, bumps, modules, at, told, chosen, sri, stage, shredded>>

(* Somebody edits package.json, the workspace file or the lockfile. *)
Bump ==
    /\ bumps < MaxBumps
    /\ bumps' = bumps + 1
    /\ project' \in Projects \ {project}
    /\ past' = past \cup {project'}
    /\ UNCHANGED <<stopped, modules, zpc, at, told, chosen, sri, stage, shredded>>

ZNext ==
    \/ \E r \in Bootstraps :
         \/ Begin(r) \/ Look(r) \/ ReadPin(r) \/ ReadIntegrity(r) \/ AskFirewall(r)
         \/ Download(r) \/ Validate(r) \/ RemoveInstalled(r) \/ Removed(r) \/ Rename(r) \/ Stop(r)
    \/ Bump
ZSpec == ZInit /\ [][ZNext]_zvars

(* A copy is vouched for: one found at the start, or the tarball of a pin    *)
(* the project has had, with the digest its lockfile has had for that pin.   *)
Vouched(p) ==
    \/ modules[p] \in Leftovers
    \/ /\ modules[p].whole
       /\ modules[p].of \in Registry /\ ~modules[p].of.dependencies
       /\ \E a \in past : PinOf(a, p) = modules[p].of.pin
       /\ \E b \in past : \E e \in Locked(b, modules[p].of.pin) : e.sri = modules[p].of.sri

(* Whatever is killed, edited or run at the same time, what a later run or   *)
(* an import takes for an installed package is one that somebody vouched     *)
(* for, and a bootstrap that ends well has left every package its manifest   *)
(* declares; the one exception is a package of which another bootstrap,      *)
(* that had looked before it was there, deleted an installed copy.           *)
FoundationIsPinned ==
    \A p \in Packages \ shredded :
        /\ modules[p].json => Vouched(p)
        /\ \A r \in Bootstraps :
             zpc[r] = "done" /\ Declared(told[r], p) => modules[p].json

==============================================================================
