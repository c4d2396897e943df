------------------------------ MODULE MCCiJob ------------------------------
(***************************************************************************)
(* The parts of a CI job, one explored at a time: the runner's swap file,  *)
(* two jobs on one tool cache, the packages put in place before pnpm, the  *)
(* setup steps, the generation and the gates of the tables.  Hosts, jobs   *)
(* and scenes are an ordinary one and what differs from it in one respect. *)
(***************************************************************************)
EXTENDS ZeroDepBootstrap, ToolInstall, RunnerResources, CiSetup, PatternTables, TLC

VARIABLE part

------------------------------------------------------------------------------
(* Machines: 8 units of memory of a target of 12. *)
Area(path, size) == [path |-> path, bytes |-> size, used |-> 0, sane |-> TRUE]
Directory(free) == [directory |-> TRUE, writable |-> TRUE, measurable |-> TRUE, free |-> free]
Cgroup == [membership |-> 1, mounts |-> 1, wholeTree |-> TRUE, controllers |-> {"memory"},
           rootControls |-> FALSE,
           ancestors |-> {[memory |-> Unlimited, swapMax |-> Unlimited, swapUsed |-> 0]}]
Machine == [linux |-> TRUE, actions |-> TRUE, hosted |-> TRUE, root |-> FALSE,
            memory |-> 8, cgroup |-> Cgroup, swaps |-> <<Area("other", 1)>>,
            scratch |-> <<Directory(9), Directory(12), Directory(12)>>]
Limited(mem, max, used) ==
    [Machine EXCEPT !.cgroup.ancestors =
        {[memory |-> mem, swapMax |-> max, swapUsed |-> used],
         [memory |-> 10, swapMax |-> Unlimited, swapUsed |-> 1]}]
McHosts ==
    {Machine,
     [Machine EXCEPT !.hosted = FALSE],
     [Machine EXCEPT !.root = TRUE],
     [Machine EXCEPT !.memory = 12],
     [Machine EXCEPT !.memory = 2],
     [Machine EXCEPT !.swaps = <<Area("other", 3)>>],
     [Machine EXCEPT !.swaps = <<Area("other", 1), Area("other", 2)>>],
     [Machine EXCEPT !.swaps = <<>>],
     [Machine EXCEPT !.cgroup.mounts = 2],
     Limited(7, Unlimited, 0), Limited(8, 4, 0), Limited(8, 6, 3),
     [Machine EXCEPT !.scratch[1].writable = FALSE, !.scratch[2].free = 9,
                     !.scratch[3].measurable = FALSE],
     [Machine EXCEPT !.scratch = <<>>]}

------------------------------------------------------------------------------
(* Tool jobs.  Their pins come from the resolver: go at another version than *)
(* its pin, from go.dev's manifest, and a catalog asset with provenance.     *)
Linux == [os |-> "linux", arch |-> "x64", libc |-> "glibc", muslLoader |-> FALSE,
          windows11 |-> FALSE]
Musl == [Linux EXCEPT !.libc = Nothing, !.muslLoader = TRUE]
Key == CanonicalKey(Linux)
Entry(name) == [asset |-> name, integrity |-> "sri-" \o name, src |-> Nothing,
                date |-> Nothing, safeName |-> TRUE, https |-> TRUE]
Tool(name, version) ==
    [platforms |-> (Key :> Entry(name)), version |-> version, isGo |-> FALSE, github |-> FALSE,
     slugValid |-> FALSE, tagSafe |-> FALSE]
Asked == [file |-> Nothing, version |-> "stable"]
GoManifest == {[version |-> v, stable |-> TRUE, archive |-> TRUE, os |-> "linux", arch |-> "x64",
                name |-> "go", sha256 |-> "sri-go-" \o v] : v \in {"1.2", "1.3"}}
GoPin == ResolveAsset([Tool("go", "1.2") EXCEPT !.isGo = TRUE],
                        [Asked EXCEPT !.file = "1.3"], CanonicalKey(Musl), GoManifest).plan
UvPin == [ResolveAsset([Tool("uv", "0.9") EXCEPT !.github = TRUE, !.slugValid = TRUE,
                                                   !.tagSafe = TRUE],
                         Asked, CanonicalKey(Musl), Nothing).plan
            EXCEPT !.src = "url", !.date = MaxAge + 1]
McDocs == {Nothing,
         [form |-> "lines", entries |-> <<[name |-> "x", hash |-> "h"],
                                          [name |-> "uv", hash |-> "sri-uv"]>>],
         [form |-> "json", entries |-> <<[name |-> "uv", hash |-> "sri-new"]>>],
         [form |-> "index", entries |-> <<[name |-> "uv", hash |-> "sri-uv"]>>]}
Job(pin, destination, atomic) ==
    [pin |-> pin, destination |-> destination, atomic |-> atomic,
     checkFirst |-> TRUE, cache |-> FALSE]
McJobPlans ==
    {[j \in Jobs |-> Job(GoPin, "shared", TRUE)],
     [j \in Jobs |-> Job([GoPin EXCEPT !.integrity = j], "shared", TRUE)],
     [j \in Jobs |-> [Job(UvPin, "temp-" \o j, FALSE) EXCEPT !.cache = TRUE, !.checkFirst = FALSE]],
     [j \in Jobs |-> Job(UvPin, "shared", FALSE)]}

------------------------------------------------------------------------------
(* Setup scenes. *)
Sfw == [enterprise |-> Tool("sfw-e", "2.0"), free |-> Tool("sfw-f", "1.9")]
Comparator(op, t) == [op |-> op, t |-> t]
Range1 == <<<<Comparator("^", <<11, 0, 0>>)>>, <<Comparator(">=", <<10, 1, 0>>), Comparator("<", <<10, 2, 0>>)>>>>
Part(status) == [sane |-> TRUE, monitored |-> TRUE, status |-> status]
Input(path, name, text) == [path |-> path, name |-> name, text |-> text, regular |-> TRUE,
                            skippedDir |-> FALSE]
Scene ==
    [components |-> <<Part("operational"), Part("degraded_performance")>>, failOnIncident |-> TRUE,
     catalog |-> [present |-> TRUE, canonical |-> TRUE, pnpm |-> <<11, 1, 0>>,
                  uv |-> Tool("uv", "0.9"), sfw |-> Sfw],
     engines |-> {[name |-> "pnpm", range |-> Range1], [name |-> "npm", range |-> <<>>]},
     published |-> {<<10, 1, 9>>, <<10, 2, 0>>, <<11, 2, 0>>, <<11, 10, 0>>, <<12, 0, 0>>, <<11, 11>>},
     nodeInput |-> <<24>>, nodeFile |-> <<22, 1, 0>>,
     nodeIndex |-> {<<24, 9, 0>>, <<24, 10, 0>>, <<25, 0, 0>>},
     sums |-> <<[name |-> <<24, 9, 0>>, hash |-> "a"], [name |-> <<24, 10, 0>>, hash |-> "b"]>>,
     runner |-> Linux, apiToken |-> TRUE, extended |-> TRUE,
     config |-> [cargo |-> "on", python |-> "off"], lock |-> "lock", store |-> "queried",
     files |-> {Input("a", "Cargo.toml", "t"), Input("b", "pylock.toml", "t")},
     request |-> [wanted |-> TRUE, given |-> TRUE, scopes |-> ("contents" :> "write"),
                  repositories |-> {"wheelhouse"}, role |-> "action", keyPair |-> TRUE],
     grants |-> {("contents" :> "write"), ("contents" :> "admin"), ("issues" :> "write")},
     stable |-> <<>>, lib |-> <<6, 0, 0>>, npmLatest |-> <<6, 0, 0>>]
McScenes ==
    {Scene,
     [Scene EXCEPT !.components = <<Part("partial_outage")>>],
     [Scene EXCEPT !.components = <<[Part("x") EXCEPT !.sane = FALSE], Part("major_outage")>>],
     [Scene EXCEPT !.catalog.present = FALSE],
     [Scene EXCEPT !.catalog.present = FALSE, !.engines = {}],
     [Scene EXCEPT !.catalog.canonical = FALSE],
     [Scene EXCEPT !.catalog.sfw.free.platforms = (CanonicalKey([Linux EXCEPT !.os = "win32"]) :> Entry("w"))],
     [Scene EXCEPT !.apiToken = FALSE, !.extended = FALSE],
     [Scene EXCEPT !.runner = Musl],
     [Scene EXCEPT !.nodeInput = <<>>, !.store = Nothing],
     [Scene EXCEPT !.runner.arch = "ia32"],
     [Scene EXCEPT !.nodeInput = <<24, 9, 0>>, !.request.given = FALSE],
     [Scene EXCEPT !.request.wanted = FALSE, !.npmLatest = <<>>, !.stable = <<5, 24, 0>>],
     [Scene EXCEPT !.request.repositories = {}],
     [Scene EXCEPT !.config.python = "malformed"],
     [Scene EXCEPT !.npmLatest = <<6, 0, 1>>]}
McHardFloor == <<5, 24, 0>>

------------------------------------------------------------------------------
(* Three upstreams.  gitleaks moves to a version with another path-gated rule. *)
RulesOf(s, v) ==
    IF v = 0 THEN {}
    ELSE {[id |-> 1, path |-> FALSE]} \cup
         IF s = "gitleaks" THEN {[id |-> v + 1, path |-> TRUE]} ELSE {[id |-> v + 1, path |-> FALSE]}

------------------------------------------------------------------------------
(* Two foundation packages; lib moves from 1 to 2, which may be malware, and *)
(* a tarball of each version is no longer what the bootstrap accepts.        *)
At(name, version) == [name |-> name, version |-> version]
Lock(name, version) == [pin |-> At(name, version), sri |-> <<name, version>>]
Tarball(name, version, readable, dependencies) ==
    [sri |-> <<name, version>>, pin |-> At(name, version), readable |-> readable,
     dependencies |-> dependencies]
Undeclared == [f \in {"dependencies", "devDependencies", "optionalDependencies",
                      "peerDependencies"} |-> Null]
Repository ==
    [ownScript |-> FALSE, manifest |-> TRUE,
     catalog |-> ("lib" :> At("lib", 1) @@ "sdk" :> Null),
     literal |-> ("lib" :> [Undeclared EXCEPT !["dependencies"] = Placeholder] @@
                  "sdk" :> [Undeclared EXCEPT !["devDependencies"] = At("sdk", 1)]),
     lock |-> {Lock("lib", 1), Lock("sdk", 1)}]
Bumped == [Repository EXCEPT !.catalog["lib"] = At("lib", 2), !.lock = @ \cup {Lock("lib", 2)}]
McFoundation == <<"lib", "sdk">>
McFlagged == {At("lib", 2)}
McProjects ==
    {Repository, Bumped,
     [Repository EXCEPT !.catalog["lib"] = At("lib", 2)],
     [Repository EXCEPT !.catalog["lib"] = At("lib", 3), !.lock = {Lock("lib", 3)}],
     [Repository EXCEPT !.catalog["lib"] = Null, !.literal["sdk"] = Undeclared],
     [Repository EXCEPT !.ownScript = TRUE],
     [Repository EXCEPT !.manifest = FALSE]}
McRegistry == {Tarball("lib", 1, TRUE, FALSE), Tarball("lib", 2, TRUE, FALSE),
               Tarball("lib", 3, TRUE, TRUE), Tarball("sdk", 1, TRUE, FALSE)}
Found(there, json) == [dir |-> there, json |-> json, whole |-> json,
                     of |-> IF json THEN Tarball("lib", 0, TRUE, FALSE) ELSE Null]
McLeftovers == {Found(FALSE, FALSE), Found(TRUE, FALSE), Found(TRUE, TRUE)}

------------------------------------------------------------------------------
MCInit ==
    /\ part \in {"resources", "tools", "setup", "tables", "packages"}
    /\ RInit /\ (part # "resources" => host = Machine)
    /\ TInit
    /\ part # "tools" => jplan = [j \in Jobs |-> Job(GoPin, "shared", TRUE)]
    /\ CInit /\ (part # "setup" => scene = Scene)
    /\ TablesInit /\ (part # "tables" => slice["gitleaks"].version = 1)
    /\ ZInit
    /\ modules["sdk"] = Found(FALSE, FALSE)
    /\ part # "packages" \/ project # Repository => modules["lib"] = Found(FALSE, FALSE)
    /\ part # "packages" => project = Repository

Ended ==
    CASE part = "resources" -> rpc = "stopped"
      [] part = "tools" -> \A j \in Jobs : jpc[j] \in {"done", "cancelled"}
      [] part = "setup" -> cpc \in {"ready", "failed"}
      [] part = "tables" -> Active = {}
      [] OTHER -> \A r \in Bootstraps : zpc[r] \in Ending

MCNext ==
    /\ part' = part
    /\ \/ part = "resources" /\ RNext /\ UNCHANGED <<tvars, cvars, tableVars, zvars>>
       \/ part = "tools" /\ TNext /\ UNCHANGED <<rvars, cvars, tableVars, zvars>>
       \/ part = "setup" /\ CNext /\ UNCHANGED <<rvars, tvars, tableVars, zvars>>
       \/ part = "tables" /\ TablesNext /\ UNCHANGED <<rvars, tvars, cvars, zvars>>
       \/ part = "packages" /\ ZNext /\ UNCHANGED <<rvars, tvars, cvars, tableVars>>
       \/ Ended /\ UNCHANGED <<rvars, tvars, cvars, tableVars, zvars>>
MCSpec == MCInit /\ [][MCNext]_<<part, rvars, tvars, cvars, tableVars, zvars>>

==============================================================================
