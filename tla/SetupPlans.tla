---------------------------- MODULE SetupPlans ----------------------------
(***************************************************************************)
(* The decision cores of the fleet's setup actions (.github/actions/fleet):*)
(* versions of pnpm and Node.js, the firewall's flavor, the library floor, *)
(* the pnpm store's cache key, GitHub's health, and the scopes of an App   *)
(* token.  A version is a tuple of numbers, NoVersion where the code       *)
(* answers undefined; names and hashes are model values.                   *)
(***************************************************************************)
EXTENDS ExternalTools

NoVersion == <<>>

------------------------------------------------------------------------------
(* bootstrap-pnpm.mjs: ranges.  A range is a sequence of alternatives, each  *)
(* a sequence of comparators [op, t].                                        *)

(* compareSemverTriples, semverLt, compareTriples: numerically, part by part. *)
Older(a, b) ==
    \/ a[1] < b[1]
    \/ a[1] = b[1] /\ a[2] < b[2]
    \/ a[1] = b[1] /\ a[2] = b[2] /\ a[3] < b[3]

(* parseSemverRange's caret: up to the next change of the first nonzero part. *)
CaretUpper(t) ==
    IF t[1] > 0 THEN <<t[1] + 1, 0, 0>>
    ELSE IF t[2] > 0 THEN <<0, t[2] + 1, 0>>
    ELSE <<0, 0, t[3] + 1>>

ParsableComparator(c) == c.op \in {">=", "<=", ">", "<", "=", "^"}
ParsableRange(range) ==
    /\ range # <<>>
    /\ \A i \in DOMAIN range : range[i] # <<>>
    /\ \A i \in DOMAIN range : \A k \in DOMAIN range[i] : ParsableComparator(range[i][k])

Accepts(c, t) ==
    CASE c.op = ">=" -> ~Older(t, c.t)
      [] c.op = "<=" -> ~Older(c.t, t)
      [] c.op = ">"  -> Older(c.t, t)
      [] c.op = "<"  -> Older(t, c.t)
      [] c.op = "^"  -> ~Older(t, c.t) /\ Older(t, CaretUpper(c.t))
      [] OTHER       -> t = c.t
SatisfiesRange(t, range) ==
    \E i \in DOMAIN range : \A k \in DOMAIN range[i] : Accepts(range[i][k], t)

(* resolveHighestSatisfying; a published prerelease (no triple) is skipped. *)
Newest(versions) ==
    IF versions = {} THEN NoVersion
    ELSE CHOOSE v \in versions : \A w \in versions : ~Older(v, w)
HighestSatisfying(range, published) ==
    IF ~ParsableRange(range) THEN NoVersion
    ELSE Newest({v \in published : Len(v) = 3 /\ SatisfiesRange(v, range)})

(* readPnpmDevEngine: one pnpm entry with a range that parses. *)
PnpmPin(engines) ==
    LET mine == {e \in engines : e.name = "pnpm"}
    IN IF Cardinality(mine) = 1 /\ (\A e \in mine : ParsableRange(e.range))
         THEN (CHOOSE e \in mine : TRUE).range
         ELSE <<>>

------------------------------------------------------------------------------
(* plan-setup-node.mjs.  A wanted version is its numbers, "x" left out; a     *)
(* patch without a minor is unsupported, and so is any alias.                 *)
SelectNodeVersion(input, file) == IF input # NoVersion THEN input ELSE file
ResolveNode(wanted, index) ==
    CASE Len(wanted) = 3 -> wanted
      [] Len(wanted) \in {1, 2} ->
           Newest({v \in index : Len(v) = 3 /\ IsPrefix(wanted, v)})
      [] OTHER -> NoVersion
NodePublishes(key) == ~key.musl
(* sriFromShasums: the asset's own line, never a neighbour's. *)
SriFromShasums(sums, asset) ==
    LET mine == {i \in DOMAIN sums : sums[i].name = asset}
    IN IF mine = {} THEN Nothing ELSE sums[Min(mine)].hash

------------------------------------------------------------------------------
(* plan-setup-tools.mjs: which firewall, and what the job is told of it. *)
SelectSfwFlavor(token) == IF token THEN "enterprise" ELSE "free"
SfwShape(hasCanonical) == IF hasCanonical THEN "canonical" ELSE "legacy"
(* Mutated: the fallback keeps the version it had read for the other flavor. *)
FallbackRereadsVersionBug(shape) == shape = "legacy"
(* fallbackSfwSelection: only a canonical file has a version per flavor. *)
FallbackRereadsVersion(shape) == shape = "canonical"
(* classifySfwProbe: a 5xx outranks the SKU refusal it may come with. *)
ClassifyProbe(out) == IF "5xx" \in out THEN "5xx" ELSE IF "sku" \in out THEN "sku" ELSE "ok"
(* resolveSfwPlatform: Windows 11 runs the x64 asset on ARM64. *)
SfwPlatform(key, native, windows11) ==
    IF native \/ ~(key.os = "win32" /\ key.arch = "arm64") THEN key
    ELSE IF windows11 THEN [key EXCEPT !.arch = "x64"] ELSE Nothing
(* planSfwEnvExports. *)
SfwExports(s, token, extended) ==
    [token |-> token, bin |-> s.asset, enterprise |-> s.flavor = "enterprise",
     flavor |-> IF extended THEN s.flavor ELSE Nothing,
     version |-> IF extended THEN s.version ELSE Nothing]

------------------------------------------------------------------------------
(* install/verify-lib-floor.mjs: the tooling alias before the library; npm's  *)
(* latest release is the floor when it is a version at all.                   *)
SelectLib(stable, lib) == IF stable # NoVersion THEN stable ELSE lib
ChooseFloor(latest, hard) == IF Len(latest) = 3 THEN latest ELSE hard
FloorHolds(stable, lib, latest, hard) ==
    LET actual == SelectLib(stable, lib)
    IN Len(actual) = 3 /\ ~Older(actual, ChooseFloor(latest, hard))

------------------------------------------------------------------------------
(* cache-pnpm-store: the key of the store, and ecosystems.mjs, what of a      *)
(* Cargo or Python workspace goes into it.                                    *)
(* resolveStorePath: pnpm's own answer, else the platform's default. *)
StorePath(queried, os) == IF queried # Nothing THEN queried ELSE <<"default", os>>
(* pnpmEcosystemOwnership: absent is off; a setting that is no boolean is an  *)
(* error: a setting is "on", "off" or "malformed".                                           *)
OwnershipOk(config) == "malformed" \notin {config.cargo, config.python}
Owned(config) == {e \in {"cargo", "python"} : config[e] = "on"}
EcosystemNames(owned) ==
    UNION {IF e = "cargo" THEN {"Cargo.toml", "Cargo.lock"}
           ELSE {"pyproject.toml", "pylock.toml"} : e \in owned}
(* collectPnpmEcosystemFiles: regular files of those names, in every directory *)
(* that is neither a link nor on the skip list; too many entries is an error.  *)
EcosystemFiles(files, owned) ==
    {f \in files : f.name \in EcosystemNames(owned) /\ f.regular /\ ~f.skippedDir}
Fingerprint(files, config) ==
    IF Owned(config) = {} THEN Nothing
    ELSE <<Owned(config), {<<f.path, f.text>> : f \in EcosystemFiles(files, Owned(config))}>>
ScanFits(files, config, maxEntries) == Owned(config) = {} \/ Cardinality(files) <= maxEntries
(* composeCacheKey. *)
StoreCacheKey(prefix, os, nodeMajor, lock, fingerprint) ==
    <<prefix, os, nodeMajor, lock, fingerprint>>

------------------------------------------------------------------------------
(* github-status-check/probe-github-status.mjs. *)
SeverityRank(status) ==
    CASE status = "major_outage" -> 4
      [] status = "partial_outage" -> 3
      [] status = "degraded_performance" -> 2
      [] status = "under_maintenance" -> 1
      [] OTHER -> 0
(* parseComponents: what comes before the first malformed entry counts. *)
ReadComponents(body) ==
    LET bad == {i \in DOMAIN body : ~body[i].sane}
    IN IF bad = {} THEN body ELSE SubSeq(body, 1, Min(bad) - 1)
(* assessComponents and planReport, over the monitored components. *)
Troubles(body) ==
    {c.status : c \in {d \in Range(ReadComponents(body)) :
                         d.monitored /\ d.status # "operational"}}
WorstSeverity(body) == Max({0} \cup {SeverityRank(s) : s \in Troubles(body)})
StatusExit(body, failOnIncident) ==
    IF /\ failOnIncident /\ Troubles(body) # {}
       /\ WorstSeverity(body) >= SeverityRank("partial_outage") THEN 1 ELSE 0

------------------------------------------------------------------------------
(* github-payload-app-token/mint-app-installation-token.mjs, the same script  *)
(* in two more actions: the scopes asked for against the scopes granted.      *)
PermissionRank(level) ==
    CASE level = "admin" -> 3 [] level = "write" -> 2 [] level = "read" -> 1 [] OTHER -> 0
Granted(granted, scope) == IF scope \in DOMAIN granted THEN granted[scope] ELSE "absent"
MissingPermissions(requested, granted) ==
    {s \in DOMAIN requested :
       PermissionRank(Granted(granted, s)) < PermissionRank(requested[s])}
(* parsePermissions: absent is no request at all, empty is refused. *)
PermissionsOk(request) == request.given => DOMAIN request.scopes # {}
(* parseRepositories: at least one name. *)
RepositoriesOk(request) == request.repositories # {}
(* appCredentialEnvironment: the action's own pair, or a named role's. *)
CredentialsOk(request) == request.role \in {"action", "pr", "release"} /\ request.keyPair
==============================================================================
