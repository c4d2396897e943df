------------------------------ MODULE CiSetup ------------------------------
(***************************************************************************)
(* A CI job's preparation, step by step (.github/actions/fleet: the status *)
(* check, setup, cache-pnpm-store, the payload token, install): each step  *)
(* decides with SetupPlans and ExternalTools, exports to later steps, and  *)
(* stops the job when it fails.                                            *)
(***************************************************************************)
EXTENDS SetupPlans

CONSTANTS Scenes,        \* what a job may find: repository, runner, services
          ProbeAttempts, \* PROBE_DELAYS has three
          HardFloor,     \* HARDCODED_FLOOR
          MaxEntries     \* PNPM_INPUT_MAX_ENTRIES

(* npm lists finitely many versions, of numbers; the catalog pins the two    *)
(* firewalls, and no asset of the one is named like an asset of the other.   *)
ASSUME SceneAssumption ==
    \A s \in Scenes :
        /\ IsFiniteSet(s.published) /\ \A v \in s.published : v \in Seq(Nat)
        /\ s.catalog.present => LET assets(f) == {s.catalog.sfw[f].platforms[key].asset :
                                                   key \in DOMAIN s.catalog.sfw[f].platforms}
                                IN  /\ assets("enterprise") \cap assets("free") = {}
                                    /\ \A f \in {"enterprise", "free"} : ~s.catalog.sfw[f].isGo

VARIABLES scene, cpc, pnpm, node, sfw, probes, env, cacheKey, token, grant
cvars == <<scene, cpc, pnpm, node, sfw, probes, env, cacheKey, token, grant>>

NoSfw == [flavor |-> Nothing, version |-> Nothing, asset |-> Nothing, integrity |-> Nothing]

CInit ==
    /\ scene \in Scenes
    /\ cpc = "status"
    /\ pnpm = Nothing /\ node = Nothing /\ sfw = NoSfw /\ probes = 0
    /\ env = Nothing /\ cacheKey = Nothing /\ token = Nothing /\ grant = <<>>

Next1(label) == cpc' = label
Fail == cpc' = "failed"

(* runCheck: an unreachable page never fails the job. *)
CheckStatus ==
    /\ cpc = "status"
    /\ \E reachable \in BOOLEAN :
         IF reachable /\ StatusExit(scene.components, scene.failOnIncident) = 1
           THEN Fail ELSE Next1("pnpm")
    /\ UNCHANGED <<scene, pnpm, node, sfw, probes, env, cacheKey, token, grant>>

(* Install pnpm: the catalog's pin, or what package.json asks of npm. *)
PnpmVersion ==
    IF scene.catalog.present THEN scene.catalog.pnpm
    ELSE HighestSatisfying(PnpmPin(scene.engines), scene.published)
InstallPnpm ==
    /\ cpc = "pnpm"
    /\ IF PnpmVersion = NoVersion
         THEN Fail /\ UNCHANGED pnpm
         ELSE pnpm' = PnpmVersion /\ Next1("node")
    /\ UNCHANGED <<scene, node, sfw, probes, env, cacheKey, token, grant>>

(* Install Node.js, from nodejs.org with the release's own checksum list. *)
WantedNode == ResolveNode(SelectNodeVersion(scene.nodeInput, scene.nodeFile), scene.nodeIndex)
InstallNode ==
    /\ cpc = "node"
    /\ IF \/ WantedNode = NoVersion
          \/ ~SupportedKey(scene.runner) \/ ~NodePublishes(CanonicalKey(scene.runner))
          \/ SriFromShasums(scene.sums, WantedNode) = Nothing
         THEN Fail /\ UNCHANGED node
         ELSE node' = WantedNode /\ Next1("uv")
    /\ UNCHANGED <<scene, pnpm, sfw, probes, env, cacheKey, token, grant>>

NoRequest == [file |-> Nothing, version |-> Nothing]

(* Install uv: the resolver needs the catalog and an asset for the platform. *)
InstallUv ==
    /\ cpc = "uv"
    /\ LET tool == IF scene.catalog.present THEN scene.catalog.uv ELSE Nothing
       IN IF ResolveAsset(tool, NoRequest, CanonicalKey(scene.runner),
                                Nothing).exit = 0
            THEN Next1("sfw") ELSE Fail
    /\ UNCHANGED <<scene, pnpm, node, sfw, probes, env, cacheKey, token, grant>>

(* Download SFW: select, resolve, install; a flavor's pin as the catalog has *)
(* it.  The resolver knows the canonical entries only.                       *)
SfwTool(flavor) ==
    IF scene.catalog.present /\ SfwShape(scene.catalog.canonical) = "canonical"
      THEN scene.catalog.sfw[flavor] ELSE Nothing
SfwKey(tool) ==
    LET key == CanonicalKey(scene.runner)
    IN SfwPlatform(key, tool # Nothing /\ key \in DOMAIN tool.platforms,
                   scene.runner.windows11)
ResolveSfw(flavor) ==
    IF SfwKey(SfwTool(flavor)) = Nothing THEN Nothing
    ELSE ResolveAsset(SfwTool(flavor), NoRequest, SfwKey(SfwTool(flavor)),
                            Nothing).plan

Install(flavor, version, plan) ==
    [flavor |-> flavor, version |-> version, asset |-> plan.asset,
     integrity |-> plan.integrity]

InstallSfw ==
    /\ cpc = "sfw"
    /\ LET flavor == SelectSfwFlavor(scene.apiToken)
           plan == ResolveSfw(flavor)
       IN IF plan = Nothing THEN Fail /\ UNCHANGED sfw
          ELSE /\ sfw' = Install(flavor, SfwTool(flavor).version, plan)
               /\ Next1(IF flavor = "enterprise" THEN "probe" ELSE "export")
    /\ UNCHANGED <<scene, pnpm, node, probes, env, cacheKey, token, grant>>

(* The liveness probe of the enterprise binary: a 5xx is asked again, then   *)
(* taken for an outage; a refused SKU is final; both fall back to the free   *)
(* firewall.  Any other failure of the binary fails the step.                *)
Probe ==
    /\ cpc = "probe"
    /\ probes' = probes + 1
    /\ \E out \in SUBSET {"5xx", "sku"}, exit \in {0, 1} :
         LET class == ClassifyProbe(out)
         IN IF class = "5xx" THEN Next1(IF probes' < ProbeAttempts THEN "probe" ELSE "fallback")
            ELSE IF class = "sku" THEN Next1("fallback")
            ELSE IF exit # 0 THEN Fail ELSE Next1("export")
    /\ UNCHANGED <<scene, pnpm, node, sfw, env, cacheKey, token, grant>>

FallBack ==
    /\ cpc = "fallback"
    /\ LET plan == ResolveSfw("free")
           version == IF FallbackRereadsVersion(SfwShape(scene.catalog.canonical))
                        THEN SfwTool("free").version ELSE sfw.version
       IN IF plan = Nothing THEN Fail /\ UNCHANGED sfw
          ELSE sfw' = Install("free", version, plan) /\ Next1("export")
    /\ UNCHANGED <<scene, pnpm, node, probes, env, cacheKey, token, grant>>

(* The free binary must run; then the step's exports, from the final flavor. *)
ExportSfw ==
    /\ cpc = "export"
    /\ \E runs \in BOOLEAN :
         IF sfw.flavor = "free" /\ ~runs THEN Fail /\ UNCHANGED env
         ELSE env' = SfwExports(sfw, scene.apiToken, scene.extended) /\ Next1("cache")
    /\ UNCHANGED <<scene, pnpm, node, sfw, probes, cacheKey, token, grant>>

(* Cache pnpm store: the path and the key, with the fingerprint of the other ecosystems. *)
ResolveCache ==
    /\ cpc = "cache"
    /\ IF ~OwnershipOk(scene.config) \/ ~ScanFits(scene.files, scene.config, MaxEntries)
         THEN Fail /\ UNCHANGED cacheKey
         ELSE /\ cacheKey' = [path |-> StorePath(scene.store, scene.runner.os),
                          key |-> StoreCacheKey("pnpm-store", scene.runner.os, node[1], scene.lock,
                                                Fingerprint(scene.files, scene.config))]
              /\ Next1("token")
    /\ UNCHANGED <<scene, pnpm, node, sfw, probes, env, token, grant>>

(* The payload token, only for a complete credential pair: the installation  *)
(* is read, its grants compared with the request, the token minted with that *)
(* request.  The grants may change between the two calls; GitHub mints for a *)
(* subset of them only.                                                      *)
LookUpInstallation ==
    /\ cpc = "token"
    /\ IF ~scene.request.wanted THEN Next1("install") /\ UNCHANGED grant
       ELSE \E found \in BOOLEAN, have \in scene.grants :
              IF /\ CredentialsOk(scene.request) /\ PermissionsOk(scene.request)
                 /\ RepositoriesOk(scene.request) /\ found
                 /\ scene.request.given =>
                      MissingPermissions(scene.request.scopes, have) = {}
                THEN grant' = have /\ Next1("mint")
                ELSE Fail /\ UNCHANGED grant
    /\ UNCHANGED <<scene, pnpm, node, sfw, probes, env, cacheKey, token>>

MintToken ==
    /\ cpc = "mint"
    /\ \E now \in scene.grants :
         /\ grant' = now
         /\ \/ /\ ~scene.request.given \/ MissingPermissions(scene.request.scopes, now) = {}
               /\ token' = [scopes |-> IF scene.request.given THEN scene.request.scopes ELSE now,
                            repositories |-> scene.request.repositories]
               /\ Next1("install")
            \/ Fail /\ UNCHANGED token
    /\ UNCHANGED <<scene, pnpm, node, sfw, probes, env, cacheKey>>

(* Install dependencies: only behind the firewall; then the library floor. *)
InstallDependencies ==
    /\ cpc = "install"
    /\ IF env = Nothing THEN Fail ELSE Next1("floor")
    /\ UNCHANGED <<scene, pnpm, node, sfw, probes, env, cacheKey, token, grant>>

VerifyFloor ==
    /\ cpc = "floor"
    /\ IF FloorHolds(scene.stable, scene.lib, scene.npmLatest, HardFloor)
         THEN Next1("ready") ELSE Fail
    /\ UNCHANGED <<scene, pnpm, node, sfw, probes, env, cacheKey, token, grant>>

CNext ==
    \/ CheckStatus \/ InstallPnpm \/ InstallNode \/ InstallUv \/ InstallSfw \/ Probe \/ FallBack
    \/ ExportSfw \/ ResolveCache \/ LookUpInstallation \/ MintToken
    \/ InstallDependencies \/ VerifyFloor
CSpec == CInit /\ [][CNext]_cvars

(* What setup tells later steps is true of what it installed: pnpm is no     *)
(* older than any published version the repository's range accepts; the      *)
(* firewall announced is the one on disk, with its own pin and version; a    *)
(* token carries exactly the scopes asked for, no more than were granted     *)
(* when it was minted, for named repositories only; and a job that gets      *)
(* through has a library no older than the floor in force.                   *)
PnpmIsNewest ==
    ~scene.catalog.present /\ pnpm # Nothing =>
        /\ pnpm \in scene.published
        /\ \A v \in scene.published :
             Len(v) = 3 /\ SatisfiesRange(v, PnpmPin(scene.engines)) => ~Older(pnpm, v)
SfwIsAnnounced ==
    env # Nothing =>
        /\ env.bin = sfw.asset
        /\ env.enterprise <=> ResolveSfw("enterprise") # Nothing
                               /\ sfw.asset = ResolveSfw("enterprise").asset
        /\ scene.extended => env.version = SfwTool(env.flavor).version
TokenIsGranted ==
    token # Nothing =>
        /\ token.repositories # {}
        /\ scene.request.given => token.scopes = scene.request.scopes
        /\ MissingPermissions(token.scopes, grant) = {}
SetupIsCoherent ==
    /\ PnpmIsNewest /\ SfwIsAnnounced /\ TokenIsGranted
    /\ cpc = "ready" /\ Len(scene.npmLatest) = 3 =>
         ~Older(SelectLib(scene.stable, scene.lib), scene.npmLatest)

==============================================================================
