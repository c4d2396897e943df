--------------------------- MODULE ExternalTools ---------------------------
(***************************************************************************)
(* From a catalog entry to a verified pin: which asset of a pinned tool    *)
(* this platform gets (.github/actions/fleet/_shared/release-asset.mts,    *)
(* resolve-external-tool-platform.mts, resolve-external-tool-asset.mts),   *)
(* and whether the pin still is what its publisher says                    *)
(* (verify-integrity-provenance.mjs).  Digests, names and versions are     *)
(* model values compared for equality; a platform key is a record.         *)
(***************************************************************************)
EXTENDS Integers, Sequences, SequencesExt, FiniteSets, FiniteSetsExt

CONSTANT Nothing       \* undefined, null, an absent answer

PlatformUnavailable == 42      \* PLATFORM_UNAVAILABLE_EXIT_CODE

(* canonicalPlatformKey: os, arch and, on Linux, musl: told by the process   *)
(* report's glibc version, or by a loader in /lib when the report has none.  *)
SupportedKey(key) == key.os \in {"darwin", "linux", "win32"} /\ key.arch \in {"arm64", "x64"}
CanonicalKey(r) ==
    [os |-> r.os, arch |-> r.arch,
     musl |-> /\ r.os = "linux"
              /\ \/ r.libc = "musl"
                 \/ r.libc = Nothing /\ r.muslLoader]

(* resolvePlatformEntry: a musl runner takes the glibc asset as fallback. *)
Glibc(key) == [key EXCEPT !.musl = FALSE]
PlatformEntry(platforms, key) ==
    IF key \in DOMAIN platforms THEN platforms[key]
    ELSE IF key.musl /\ Glibc(key) \in DOMAIN platforms THEN platforms[Glibc(key)]
    ELSE Nothing

(* selectToolEntry: every platform entry has an asset and an integrity. *)
WellFormedTool(tool) ==
    \A key \in DOMAIN tool.platforms :
        /\ tool.platforms[key].asset # Nothing
        /\ tool.platforms[key].integrity # Nothing

(* resolveToolVersion: the version file, an explicit version, the pin; only  *)
(* go accepts another version than its pin.                                  *)
WantedVersion(tool, request) ==
    IF request.file # Nothing THEN request.file
    ELSE IF request.version \notin {Nothing, "stable"} THEN request.version
    ELSE tool.version
VersionAccepted(tool, wanted) ==
    /\ wanted # Nothing
    /\ ~tool.isGo => wanted = tool.version

(* resolveGithubReleaseAsset and resolveCatalogAsset: a GitHub tool's asset  *)
(* is bound to its repository and tag; any other asset is an HTTPS URL.      *)
GithubBound(tool, entry) == tool.slugValid /\ tool.tagSafe /\ entry.safeName
CatalogAssetOk(tool, entry) ==
    /\ IF tool.github THEN GithubBound(tool, entry) ELSE entry.https
    /\ entry.integrity # Nothing
CatalogAsset(tool, entry, version) ==
    [asset |-> entry.asset, integrity |-> entry.integrity, src |-> entry.src,
     date |-> entry.date, version |-> version]

(* resolveGoAssetFromManifest: the stable release of that version and its    *)
(* archive for this os and arch; musl runs the glibc archive.                *)
GoFiles(manifest, version, key) ==
    {f \in manifest : /\ f.version = version /\ f.stable /\ f.archive
                      /\ f.os = key.os /\ f.arch = key.arch}
GoAsset(manifest, version, key) ==
    LET f == CHOOSE g \in GoFiles(manifest, version, key) : TRUE
    IN [asset |-> f.name, integrity |-> f.sha256, src |-> Nothing,
        date |-> Nothing, version |-> version]

(* The command: exit status and the one JSON line.  The platform is looked   *)
(* up before the version; go's own manifest is read only for another version *)
(* than the pin.                                                             *)
Exit(code) == [exit |-> code, plan |-> Nothing]
ResolveAsset(tool, request, key, manifest) ==
    IF tool = Nothing \/ ~SupportedKey(key) \/ ~WellFormedTool(tool) THEN Exit(1)
    ELSE LET entry == PlatformEntry(tool.platforms, key)
             wanted == WantedVersion(tool, request)
             pinned == ~tool.isGo \/ wanted = tool.version
             found == IF pinned THEN CatalogAssetOk(tool, entry)
                      ELSE manifest # Nothing /\ GoFiles(manifest, wanted, key) # {}
         IN IF entry = Nothing THEN Exit(PlatformUnavailable)
            ELSE IF ~VersionAccepted(tool, wanted) \/ ~found THEN Exit(1)
            ELSE [exit |-> 0, plan |-> IF pinned THEN CatalogAsset(tool, entry, wanted)
                                       ELSE GoAsset(manifest, wanted, key)]

------------------------------------------------------------------------------
(* Provenance.  A publisher's document has a form and its entries in order.  *)

FirstHash(entries, asset, names) ==   \* of an entry with one of the names, if one is asked for
    LET hits == {i \in DOMAIN entries : asset = Nothing \/ entries[i].name \in names}
    IN IF hits = {} THEN Nothing ELSE entries[Min(hits)].hash

(* matchLeafChecksum / findShaInJson: a leaf that names no file answers too. *)
FindShaInJson(entries, asset) ==
    FirstHash(entries, asset, {Nothing, asset})
FindShaInPackagesIndex(entries, asset) ==
    FirstHash(entries, asset, {asset})
(* parseShasumsLines: the named line, or the first hash of the document. *)
ParseShasumsLines(entries, asset) ==
    LET named == FirstHash(entries, asset, {asset})
    IN IF named # Nothing \/ entries = <<>> THEN named ELSE entries[1].hash

ParseChecksumFile(doc, asset) ==
    CASE doc.form = "json" -> FindShaInJson(doc.entries, asset)
      [] doc.form = "index" -> FindShaInPackagesIndex(doc.entries, asset)
      [] doc.form = "lines" -> ParseShasumsLines(doc.entries, asset)
      [] OTHER -> Nothing

ChecksumsMatch(value, fetched) == fetched # Nothing /\ value = fetched

(* checkStaleness: older than the limit, in whole days; a date that does not *)
(* parse says nothing.                                                       *)
Stale(age, maxAge) == age > maxAge

(* verifyPublisherChecksum: the document was fetched, parses, and agrees. *)
PublisherAgrees(plan, doc) ==
    /\ doc # Nothing
    /\ ChecksumsMatch(plan.integrity, ParseChecksumFile(doc, plan.asset))

(* evaluatePinStaleness: stale is a warning, unless strict. *)
PinFresh(plan, maxAge, strict) == ~(strict /\ Stale(plan.date, maxAge))

(* verifyIntegrityProvenance, after verifyToolInstallProvenance's own skip. *)
ProvenanceOk(plan, doc, maxAge, strict) ==
    /\ plan.src # Nothing => PublisherAgrees(plan, doc)
    /\ plan.date # Nothing => PinFresh(plan, maxAge, strict)
==============================================================================
