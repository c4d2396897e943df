---------------------------- MODULE PayloadFetch ----------------------------
(***************************************************************************)
(* The fetch of a fleet pack from the container registry.  The green tag   *)
(* names the pack to install; the pack is then pulled by the immutable tag *)
(* of its revision, compared with what green was, and its tarball and its  *)
(* JSON manifest are taken by digest.  A pack pinned by its tag is pulled  *)
(* without such a comparison: the body that comes names the blobs.         *)
(* Meanwhile producers push packs, move green and, against the rules, push *)
(* a tag again; answers may be errors, redirects without end or altered    *)
(* bytes, and the altered body of an index may lead to any manifest.       *)
(***************************************************************************)
EXTENDS Naturals, Sequences, FiniteSets, SequencesExt

CONSTANTS Manifests,   \* digest -> [revision, layers] or [revision, layers: <<>>, index]
          Altered,     \* bodies that are no manifest of the registry: [digest, revision, layers]
          Credentials, \* credentials in the environment: a subset of {"workflow"}
          Refusals,    \* the registry's answers to token requests: subsets of TokenForms
          MaxPushes,   \* bound on pushes and tag moves
          MaxBadAnswers, MaxFetches

MaxRedirects == 5
Digests == DOMAIN Manifests
Revisions == {Manifests[d].revision : d \in Digests} \ {"none"}

(* A manifest as it comes: the digest of the bytes and the fields in them. *)
Body(digest) == [digest |-> digest, revision |-> Manifests[digest].revision,
                 layers |-> Manifests[digest].layers]
NoBody == [digest |-> "error", revision |-> "none", layers |-> <<>>]
ManifestBodies == {Body(d) : d \in Digests} \cup Altered

(* An index names a manifest of the registry, other bytes have another digest, *)
(* and an answer that is no bytes has none.                                    *)
ASSUME FetchConstants ==
  /\ \A d \in Digests : Manifests[d].layers = <<>> => Manifests[d].index \in Digests
  /\ {"none", "altered", "error"} \cap Digests = {}
  /\ \A body, other \in ManifestBodies : body.digest = other.digest => body = other
  /\ \A body \in Altered : body.digest \notin Digests \cup {"error"}

\* "plain" and "challenge" are anonymous, "basic" carries the workflow token.
TokenForms == {"plain", "challenge", "basic"}

VARIABLES green,      \* digest of the green tag
          tags,       \* revision -> digest, "none" when never pushed
          refuses,    \* token forms the registry answers without a token
          env,        \* credentials of this job
          fetchPhase,      \* where the fetch is
          wanted,     \* the revision to pull
          receipt,    \* identity of green when it was resolved, <<>> for a pinned pack
          pulled,     \* the body the immutable tag gave
          tarball, manifest,  \* bytes held: a digest, or "altered"
          placed,     \* what was written: [revision, receipt, body, tarball, manifest, lied]
          greens,     \* what green has been
          lied,       \* requests of this fetch that got another body: in {"green", "pull"}
          pushes, badAnswers, fetches

fetchVars == <<green, tags, refuses, env, fetchPhase, wanted, greens, lied, receipt, pulled, tarball,
               manifest, placed, pushes, badAnswers, fetches>>
remote == <<green, tags, refuses, env, greens, pushes>>

(* pickBundleLayer: by title, else by media type, else the first one. *)
BundleLayer(layers) ==
  LET titled == SelectInSeq(layers, LAMBDA l : l.title)
      media  == SelectInSeq(layers, LAMBDA l : l.media = "tar")
  IN layers[IF titled # 0 THEN titled ELSE IF media # 0 THEN media ELSE 1]

(* pickFleetManifestLayer: exactly one. *)
ManifestLayers(layers) == {i \in DOMAIN layers : layers[i].media = "manifest"}

(* An index stands for its first manifest. *)
Concrete(digest) == IF Manifests[digest].layers = <<>> THEN Manifests[digest].index ELSE digest

(* ociManifestReceipt: the identity of the body that came, all of it. *)
ReceiptOf(body) ==
  [digest |-> body.digest, revision |-> body.revision,
   layers |-> [i \in DOMAIN body.layers |-> body.layers[i].digest]]
Complete(body) == body.revision # "none" /\ body.layers # <<>>

(* httpGetWithRedirects: a redirect past the limit is an answer like any other. *)
Answers(good, bad) == {good} \cup IF badAnswers < MaxBadAnswers THEN bad ELSE {}
BlobAnswers(digest) == Answers(digest, {"altered", "error"})
ManifestAnswers(body) == Answers(body, {NoBody} \cup ManifestBodies)
Spent(answer, good) == badAnswers' = IF answer = good THEN badAnswers ELSE badAnswers + 1
Noted(request, body, good) == lied' = IF body \in {good, NoBody} THEN lied ELSE lied \cup {request}
Followed(hops) == hops <= MaxRedirects

(* getGhcrToken: the endpoint, the challenge, and the challenge again with the *)
(* workflow token if the job has one.                                          *)
TokenGranted == \E form \in TokenForms \ refuses : form = "basic" => "workflow" \in env

FetchInit ==
  /\ tags \in [Revisions -> {"none"} \cup Digests]
  /\ \A r \in Revisions : tags[r] # "none" => Manifests[Concrete(tags[r])].revision = r
  /\ green \in Digests
  /\ refuses \in Refusals /\ env \in SUBSET Credentials
  /\ fetchPhase = "idle" /\ wanted = "none" /\ greens = {Concrete(green)}
  /\ receipt = <<>> /\ pulled = NoBody /\ tarball = "none" /\ manifest = "none" /\ lied = {}
  /\ placed = <<>> /\ pushes = 0 /\ badAnswers = 0 /\ fetches = 0

(* Of green, or of a pack pinned by its tag. *)
StartFetch ==
  /\ fetchPhase = "idle" /\ fetches < MaxFetches /\ fetches' = fetches + 1
  /\ wanted' \in {"none"} \cup Revisions
  /\ fetchPhase' = IF ~TokenGranted THEN "failed" ELSE IF wanted' = "none" THEN "green" ELSE "pull"
  /\ receipt' = <<>> /\ pulled' = NoBody /\ tarball' = "none" /\ manifest' = "none" /\ lied' = {}
  /\ UNCHANGED <<remote, placed, badAnswers>>

(* resolveGreenPack: anything wrong gives nothing to install. *)
ResolveGreen ==
  /\ fetchPhase = "green"
  /\ LET good == Body(Concrete(green))
     IN \E body \in ManifestAnswers(good) :
          /\ Spent(body, good) /\ Noted("green", body, good)
          /\ IF Complete(body)
               THEN receipt' = <<ReceiptOf(body)>> /\ wanted' = body.revision /\ fetchPhase' = "pull"
               ELSE receipt' = <<>> /\ wanted' = wanted /\ fetchPhase' = "failed"
  /\ UNCHANGED <<remote, pulled, tarball, manifest, placed, fetches>>

(* A mutant of SameReceipt: the revision alone is compared. *)
SameRevision(body) == receipt = <<>> \/ body.revision = receipt[1].revision

(* The pull by the tag fleet-pack-<revision>.  The body is compared with the *)
(* receipt of green if there is one, and with nothing if the pack is pinned. *)
SameReceipt(body) == receipt = <<>> \/ (Complete(body) /\ ReceiptOf(body) = receipt[1])
Tagged == IF wanted \in Revisions /\ tags[wanted] # "none" THEN Body(Concrete(tags[wanted])) ELSE NoBody
PullManifest ==
  /\ fetchPhase = "pull"
  /\ \E body \in ManifestAnswers(Tagged) :
       /\ Spent(body, Tagged) /\ Noted("pull", body, Tagged) /\ pulled' = body
       /\ fetchPhase' = IF body # NoBody /\ TokenGranted /\ SameReceipt(body) THEN "tarball" ELSE "failed"
  /\ UNCHANGED <<remote, wanted, receipt, tarball, manifest, placed, fetches>>

(* fetchBlob and its SHA-256. *)
PullTarball ==
  /\ fetchPhase = "tarball"
  /\ \/ pulled.layers = <<>> /\ fetchPhase' = "failed" /\ UNCHANGED <<tarball, badAnswers>>
     \/ /\ pulled.layers # <<>>
        /\ LET digest == BundleLayer(pulled.layers).digest
           IN \E answer \in BlobAnswers(digest), hops \in {1, MaxRedirects + 1} :
                /\ Spent(answer, digest) /\ tarball' = answer
                /\ fetchPhase' = IF answer = digest /\ Followed(hops) THEN "manifest" ELSE "failed"
  /\ UNCHANGED <<remote, wanted, receipt, pulled, manifest, placed, lied, fetches>>

PullJson ==
  /\ fetchPhase = "manifest"
  /\ LET layers == pulled.layers
     IN \/ /\ \A i \in DOMAIN layers : ManifestLayers(layers) # {i}
           /\ fetchPhase' = "failed" /\ UNCHANGED <<manifest, badAnswers>>
        \/ \E i \in DOMAIN layers :
             /\ ManifestLayers(layers) = {i}
             /\ \E answer \in BlobAnswers(layers[i].digest) :
                  /\ Spent(answer, layers[i].digest) /\ manifest' = answer
                  /\ fetchPhase' = IF answer = layers[i].digest THEN "write" ELSE "failed"
  /\ UNCHANGED <<remote, wanted, receipt, pulled, tarball, placed, lied, fetches>>

WriteFetched ==
  /\ fetchPhase = "write" /\ fetchPhase' = "idle"
  /\ placed' = <<[revision |-> wanted, receipt |-> receipt, body |-> pulled,
                   tarball |-> tarball, manifest |-> manifest, lied |-> lied]>>
  /\ UNCHANGED <<remote, wanted, receipt, pulled, tarball, manifest, lied, badAnswers, fetches>>

GiveUp ==
  /\ fetchPhase = "failed" /\ fetchPhase' = "idle"
  /\ UNCHANGED <<remote, wanted, receipt, pulled, tarball, manifest, placed, lied, badAnswers, fetches>>

(* Producers: a pack is pushed under its revision, again perhaps, and green moves. *)
PushPack ==
  /\ pushes < MaxPushes /\ pushes' = pushes + 1
  /\ \E d \in Digests :
       /\ Manifests[Concrete(d)].revision # "none"
       /\ tags' = [tags EXCEPT ![Manifests[Concrete(d)].revision] = d]
  /\ UNCHANGED <<green, greens, refuses, env, fetchPhase, wanted, receipt, pulled, tarball, manifest,
                 placed, lied, badAnswers, fetches>>

MoveGreen ==
  /\ pushes < MaxPushes /\ pushes' = pushes + 1 /\ green' \in Digests
  /\ greens' = greens \cup {Concrete(green')}
  /\ UNCHANGED <<tags, refuses, env, fetchPhase, wanted, receipt, pulled, tarball, manifest, placed, lied,
                 badAnswers, fetches>>

FetchNext == StartFetch \/ ResolveGreen \/ PullManifest \/ PullTarball \/ PullJson \/ WriteFetched
               \/ GiveUp \/ PushPack \/ MoveGreen

FetchSpec == FetchInit /\ [][FetchNext]_fetchVars

(* Whatever producers push while a pack is fetched, what is written is the     *)
(* tarball and the JSON manifest that one body names.  If the answer about     *)
(* green was the registry's, that body is a manifest that has been green, even *)
(* when the pull was answered with other bytes.  If the answer to the pull was *)
(* the registry's, it is a manifest of the revision asked for.  So a pinned    *)
(* pack has nothing but the second, for its body is compared with nothing:     *)
(* resolveGreenPack and pullFleetBundleTarball read four times what others     *)
(* change.                                                                     *)
FetchedIsGreen ==
  \A pack \in Range(placed) :
    /\ pack.tarball = BundleLayer(pack.body.layers).digest
    /\ \A i \in ManifestLayers(pack.body.layers) : pack.manifest = pack.body.layers[i].digest
    /\ pack.receipt # <<>> /\ "green" \notin pack.lied => \E d \in greens : pack.body = Body(d)
    /\ "pull" \notin pack.lied =>
         \E d \in Digests : pack.body = Body(d) /\ pack.body.revision = pack.revision
=============================================================================
