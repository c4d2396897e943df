---------------------------- MODULE Prepare_proofs ----------------------------
(***************************************************************************)
(* What a hydration does to a member, for any inputs: its rules survive    *)
(* the move to AGENTS.md, the pack that is written was green, the doctor's *)
(* install is of what it fingerprinted, the swap of a mirrored directory   *)
(* keeps the member's files, the manifest's moves keep its texts and what  *)
(* refers to them, and the merges keep what it wrote in the files it       *)
(* shares.  The six concerns share no variable, and each has an invariant  *)
(* of its own.                                                             *)
(***************************************************************************)
EXTENDS RuleFile, Placement, WorkspaceMerge, PayloadFetch, PrepareDoctor,
        SequenceTheorems, NaturalsInduction, WellFoundedInduction, TLAPS

-----------------------------------------------------------------------------
(***************************************************************************)
(* The rules of a repository survive the move of CLAUDE.md to AGENTS.md,   *)
(* for any hydrations in any order, with a kill anywhere.  Neither the     *)
(* lock nor the depth of the history search is used: what keeps the rules  *)
(* is that CLAUDE.md never becomes authored again, that AGENTS.md never    *)
(* goes away, and that a seed waits for an authored CLAUDE.md.             *)
(***************************************************************************)

RuleTypes ==
  /\ claude \in Forms \ {"seed"}
  /\ stage \in [Hydrations -> 0 .. 4]
  /\ deferred \in [Hydrations -> BOOLEAN]
  /\ DOMAIN step = Hydrations
  /\ DOMAIN temporary = Hydrations

(* Git has what a pointer stands for: an authored CLAUDE.md is tracked, and so *)
(* is one whose rules are only in the history.                                 *)
SourceTracked == claude \in Rules \/ Recovered # "none" => "CLAUDE.md" \in tracked

(* What a run has judged still holds of the files when it acts. *)
RenameReady(h) ==
  At(h, "rename") => /\ claude \in Rules \cup {"absent", "generated"}
                     /\ claude \in Rules => ~Ruled /\ agents # "strange"

RecoverReady(h) ==
  /\ At(h, "recover") \/ At(h, "swap") => /\ claude \in {"generated", "absent"}
                                          /\ agents \in Rules => agents = Recovered
  /\ At(h, "swap") => temporary[h] = Recovered

(* A run past its install has put off the seed when CLAUDE.md is still authored. *)
SeedWaits(h) ==
  stage[h] \in {3, 4} /\ agents = "absent" /\ claude \in Rules /\ "AGENTS.md" \notin tracked
    => deferred[h]

RuleInv ==
  /\ RuleTypes /\ SourceTracked
  /\ \A h \in Hydrations : RenameReady(h) /\ RecoverReady(h) /\ SeedWaits(h)

(* An authored text is none of the states a rule file can otherwise be in. *)
LEMMA RuleNames ==
  /\ "blank" \notin Rules /\ "generated" \notin Rules /\ "seed" \notin Rules
  /\ "absent" \notin Rules /\ "strange" \notin Rules /\ "none" \notin Rules
  BY RulesAssumption

(* A step that leaves the two files alone, or empties CLAUDE.md or makes it a *)
(* pointer, keeps what the other hydrations rely on.                          *)
LEMMA OthersReady ==
  ASSUME RuleInv, NEW h \in Hydrations, NEW o \in Hydrations \ {h},
         UNCHANGED <<history, tracked>>,
         step'[o] = step[o], stage'[o] = stage[o],
         temporary'[o] = temporary[o], deferred'[o] = deferred[o],
         \/ UNCHANGED <<claude, agents>>
         \/ claude' = "generated" /\ claude \notin Rules /\ agents' = agents
         \/ agents' = "seed" /\ claude' = claude /\ claude \notin Rules
         \/ agents' = claude /\ claude' = "absent" /\ claude # "absent"
         \/ agents' = Recovered /\ claude' = claude /\ claude \notin Rules
  PROVE  (RenameReady(o) /\ RecoverReady(o) /\ SeedWaits(o))'
  <1>1. Recovered' = Recovered
    BY DEF Recovered
  <1>2. RenameReady(o)'
    BY RuleNames DEF RuleInv, RenameReady, RuleTypes, At, Ruled, Forms, Bodies
  <1>3. RecoverReady(o)'
    <2>1. ASSUME (At(o, "recover") \/ At(o, "swap"))'
          PROVE  claude' \in {"generated", "absent"} /\ (agents' \in Rules => agents' = Recovered)
      <3>1. claude \in {"generated", "absent"} /\ (agents \in Rules => agents = Recovered)
        BY <2>1 DEF RuleInv, RecoverReady, At
      <3> QED
        BY <3>1, RuleNames
    <2>2. ASSUME At(o, "swap")' PROVE temporary'[o] = Recovered
      BY <2>2 DEF RuleInv, RecoverReady, At
    <2> QED
      BY <1>1, <2>1, <2>2 DEF RecoverReady
  <1>4. SeedWaits(o)'
    BY RuleNames DEF RuleInv, SeedWaits, RuleTypes
  <1> QED
    BY <1>2, <1>3, <1>4

-----------------------------------------------------------------------------
(* Before the first hydration nothing is written, so nothing is lost. *)
LEMMA InitReady == RuleInit => RuleInv
  <1> SUFFICES ASSUME RuleInit PROVE RuleInv
    OBVIOUS
  <1>1. RuleTypes
    BY DEF RuleInit, RuleTypes
  <1>2. SourceTracked
    BY DEF RuleInit, SourceTracked, Recovered
  <1>3. ASSUME NEW h \in Hydrations PROVE RenameReady(h) /\ RecoverReady(h) /\ SeedWaits(h)
    BY DEF RuleInit, RenameReady, RecoverReady, SeedWaits, At
  <1> QED
    BY <1>1, <1>2, <1>3 DEF RuleInv

HydrationStep(h) ==
  \/ StartRun(h) \/ Judge(h) \/ Refuse(h) \/ RenameLegacy(h) \/ WriteRecovered(h)
  \/ RenameRecovered(h) \/ StageEffect(h) \/ SkipAdapters(h) \/ CrashRun(h)

(* What the step of h leaves of the types and of the tracked sources. *)
LEMMA StepTypes ==
  ASSUME RuleInv, NEW h \in Hydrations, HydrationStep(h)
  PROVE  RuleTypes' /\ SourceTracked'
  <1>1. RuleTypes'
    <2>1. claude' \in {claude, "absent", "generated"}
      BY DEF HydrationStep, StartRun, Judge, Refuse, RenameLegacy, WriteRecovered, RenameRecovered,
             StageEffect, SkipAdapters, CrashRun
    <2>2. claude' \in Forms \ {"seed"}
      BY <2>1 DEF RuleInv, RuleTypes, Forms, Bodies
    <2>3. DOMAIN step' = Hydrations
      BY DEF HydrationStep, RuleInv, RuleTypes, Goto, EndRun, StartRun, Judge, Refuse, RenameLegacy,
             WriteRecovered, RenameRecovered, StageEffect, SkipAdapters, CrashRun
    <2>4. DOMAIN temporary' = Hydrations
      BY DEF HydrationStep, RuleInv, RuleTypes, StartRun, Judge, Refuse, RenameLegacy,
             WriteRecovered, RenameRecovered, StageEffect, SkipAdapters, CrashRun
    <2>5. stage' \in [Hydrations -> 0 .. 4]
      BY DEF HydrationStep, RuleInv, RuleTypes, EndRun, StartRun, Judge, Refuse, RenameLegacy,
             WriteRecovered, RenameRecovered, StageEffect, SkipAdapters, CrashRun
    <2>6. deferred' \in [Hydrations -> BOOLEAN]
      BY DEF HydrationStep, RuleInv, RuleTypes, DeferSeed, StartRun, Judge, Refuse, RenameLegacy,
             WriteRecovered, RenameRecovered, StageEffect, SkipAdapters, CrashRun
    <2> QED
      BY <2>2, <2>3, <2>4, <2>5, <2>6 DEF RuleTypes
  <1>2. SourceTracked'
    <2>1. tracked' = tracked /\ history' = history /\ claude' \in {claude, "absent", "generated"}
      BY DEF HydrationStep, StartRun, Judge, Refuse, RenameLegacy, WriteRecovered, RenameRecovered,
             StageEffect, SkipAdapters, CrashRun
    <2>2. Recovered' = Recovered
      BY <2>1 DEF Recovered
    <2> QED
      BY <2>1, <2>2, RuleNames DEF RuleInv, SourceTracked
  <1> QED
    BY <1>1, <1>2

(* What a step of h may do to the two files. *)
LEMMA StepFiles ==
  ASSUME RuleInv, NEW h \in Hydrations, HydrationStep(h)
  PROVE  \/ UNCHANGED <<claude, agents>>
         \/ claude' = "generated" /\ claude \notin Rules /\ agents' = agents
         \/ agents' = "seed" /\ claude' = claude /\ claude \notin Rules
         \/ agents' = claude /\ claude' = "absent" /\ claude # "absent"
         \/ agents' = Recovered /\ claude' = claude /\ claude \notin Rules
  <1>1. CASE UNCHANGED <<claude, agents>>
    BY <1>1
  <1>2. CASE RenameLegacy(h)
    BY <1>2 DEF RenameLegacy
  <1>3. CASE RenameRecovered(h)
    <2>1. temporary[h] = Recovered /\ claude \in {"generated", "absent"}
      BY <1>3 DEF RuleInv, RecoverReady, RenameRecovered
    <2> QED
      BY <1>3, <2>1, RuleNames DEF RenameRecovered
  <1>4. CASE StageEffect(h)
    <2>1. CASE stage[h] = 3 /\ agents = "absent" /\ ~deferred[h] /\ "AGENTS.md" \notin tracked
      <3>1. agents' = "seed" /\ claude' = claude
        BY <1>4, <2>1 DEF StageEffect
      <3>2. claude \notin Rules
        BY <2>1 DEF RuleInv, SeedWaits
      <3> QED
        BY <3>1, <3>2
    <2>2. CASE /\ stage[h] = 4 /\ ~deferred[h] /\ claude # "strange" /\ "CLAUDE.md" \notin tracked
      <3>1. agents' = agents /\ claude' = "generated"
        BY <1>4, <2>2 DEF StageEffect
      <3>2. claude \notin Rules
        BY <2>2 DEF RuleInv, SourceTracked
      <3> QED
        BY <3>1, <3>2
    <2>3. CASE /\ ~(stage[h] = 3 /\ agents = "absent" /\ ~deferred[h] /\ "AGENTS.md" \notin tracked)
               /\ ~(stage[h] = 4 /\ ~deferred[h] /\ claude # "strange" /\ "CLAUDE.md" \notin tracked)
      BY <1>4, <2>3 DEF StageEffect
    <2> QED
      BY <2>1, <2>2, <2>3
  <1> QED
    BY <1>1, <1>2, <1>3, <1>4 DEF HydrationStep, StartRun, Judge, Refuse, WriteRecovered,
       SkipAdapters, CrashRun

(* What h itself relies on after its step. *)
LEMMA OwnReady ==
  ASSUME RuleInv, NEW h \in Hydrations, HydrationStep(h)
  PROVE  (RenameReady(h) /\ RecoverReady(h) /\ SeedWaits(h))'
  <1> DEFINE Calm == step'[h] \notin {"rename", "recover", "swap"}
  <1>1. ASSUME Calm PROVE RenameReady(h)' /\ RecoverReady(h)'
    BY <1>1 DEF RenameReady, RecoverReady, At
  <1>2. ASSUME stage'[h] \notin {3, 4} PROVE SeedWaits(h)'
    BY <1>2 DEF SeedWaits
  <1>3. CASE StartRun(h) \/ Refuse(h) \/ SkipAdapters(h) \/ CrashRun(h)
    <2>1. Calm
      BY <1>3 DEF RuleInv, RuleTypes, StartRun, Refuse, SkipAdapters, CrashRun, Goto, EndRun
    <2>2. stage'[h] \notin {3, 4}
      BY <1>3 DEF RuleInv, RuleTypes, StartRun, Refuse, SkipAdapters, CrashRun, Goto, EndRun
    <2> QED
      BY <1>1, <1>2, <2>1, <2>2
  <1>4. CASE Judge(h)
    <2> DEFINE verdict == IF Preserved(h) # {} THEN "keep" ELSE Verdict
    <2>1. UNCHANGED <<claude, agents, history, tracked, stage, temporary, deferred>>
      BY <1>4 DEF Judge
    <2>2. step'[h] = IF verdict = "keep" THEN "effect" ELSE verdict
      BY <1>4 DEF Judge, Goto, RuleInv, RuleTypes
    <2>3. SeedWaits(h)'
      BY <2>1 DEF RuleInv, SeedWaits
    <2>4. CASE step'[h] = "rename"
      <3>1. Verdict = "rename"
        BY <2>2, <2>4
      <3>2. claude \in Rules /\ ~Ruled /\ agents # "strange"
        BY <3>1 DEF Verdict, RuleInv, RuleTypes, Forms, Bodies, IsGenerated
      <3>3. RenameReady(h)' /\ RecoverReady(h)'
        BY <2>1, <2>4, <3>2 DEF RenameReady, RecoverReady, At, Ruled
      <3> QED
        BY <2>3, <3>3
    <2>5. CASE step'[h] = "recover"
      <3>1. Verdict = "recover"
        BY <2>2, <2>5
      <3>2. claude = "generated" /\ ~Ruled
        BY <3>1 DEF Verdict, IsGenerated
      <3>3. agents \notin Rules
        BY <3>2, RuleNames DEF Ruled, Bodies, IsGenerated
      <3>4. RenameReady(h)' /\ RecoverReady(h)'
        BY <2>1, <2>5, <3>2, <3>3 DEF RenameReady, RecoverReady, At
      <3> QED
        BY <2>3, <3>4
    <2>6. CASE step'[h] \notin {"rename", "recover"}
      <3>1. Verdict # "swap"
        BY DEF Verdict
      <3> QED
        BY <1>1, <2>2, <2>3, <2>6, <3>1
    <2> QED
      BY <2>4, <2>5, <2>6
  <1>5. CASE RenameLegacy(h)
    <2>1. Calm
      BY <1>5 DEF RuleInv, RuleTypes, RenameLegacy, Goto, EndRun
    <2>2. claude' \notin Rules
      <3>1. claude' = "absent"
        BY <1>5 DEF RenameLegacy
      <3> QED
        BY <3>1, RuleNames
    <2> QED
      BY <1>1, <2>1, <2>2 DEF SeedWaits
  <1>6. CASE WriteRecovered(h)
    <2>1. UNCHANGED <<claude, agents, history, tracked, stage, deferred>> /\ step[h] = "recover"
          /\ step'[h] = "swap" /\ temporary'[h] = Recovered
      BY <1>6 DEF WriteRecovered, Goto, At, RuleInv, RuleTypes
    <2>2. claude \in {"generated", "absent"} /\ (agents \in Rules => agents = Recovered)
      BY <2>1 DEF RuleInv, RecoverReady, At
    <2>3. Recovered' = Recovered
      BY <2>1 DEF Recovered
    <2>4. SeedWaits(h)'
      BY <2>1 DEF RuleInv, SeedWaits
    <2>5. RenameReady(h)' /\ RecoverReady(h)'
      BY <2>1, <2>2, <2>3 DEF RenameReady, RecoverReady, At
    <2> QED
      BY <2>4, <2>5
  <1>7. CASE RenameRecovered(h)
    <2>1. Calm
      BY <1>7 DEF RuleInv, RuleTypes, RenameRecovered, Goto
    <2>2. claude' \notin Rules
      <3>1. claude' = claude /\ claude \in {"generated", "absent"}
        BY <1>7 DEF RenameRecovered, RuleInv, RecoverReady
      <3> QED
        BY <3>1, RuleNames
    <2> QED
      BY <1>1, <2>1, <2>2 DEF SeedWaits
  <1>8. CASE StageEffect(h)
    <2>1. Calm
      BY <1>8 DEF RuleInv, RuleTypes, StageEffect, Goto
    <2>2. SeedWaits(h)'
      <3>1. CASE stage[h] = 2
        <4>1. deferred'[h] = DeferSeed /\ agents' = agents /\ claude' = claude /\ tracked' = tracked
          BY <1>8, <3>1 DEF RuleInv, RuleTypes, StageEffect
        <4>2. agents = "absent" /\ claude \in Rules /\ "AGENTS.md" \notin tracked => DeferSeed
          BY DEF DeferSeed, RuleInv, SourceTracked, Authored
        <4> QED
          BY <4>1, <4>2 DEF SeedWaits
      <3>2. CASE stage[h] = 3
        <4>1. /\ deferred'[h] = deferred[h] /\ claude' = claude /\ tracked' = tracked
              /\ agents' \in {agents, "seed"}
          BY <1>8, <3>2 DEF RuleInv, RuleTypes, StageEffect
        <4> QED
          BY <3>2, <4>1 DEF RuleInv, SeedWaits
      <3>3. CASE stage[h] \notin {2, 3}
        <4>1. stage'[h] \notin {3, 4}
          BY <1>8, <3>3 DEF RuleInv, RuleTypes, StageEffect
        <4> QED
          BY <1>2, <4>1
      <3> QED
        BY <3>1, <3>2, <3>3
    <2> QED
      BY <1>1, <2>1, <2>2
  <1> QED
    BY <1>3, <1>4, <1>5, <1>6, <1>7, <1>8 DEF HydrationStep

(* Every step of every hydration, and a kill, keeps the invariant. *)
LEMMA RuleInvariant == RuleSpec => []RuleInv
  <1>1. ASSUME RuleInv, NEW h \in Hydrations, HydrationStep(h) PROVE RuleInv'
    <2>1. RuleTypes' /\ SourceTracked'
      BY <1>1, StepTypes
    <2>2. ASSUME NEW o \in Hydrations \ {h} PROVE (RenameReady(o) /\ RecoverReady(o) /\ SeedWaits(o))'
      <3>1. UNCHANGED <<history, tracked>> /\ step'[o] = step[o] /\ stage'[o] = stage[o]
            /\ temporary'[o] = temporary[o] /\ deferred'[o] = deferred[o]
        BY <1>1 DEF RuleInv, RuleTypes, HydrationStep, EndRun, Goto, StartRun, Judge, Refuse,
           RenameLegacy, WriteRecovered, RenameRecovered, StageEffect, SkipAdapters, CrashRun
      <3> QED
        BY <1>1, <3>1, StepFiles, OthersReady
    <2> QED
      BY <1>1, <2>1, <2>2, OwnReady DEF RuleInv
  <1>2. ASSUME RuleInv, UNCHANGED ruleVars PROVE RuleInv'
    <2>1. Recovered' = Recovered
      BY <1>2 DEF ruleVars, Recovered
    <2> QED
      BY <1>2, <2>1 DEF RuleInv, RuleTypes, SourceTracked, RenameReady, RecoverReady, SeedWaits,
         At, Ruled, ruleVars
  <1>3. RuleInv /\ [RuleNext]_ruleVars => RuleInv'
    BY <1>1, <1>2 DEF RuleNext, HydrationStep
  <1> QED
    BY <1>3, InitReady, PTL DEF RuleSpec

(* The text that rules a repository is never changed by the migration, by the  *)
(* seed or by the projected pointer, whatever hydrations run together and      *)
(* wherever one is killed, but in the two ways the code leaves open.           *)
THEOREM RulesNeverLost == RuleSpec => RulesSurvive
  <1>1. ASSUME RuleInv, NEW h \in Hydrations, HydrationStep(h), Authority \in Rules
        PROVE  Authority' = Authority \/ Overtaken(h) \/ Hidden(h)
    <2>1. Recovered' = Recovered
      <3>1. history' = history
        BY <1>1 DEF HydrationStep, StartRun, Judge, Refuse, RenameLegacy, WriteRecovered,
           RenameRecovered, StageEffect, SkipAdapters, CrashRun
      <3> QED
        BY <3>1 DEF Recovered
    <2>2. CASE UNCHANGED <<claude, agents>>
      BY <2>1, <2>2 DEF Authority, Ruled
    <2>3. CASE RenameLegacy(h) /\ ~UNCHANGED <<claude, agents>> /\ ~Overtaken(h)
      <3>1. agents' = claude /\ claude \in Rules /\ ~Ruled /\ agents # "strange"
        BY <1>1, <2>3 DEF RenameLegacy, RuleInv, RenameReady, Overtaken, IsGenerated
      <3>2. Authority = claude
        BY <3>1 DEF Authority
      <3>3. Authority' = agents'
        BY <3>1, RuleNames DEF Authority, Ruled, Bodies, IsGenerated
      <3> QED
        BY <3>1, <3>2, <3>3
    <2>4. CASE RenameRecovered(h)
      <3>1. agents' = Recovered /\ claude' = claude /\ claude \in {"generated", "absent"}
            /\ (agents \in Rules => agents = Recovered)
        BY <1>1, <2>4 DEF RenameRecovered, RuleInv, RecoverReady, At
      <3>2. Authority = Recovered
        BY <1>1, <3>1, RuleNames DEF Authority, IsGenerated
      <3>3. Authority' = agents'
        BY <1>1, <3>1, <3>2, RuleNames DEF Authority, Ruled, Bodies, IsGenerated
      <3> QED
        BY <3>1, <3>2, <3>3
    <2>5. CASE StageEffect(h) /\ agents' # agents
      <3>1. stage[h] = 3 /\ agents = "absent" /\ ~deferred[h] /\ "AGENTS.md" \notin tracked
            /\ At(h, "effect")
        BY <2>5 DEF StageEffect
      <3>2. claude \notin Rules
        BY <1>1, <3>1 DEF RuleInv, SeedWaits
      <3>3. Recovered # "none"
        BY <1>1, <3>1, <3>2, RuleNames DEF Authority, Ruled, Bodies
      <3>4. "CLAUDE.md" \in tracked
        BY <1>1, <3>3 DEF RuleInv, SourceTracked
      <3> QED
        BY <3>1, <3>4 DEF Hidden
    <2>6. CASE StageEffect(h) /\ claude' # claude
      <3>1. claude' = "generated" /\ agents' = agents /\ "CLAUDE.md" \notin tracked
        BY <2>6 DEF StageEffect
      <3>2. claude \notin Rules /\ Recovered = "none"
        BY <1>1, <3>1 DEF RuleInv, SourceTracked
      <3>3. Authority = agents /\ Ruled
        BY <1>1, <3>2, RuleNames DEF Authority
      <3> QED
        BY <3>1, <3>3 DEF Authority, Ruled
    <2> QED
      BY <1>1, <2>2, <2>3, <2>4, <2>5, <2>6 DEF HydrationStep, StartRun, Judge, Refuse,
         WriteRecovered, SkipAdapters, CrashRun
  <1>2. RuleInv /\ [RuleNext]_ruleVars =>
          [\/ Authority' = Authority \/ Authority \notin Rules
           \/ \E h \in Hydrations : Overtaken(h) \/ Hidden(h)]_ruleVars
    BY <1>1 DEF RuleNext, HydrationStep
  <1> QED
    BY <1>2, RuleInvariant, PTL DEF RuleSpec, RulesSurvive

-----------------------------------------------------------------------------
(***************************************************************************)
(* The fetch of a pack, for any registry of packs, any pushes and any      *)
(* answers.  What is held when the pack is written was settled at the pull *)
(* by tag: by comparison with what was green, if that was asked, and by    *)
(* the answer alone if the pack is pinned; digests do the rest.            *)
(***************************************************************************)

FetchTypes ==
  /\ tags \in [Revisions -> {"none"} \cup Digests] /\ green \in Digests
  /\ Concrete(green) \in greens /\ greens \subseteq Digests

(* A tag of a revision is only ever a pack of that revision. *)
TagsNamed ==
  \A r \in Revisions : tags[r] # "none" => Manifests[Concrete(tags[r])].revision = r

(* What the fetch has settled by the time it is at a phase. *)
Resolved == receipt # <<>> /\ "green" \notin lied => receipt[1].digest \in greens
Pulled ==
  fetchPhase \in {"tarball", "manifest", "write"} =>
    /\ pulled \in ManifestBodies
    /\ receipt # <<>> => receipt[1].digest = pulled.digest
    /\ "pull" \notin lied => \E d \in Digests : pulled = Body(d) /\ pulled.revision = wanted
TarballHeld ==
  fetchPhase \in {"manifest", "write"} => tarball = BundleLayer(pulled.layers).digest
ManifestHeld ==
  fetchPhase = "write" =>
    \A i \in ManifestLayers(pulled.layers) : manifest = pulled.layers[i].digest

(* What is written, of the packs that have been green. *)
GreenPack(pack, were) ==
  /\ pack.tarball = BundleLayer(pack.body.layers).digest
  /\ \A i \in ManifestLayers(pack.body.layers) : pack.manifest = pack.body.layers[i].digest
  /\ pack.receipt # <<>> /\ "green" \notin pack.lied => \E d \in were : pack.body = Body(d)
  /\ "pull" \notin pack.lied =>
       \E d \in Digests : pack.body = Body(d) /\ pack.body.revision = pack.revision
Placed(were) == \A pack \in Range(placed) : GreenPack(pack, were)

FetchInv ==
  /\ FetchTypes /\ TagsNamed
  /\ Resolved /\ Pulled /\ TarballHeld /\ ManifestHeld /\ Placed(greens)

(* What an index stands for is a pack of the registry. *)
LEMMA ConcreteIsDigest ==
  ASSUME NEW d \in Digests
  PROVE  Concrete(d) \in Digests /\ d # "none"
  BY FetchConstants DEF Concrete

(* The digest of a body tells which manifest of the registry it is. *)
LEMMA DigestTells ==
  ASSUME NEW body \in ManifestBodies, NEW d \in Digests, body.digest = d
  PROVE  body = Body(d)
  <1>1. Body(d) \in ManifestBodies /\ Body(d).digest = d
    BY DEF ManifestBodies, Body
  <1> QED
    BY <1>1, FetchConstants

(* More packs having been green keeps what was placed green. *)
LEMMA GreenStays ==
  ASSUME NEW pack, NEW were, NEW more, GreenPack(pack, were), were \subseteq more
  PROVE  GreenPack(pack, more)
  BY DEF GreenPack

(* Before the first fetch nothing is settled and nothing written. *)
LEMMA FetchInitInv == FetchInit => FetchInv
  <1> SUFFICES ASSUME FetchInit PROVE FetchInv
    OBVIOUS
  <1>1. FetchTypes /\ TagsNamed
    BY ConcreteIsDigest DEF FetchInit, FetchTypes, TagsNamed
  <1>2. fetchPhase = "idle" /\ receipt = <<>> /\ placed = <<>>
    BY DEF FetchInit
  <1>3. Range(placed) = {}
    BY <1>2 DEF Range
  <1> QED
    BY <1>1, <1>2, <1>3
    DEF FetchInv, Resolved, Pulled, TarballHeld, ManifestHeld, Placed

(* The steps of a fetch up to the pull. *)
LEMMA FetchAsks ==
  ASSUME FetchInv, StartFetch \/ ResolveGreen \/ GiveUp
  PROVE  FetchInv'
  <1> USE DEF FetchInv
  <1>1. UNCHANGED <<tags, green, greens, placed>>
    BY DEF StartFetch, ResolveGreen, GiveUp, remote
  <1>2. FetchTypes' /\ TagsNamed' /\ Placed(greens)'
    BY <1>1 DEF FetchTypes, TagsNamed, Placed, Concrete
  <1>3. fetchPhase' \in {"idle", "failed", "green", "pull"}
    BY DEF StartFetch, ResolveGreen, GiveUp
  <1>4. Pulled' /\ TarballHeld' /\ ManifestHeld'
    BY <1>3 DEF Pulled, TarballHeld, ManifestHeld
  <1>5. CASE StartFetch
    <2>1. receipt' = <<>>
      BY <1>5 DEF StartFetch
    <2> QED
      BY <1>2, <1>4, <2>1 DEF Resolved
  <1>6. CASE ResolveGreen
    <2> DEFINE good == Body(Concrete(green))
    <2>1. PICK body \in ManifestAnswers(good) :
            /\ Noted("green", body, good)
            /\ receipt' = IF Complete(body) THEN <<ReceiptOf(body)>> ELSE <<>>
      BY <1>6 DEF ResolveGreen
    <2>2. ASSUME receipt' # <<>>, "green" \notin lied' PROVE receipt'[1].digest \in greens'
      <3>1. receipt' = <<ReceiptOf(body)>> /\ Complete(body)
        BY <2>1, <2>2
      <3>2. body = good
        BY <2>1, <2>2, <3>1 DEF Noted, Complete, NoBody
      <3>3. receipt'[1].digest = good.digest
        BY <3>1, <3>2 DEF ReceiptOf
      <3> QED
        BY <1>1, <3>3 DEF FetchTypes, Body
    <2> QED
      BY <1>2, <1>4, <2>2 DEF Resolved
  <1>7. CASE GiveUp
    <2>1. UNCHANGED <<receipt, lied>>
      BY <1>7 DEF GiveUp
    <2> QED
      BY <1>1, <1>2, <1>4, <2>1 DEF Resolved
  <1> QED
    BY <1>5, <1>6, <1>7

(* The pull by tag: what passes the comparison has the digest of what was      *)
(* green, and what was not altered is the manifest of the tag.                 *)
LEMMA FetchPulls ==
  ASSUME FetchInv, PullManifest
  PROVE  FetchInv'
  <1> USE DEF FetchInv
  <1>1. UNCHANGED <<tags, green, greens, placed, wanted, receipt>> /\ fetchPhase = "pull"
    BY DEF PullManifest, remote
  <1>2. PICK body \in ManifestAnswers(Tagged) :
          /\ Noted("pull", body, Tagged) /\ pulled' = body
          /\ fetchPhase' = IF body # NoBody /\ TokenGranted /\ SameReceipt(body)
                             THEN "tarball" ELSE "failed"
    BY DEF PullManifest
  <1>3. FetchTypes' /\ TagsNamed' /\ Placed(greens)'
    BY <1>1 DEF FetchTypes, TagsNamed, Placed, Concrete
  <1>4. Resolved'
    BY <1>1, <1>2 DEF Resolved, Noted
  <1>5. CASE fetchPhase' = "failed"
    BY <1>3, <1>4, <1>5 DEF Pulled, TarballHeld, ManifestHeld
  <1>6. CASE fetchPhase' # "failed"
    <2>1. body # NoBody /\ SameReceipt(body) /\ fetchPhase' = "tarball"
      BY <1>2, <1>6
    <2>2. ASSUME Tagged # NoBody
          PROVE  \E d \in Digests : Tagged = Body(d) /\ Tagged.revision = wanted
      <3>1. wanted \in Revisions /\ tags[wanted] # "none" /\ Tagged = Body(Concrete(tags[wanted]))
        BY <2>2 DEF Tagged
      <3>2. tags[wanted] \in Digests
        BY <3>1 DEF FetchTypes
      <3>3. Concrete(tags[wanted]) \in Digests
        BY <3>2, ConcreteIsDigest
      <3>4. Tagged.revision = wanted
        BY <3>1 DEF TagsNamed, Body
      <3> QED
        BY <3>1, <3>3, <3>4
    <2>3. Tagged # NoBody => Tagged \in ManifestBodies
      BY <2>2 DEF ManifestBodies
    <2>4. body \in ManifestBodies
      BY <2>1, <2>3 DEF ManifestAnswers, Answers
    <2>5. receipt # <<>> => receipt[1].digest = body.digest
      BY <2>1 DEF SameReceipt, ReceiptOf
    <2>6. "pull" \notin lied' => body = Tagged
      BY <1>2, <2>1 DEF Noted
    <2>7. Pulled'
      BY <1>1, <1>2, <2>1, <2>2, <2>4, <2>5, <2>6 DEF Pulled
    <2> QED
      BY <1>3, <1>4, <2>1, <2>7 DEF TarballHeld, ManifestHeld
  <1> QED
    BY <1>5, <1>6

(* The blobs, and the write. *)
LEMMA FetchTakes ==
  ASSUME FetchInv, PullTarball \/ PullJson \/ WriteFetched
  PROVE  FetchInv'
  <1> USE DEF FetchInv
  <1>1. UNCHANGED <<tags, green, greens, wanted, receipt, pulled, lied>>
    BY DEF PullTarball, PullJson, WriteFetched, remote
  <1>2. FetchTypes' /\ TagsNamed' /\ Resolved'
    BY <1>1 DEF FetchTypes, TagsNamed, Resolved, Concrete
  <1>3. CASE PullTarball
    <2>1. /\ fetchPhase = "tarball" /\ placed' = placed
          /\ \/ fetchPhase' = "failed"
             \/ /\ fetchPhase' = "manifest"
                /\ tarball' = BundleLayer(pulled.layers).digest
      BY <1>3 DEF PullTarball
    <2> QED
      BY <1>1, <1>2, <2>1 DEF Pulled, TarballHeld, ManifestHeld, Placed
  <1>4. CASE PullJson
    <2>1. fetchPhase = "manifest" /\ UNCHANGED <<placed, tarball>>
      BY <1>4 DEF PullJson
    <2>2. \/ fetchPhase' = "failed"
          \/ /\ fetchPhase' = "write"
             /\ \E i \in DOMAIN pulled.layers :
                  /\ ManifestLayers(pulled.layers) = {i}
                  /\ manifest' = pulled.layers[i].digest
      BY <1>4 DEF PullJson
    <2> QED
      BY <1>1, <1>2, <2>1, <2>2 DEF Pulled, TarballHeld, ManifestHeld, Placed
  <1>5. CASE WriteFetched
    <2> DEFINE pack == [revision |-> wanted, receipt |-> receipt, body |-> pulled,
                        tarball |-> tarball, manifest |-> manifest, lied |-> lied]
    <2>1. fetchPhase = "write" /\ fetchPhase' = "idle" /\ placed' = <<pack>>
      BY <1>5 DEF WriteFetched
    <2>2. GreenPack(pack, greens)
      <3>1. pack.tarball = BundleLayer(pack.body.layers).digest
        BY <2>1 DEF TarballHeld
      <3>2. \A i \in ManifestLayers(pack.body.layers) : pack.manifest = pack.body.layers[i].digest
        BY <2>1 DEF ManifestHeld
      <3>3. ASSUME pack.receipt # <<>>, "green" \notin pack.lied
            PROVE  \E d \in greens : pack.body = Body(d)
        <4>1. pulled \in ManifestBodies /\ receipt[1].digest = pulled.digest
          BY <2>1, <3>3 DEF Pulled
        <4>2. receipt[1].digest \in greens
          BY <3>3 DEF Resolved
        <4>3. pulled = Body(receipt[1].digest)
          BY <4>1, <4>2, DigestTells DEF FetchTypes
        <4> QED
          BY <4>2, <4>3
      <3>4. "pull" \notin pack.lied =>
              \E d \in Digests : pack.body = Body(d) /\ pack.body.revision = pack.revision
        BY <2>1 DEF Pulled
      <3> QED
        BY <3>1, <3>2, <3>3, <3>4 DEF GreenPack
    <2> HIDE DEF pack
    <2>3. Range(placed') = {pack}
      BY <2>1 DEF Range
    <2>4. Placed(greens)'
      BY <1>1, <2>2, <2>3 DEF Placed
    <2> QED
      BY <1>2, <2>1, <2>4 DEF Pulled, TarballHeld, ManifestHeld
  <1> QED
    BY <1>3, <1>4, <1>5

(* The producers: a pack goes under its own revision, and what was green     *)
(* once stays among the greens.                                              *)
LEMMA ProducersPush ==
  ASSUME FetchInv, PushPack \/ MoveGreen
  PROVE  FetchInv'
  <1> USE DEF FetchInv
  <1>1. UNCHANGED <<fetchPhase, wanted, receipt, pulled, tarball, manifest, placed, lied>>
    BY DEF PushPack, MoveGreen
  <1>2. Pulled' /\ TarballHeld' /\ ManifestHeld'
    BY <1>1 DEF Pulled, TarballHeld, ManifestHeld
  <1>3. greens \subseteq greens'
    BY DEF PushPack, MoveGreen
  <1>4. Resolved' /\ Placed(greens)'
    <2>1. \A pack : GreenPack(pack, greens) => GreenPack(pack, greens')
      BY <1>3, GreenStays
    <2>2. \A pack \in Range(placed') : GreenPack(pack, greens')
      BY <1>1, <2>1 DEF Placed
    <2> QED
      BY <1>1, <1>3, <2>2 DEF Resolved, Placed
  <1>5. CASE PushPack
    <2>1. PICK d \in Digests :
            /\ Manifests[Concrete(d)].revision # "none"
            /\ tags' = [tags EXCEPT ![Manifests[Concrete(d)].revision] = d]
      BY <1>5 DEF PushPack
    <2>2. UNCHANGED <<green, greens>>
      BY <1>5 DEF PushPack
    <2>3. tags' \in [Revisions -> {"none"} \cup Digests]
      BY <2>1 DEF FetchTypes
    <2>4. TagsNamed'
      <3> SUFFICES ASSUME NEW r \in Revisions, tags'[r] # "none"
                   PROVE  Manifests[Concrete(tags'[r])].revision = r
        BY DEF TagsNamed
      <3>1. CASE r = Manifests[Concrete(d)].revision
        BY <2>1, <3>1 DEF FetchTypes
      <3>2. CASE r # Manifests[Concrete(d)].revision
        BY <2>1, <3>2 DEF FetchTypes, TagsNamed
      <3> QED
        BY <3>1, <3>2
    <2> QED
      BY <1>2, <1>4, <2>2, <2>3, <2>4 DEF FetchTypes, Concrete
  <1>6. CASE MoveGreen
    <2>1. green' \in Digests /\ greens' = greens \cup {Concrete(green')} /\ tags' = tags
      BY <1>6 DEF MoveGreen
    <2>2. Concrete(green') \in Digests
      BY <2>1, ConcreteIsDigest
    <2>3. FetchTypes' /\ TagsNamed'
      BY <2>1, <2>2 DEF FetchTypes, TagsNamed, Concrete
    <2> QED
      BY <1>2, <1>4, <2>3
  <1> QED
    BY <1>5, <1>6

(* For any packs, any pushes and moves, and any number of altered answers:    *)
(* what is written is the tarball and the JSON manifest one body names.  An   *)
(* altered answer to the pull is not taken for a pack that was green, if the  *)
(* answer about green was the registry's; where the pull was answered         *)
(* rightly, the pack is of the revision asked for.  A pinned pack has only    *)
(* the latter (resolveGreenPack, pullFleetBundleTarball).                     *)
THEOREM FetchedWasGreen == FetchSpec => []FetchedIsGreen
  <1>1. FetchInv => FetchedIsGreen
    BY DEF FetchInv, Placed, GreenPack, FetchedIsGreen
  <1>2. FetchInv /\ [FetchNext]_fetchVars => FetchInv'
    <2>1. CASE FetchInv /\ FetchNext
      BY <2>1, FetchAsks, FetchPulls, FetchTakes, ProducersPush DEF FetchNext
    <2>2. CASE FetchInv /\ UNCHANGED fetchVars
      BY <2>2 DEF fetchVars, FetchInv, FetchTypes, TagsNamed, Resolved, Pulled,
                  TarballHeld, ManifestHeld, Placed, Concrete
    <2> QED
      BY <2>1, <2>2
  <1> QED
    BY <1>1, <1>2, FetchInitInv, PTL DEF FetchSpec

-----------------------------------------------------------------------------
(***************************************************************************)
(* What a passing pipeline of the prepare doctor has installed, for any    *)
(* inputs and any number of changes by others.  Three readers of an input  *)
(* come one after the other: the outer doctor's fingerprint, the install   *)
(* and the inner doctor's fingerprint.  Once the install has read another  *)
(* file than the first, and as long as that is not put back, neither what  *)
(* is there nor what the last one reads is what the first one read.        *)
(***************************************************************************)

Where == {"off", "start", "fetch", "settings", "migrate", "repair", "mend", "scan", "read",
          "install", "pipeline", "ended"}
Seen == {<<>>} \cup {<<file>> : file \in InputFiles}

DoctorTypeOK ==
  /\ content \in [Inputs -> InputFiles] /\ installed \in [Inputs -> Seen]
  /\ prints \in [Doctors -> [Inputs -> Seen]] /\ held \in [Doctors -> Seen]
  /\ at \in [Doctors -> Where] /\ result \in [Doctors -> {"none", "0", "1"}]
  /\ args \in [Doctors -> OuterArgs \cup {"expected"}]
  /\ args["outer"] # "expected" /\ args["inner"] = "expected"

(* Where the doctors can be, given their arguments and each other. *)
Course ==
  /\ at["outer"] \notin {"start", "ended"} => args["outer"] \in {"plain", "hydrate-only", "pipeline"}
  /\ at["outer"] \in {"scan", "read", "pipeline"} => args["outer"] = "pipeline"
  /\ at["outer"] = "install" => args["outer"] \in {"plain", "pipeline"}
  /\ at["outer"] # "off" /\ at["inner"] \notin {"install", "pipeline"}
  /\ at["outer"] \notin {"install", "pipeline", "ended"} => \A i \in Inputs : installed[i] = <<>>
  /\ at["inner"] = "off" => \A i \in Inputs : prints["inner"][i] = <<>>
  /\ at["inner"] # "off" => /\ at["outer"] = "pipeline" \/ (at["outer"] = "ended" /\ at["inner"] = "ended")
                            /\ \A i \in Inputs : installed[i] # <<>>
  /\ \A d \in Doctors : /\ result[d] = "0" => at[d] = "ended"
                        /\ at[d] \in {"migrate", "mend"} => held[d] # <<>>

(* An input installed otherwise than it was first fingerprinted still is other, *)
(* unless it was put back.                                                      *)
OthersStay ==
  \A i \in Inputs \ putBack :
    prints["outer"][i] # <<>> /\ installed[i] \notin {<<>>, prints["outer"][i]} =>
      <<content[i]>> # prints["outer"][i] /\ prints["inner"][i] # prints["outer"][i]

(* A workspace file that is to be repaired is not what the inner doctor leaves. *)
RepairsShow ==
  \A file \in InputFiles :
    "workspace" \notin putBack /\ prints["outer"]["workspace"] = <<file>> =>
      /\ file.retired /\ at["inner"] \in {"repair", "mend", "scan", "read"} => content["workspace"] # file
      /\ file.lacking /\ at["inner"] \in {"scan", "read"} => content["workspace"] # file
      /\ file.retired \/ file.lacking => prints["inner"]["workspace"] # <<file>>

(* What a doctor that ended well has seen. *)
Successes ==
  /\ result["inner"] = "0" => /\ prints["inner"] = prints["outer"]
                              /\ \A i \in Printed : prints["inner"][i] # <<>>
  /\ result["outer"] = "0" /\ args["outer"] = "pipeline" => result["inner"] = "0"

DoctorInv == DoctorTypeOK /\ Course /\ OthersStay /\ RepairsShow /\ Successes

(* The workspace file is among what an install reads. *)
LEMMA WorkspaceIsInput == "workspace" \in Inputs
  BY DEF Inputs

(* So is everything a fingerprint covers. *)
LEMMA PrintedAreInputs == Printed \subseteq Inputs
  BY DEF Printed, Inputs

(* Nobody has read anything before the outer doctor starts. *)
LEMMA DoctorInitial == DoctorInit => DoctorInv
  <1> SUFFICES ASSUME DoctorInit PROVE DoctorInv
    OBVIOUS
  <1> USE DEF DoctorInit, Doctors, Nothing
  <1>1. DoctorTypeOK
    BY DEF DoctorTypeOK, Where, OuterArgs, Seen, InputFiles
  <1>2. Course
    BY DEF Course
  <1>3. OthersStay
    BY DEF OthersStay
  <1>4. RepairsShow
    BY WorkspaceIsInput DEF RepairsShow
  <1>5. Successes
    BY DEF Successes
  <1> QED
    BY <1>1, <1>2, <1>3, <1>4, <1>5 DEF DoctorInv

(* What a save does: an input that becomes what was first fingerprinted is put *)
(* back, so every other one that was different stays different.                *)
LEMMA SaveKeeps ==
  ASSUME DoctorInv, NEW files \in [Inputs -> InputFiles], Saves(files), UNCHANGED <<prints, installed>>
  PROVE  /\ content' \in [Inputs -> InputFiles] /\ OthersStay'
         /\ \A i \in Inputs \ putBack' :
              <<content[i]>> # prints["outer"][i] => <<content'[i]>> # prints["outer"][i]
         /\ putBack \subseteq putBack'
  <1>1. content' = files /\ putBack \subseteq putBack'
    BY DEF Saves
  <1>2. \A i \in Inputs \ putBack' : <<content[i]>> # prints["outer"][i] => <<content'[i]>> # prints["outer"][i]
    BY DEF Saves
  <1>3. OthersStay'
    BY <1>1, <1>2 DEF DoctorInv, OthersStay
  <1> QED
    BY <1>1, <1>2, <1>3

(* A step in which the files stay, or are changed by a save. *)
Stays == UNCHANGED <<content, putBack>>
Saved == \E files \in [Inputs -> InputFiles] : Saves(files)
LEMMA FilesKept ==
  ASSUME DoctorInv, Stays \/ Saved, UNCHANGED <<prints, installed>>
  PROVE  /\ content' \in [Inputs -> InputFiles] /\ OthersStay'
         /\ \A i \in Inputs \ putBack' :
              <<content[i]>> # prints["outer"][i] => <<content'[i]>> # prints["outer"][i]
         /\ putBack \subseteq putBack'
  <1>1. CASE Stays
    BY <1>1 DEF Stays, DoctorInv, DoctorTypeOK, OthersStay
  <1>2. CASE Saved
    BY <1>2, SaveKeeps DEF Saved
  <1> QED
    BY <1>1, <1>2

(* Saving one file, and the changes others make, are saves of all. *)
LEMMA SaveOne ==
  ASSUME DoctorInv, NEW i \in Inputs, NEW file \in InputFiles, Save(i, file)
  PROVE  Saved /\ content'[i] = file
  <1>1. [content EXCEPT ![i] = file] \in [Inputs -> InputFiles]
    BY DEF DoctorInv, DoctorTypeOK
  <1>2. content' = [content EXCEPT ![i] = file]
    BY DEF Save, Saves
  <1> QED
    BY <1>1, <1>2 DEF Saved, Save, DoctorInv, DoctorTypeOK
LEMMA ChangesSave ==
  ASSUME DoctorInv, NEW where \in SUBSET Inputs, Changes(where)
  PROVE  Saved
  <1>1. PICK i \in where : \E file \in FilesOf(i) : Save(i, file)
    BY DEF Changes
  <1>2. PICK file \in FilesOf(i) : Save(i, file)
    BY <1>1
  <1>3. file \in InputFiles
    BY DEF FilesOf
  <1> QED
    BY <1>2, <1>3, SaveOne

(* A repair takes one of the two faults out of the file that was read. *)
LEMMA MendedFile ==
  ASSUME NEW file \in InputFiles
  PROVE  /\ [file EXCEPT !.retired = FALSE] \in InputFiles /\ ~[file EXCEPT !.retired = FALSE].retired
         /\ [file EXCEPT !.lacking = FALSE] \in InputFiles /\ ~[file EXCEPT !.lacking = FALSE].lacking
  BY DEF InputFiles

(* How a doctor moves that reads no input for its fingerprint. *)
Advances(d) ==
  \/ at' = at /\ result' = result /\ at[d] \in {"fetch", "read"}
  \/ \E code \in {"0", "1"} : /\ Ends(d, code)
                              /\ code = "0" => args[d] \in {"help", "hydrate-only"}
  \/ \E to \in {"fetch", "settings", "migrate", "repair", "mend", "scan", "read", "install"} :
       /\ Goes(d, to) /\ result' = result
       /\ to = "fetch" => args[d] \notin {"help", "dashes", "both"}
       /\ to # "fetch" => at[d] # "start"
       /\ to = "read" => at[d] = "scan"
       /\ to = "install" => args[d] = "plain"
       /\ to = "scan" => args[d] \notin {"plain", "hydrate-only"} /\ ~content'["workspace"].lacking
       /\ to = "repair" => ~content'["workspace"].retired
       /\ to \in {"migrate", "mend"} => held'[d] # <<>>
       /\ to \in {"mend", "scan"} => at[d] \in {"repair", "mend"}

GoesOn(d) == StartDoctor(d) \/ PlaceInput(d) \/ FetchBundle(d) \/ ReadSettings(d) \/ MigrateWorkspace(d)
              \/ ReadPackages(d) \/ RepairPackages(d) \/ ScanEcosystem(d) \/ StatInput(d)

LEMMA GoesOnAdvances ==
  ASSUME DoctorInv, NEW d \in Doctors, GoesOn(d)
  PROVE  /\ UNCHANGED <<installed, prints, args, owns>> /\ (Stays \/ Saved)
         /\ at[d] \in {"start", "fetch", "settings", "migrate", "repair", "mend", "scan", "read"}
         /\ held' \in [Doctors -> Seen] /\ (\A e \in Doctors : e # d => held'[e] = held[e])
         /\ Advances(d)
  <1> USE DEF DoctorInv, Doctors
  <1>0. "workspace" \in Inputs /\ content["workspace"] \in InputFiles
    BY WorkspaceIsInput DEF DoctorTypeOK
  <1>1. UNCHANGED <<installed, prints, args, owns>>
    BY DEF GoesOn, StartDoctor, PlaceInput, FetchBundle, ReadSettings, MigrateWorkspace, ReadPackages,
       RepairPackages, ScanEcosystem, StatInput, reading, setting
  <1>2. at[d] \in {"start", "fetch", "settings", "migrate", "repair", "mend", "scan", "read"}
    BY DEF GoesOn, StartDoctor, PlaceInput, FetchBundle, ReadSettings, MigrateWorkspace, ReadPackages,
       RepairPackages, ScanEcosystem, StatInput
  <1>3. CASE StartDoctor(d)
    BY <1>1, <1>2, <1>3 DEF StartDoctor, checkout, Stays, Advances, DoctorTypeOK
  <1>4. CASE PlaceInput(d)
    <2>1. PICK i \in Plain \cup {"workspace"} : \E file \in FilesOf(i) : Save(i, file)
      BY <1>4 DEF PlaceInput
    <2>2. PICK file \in FilesOf(i) : Save(i, file)
      BY <2>1
    <2>3. i \in Inputs /\ file \in InputFiles
      BY <1>0 DEF FilesOf, Inputs
    <2>4. Saved
      BY <2>2, <2>3, SaveOne
    <2> QED
      BY <1>1, <1>2, <1>4, <2>4 DEF PlaceInput, Advances, DoctorTypeOK
  <1>5. CASE FetchBundle(d)
    BY <1>1, <1>2, <1>5 DEF FetchBundle, checkout, Stays, Advances, DoctorTypeOK
  <1>6. CASE ReadSettings(d)
    <2>1. held' = [held EXCEPT ![d] = <<content["workspace"]>>] /\ Stays
      BY <1>6 DEF ReadSettings, checkout, Stays
    <2>2. held' \in [Doctors -> Seen] /\ held'[d] # <<>>
      BY <1>0, <2>1 DEF DoctorTypeOK, Seen
    <2>3. Advances(d)
      BY <1>6, <2>1, <2>2 DEF ReadSettings, Advances, Stays
    <2> QED
      BY <1>1, <1>2, <2>1, <2>2, <2>3 DEF DoctorTypeOK
  <1>7. CASE MigrateWorkspace(d)
    <2>1. held' = held /\ held[d] # <<>>
      BY <1>7 DEF MigrateWorkspace, Course
    <2>2. PICK file \in InputFiles : held[d] = <<file>>
      BY <2>1 DEF DoctorTypeOK, Seen
    <2>3. CASE Stays /\ Ends(d, "1")
      BY <1>1, <1>2, <2>1, <2>3 DEF Advances, DoctorTypeOK
    <2>4. CASE Save("workspace", [file EXCEPT !.retired = FALSE]) /\ Goes(d, "repair") /\ result' = result
      <3>1. Saved /\ content'["workspace"] = [file EXCEPT !.retired = FALSE]
        BY <1>0, <2>4, MendedFile, SaveOne
      <3>2. ~content'["workspace"].retired
        BY <3>1, MendedFile
      <3>3. Advances(d)
        BY <1>7, <2>4, <3>2 DEF Advances, MigrateWorkspace
      <3> QED
        BY <1>1, <1>2, <2>1, <3>1, <3>3 DEF DoctorTypeOK
    <2> QED
      BY <1>7, <2>2, <2>3, <2>4 DEF MigrateWorkspace, Stays
  <1>8. CASE ReadPackages(d)
    <2>1. held' = [held EXCEPT ![d] = <<content["workspace"]>>] /\ Stays
      BY <1>8 DEF ReadPackages, checkout, Stays
    <2>2. held' \in [Doctors -> Seen] /\ held'[d] # <<>>
      BY <1>0, <2>1 DEF DoctorTypeOK, Seen
    <2>3. Advances(d)
      BY <1>8, <2>1, <2>2 DEF ReadPackages, Hydrated, Advances, Stays
    <2> QED
      BY <1>1, <1>2, <2>1, <2>2, <2>3 DEF DoctorTypeOK
  <1>9. CASE RepairPackages(d)
    <2>1. held' = held /\ held[d] # <<>>
      BY <1>9 DEF RepairPackages, Course
    <2>2. PICK file \in InputFiles : held[d] = <<file>>
      BY <2>1 DEF DoctorTypeOK, Seen
    <2>3. Save("workspace", [file EXCEPT !.lacking = FALSE])
      BY <1>9, <2>2 DEF RepairPackages
    <2>4. Saved /\ content'["workspace"] = [file EXCEPT !.lacking = FALSE]
      BY <1>0, <2>3, MendedFile, SaveOne
    <2>5. ~content'["workspace"].lacking
      BY <2>4, MendedFile
    <2>6. Advances(d)
      BY <1>9, <2>5 DEF RepairPackages, Hydrated, Advances
    <2> QED
      BY <1>1, <1>2, <2>1, <2>4, <2>6 DEF DoctorTypeOK
  <1>10. CASE ScanEcosystem(d)
    BY <1>1, <1>2, <1>10 DEF ScanEcosystem, checkout, Stays, Advances, DoctorTypeOK
  <1>11. CASE StatInput(d)
    BY <1>1, <1>2, <1>11 DEF StatInput, checkout, Stays, Advances, DoctorTypeOK
  <1> QED
    BY <1>3, <1>4, <1>5, <1>6, <1>7, <1>8, <1>9, <1>10, <1>11 DEF GoesOn

(* One kind of step after the other: what was read is at stake only where      *)
(* something is read, the course only where a doctor goes on.                  *)
LEMMA MoveStep ==   \* a doctor goes on and reads nothing for its fingerprint
  ASSUME DoctorInv, NEW d \in Doctors, GoesOn(d)
  PROVE  DoctorInv'
  <1> USE DEF DoctorInv, Doctors
  <1>1. /\ UNCHANGED <<installed, prints, args, owns>> /\ (Stays \/ Saved)
        /\ at[d] \in {"start", "fetch", "settings", "migrate", "repair", "mend", "scan", "read"}
        /\ held' \in [Doctors -> Seen] /\ (\A e \in Doctors : e # d => held'[e] = held[e])
    BY GoesOnAdvances
  <1>2. Advances(d)
    BY GoesOnAdvances
  <1>3. /\ content' \in [Inputs -> InputFiles] /\ OthersStay' /\ putBack \subseteq putBack'
        /\ \A i \in Inputs \ putBack' :
             <<content[i]>> # prints["outer"][i] => <<content'[i]>> # prints["outer"][i]
    BY <1>1, FilesKept
  <1>4. DoctorTypeOK'
    BY <1>1, <1>2, <1>3 DEF Advances, DoctorTypeOK, Where, Ends, Goes
  <1>5. Course'
    BY <1>1, <1>2 DEF Advances, DoctorTypeOK, Course, OuterArgs, Ends, Goes
  <1>6. Successes'
    BY <1>1, <1>2 DEF Advances, DoctorTypeOK, Successes, Course, Printed, Ends, Goes
  <1>7. RepairsShow'
    <2> SUFFICES ASSUME NEW file \in InputFiles, "workspace" \notin putBack',
                        prints["outer"]["workspace"] = <<file>>
                 PROVE  /\ file.retired /\ at'["inner"] \in {"repair", "mend", "scan", "read"} =>
                             content'["workspace"] # file
                        /\ file.lacking /\ at'["inner"] \in {"scan", "read"} => content'["workspace"] # file
                        /\ file.retired \/ file.lacking => prints["inner"]["workspace"] # <<file>>
      BY <1>1 DEF RepairsShow
    <2>1. "workspace" \notin putBack
      BY <1>3
    <2>2. content["workspace"] # file => content'["workspace"] # file
      BY <1>3, WorkspaceIsInput
    <2>3. file.retired /\ at'["inner"] \in {"repair", "mend", "scan", "read"} => content'["workspace"] # file
      BY <1>2, <2>1, <2>2 DEF RepairsShow, Advances, DoctorTypeOK, Ends, Goes
    <2>4. file.lacking /\ at'["inner"] \in {"scan", "read"} => content'["workspace"] # file
      BY <1>2, <2>1, <2>2 DEF RepairsShow, Advances, DoctorTypeOK, Ends, Goes
    <2>5. file.retired \/ file.lacking => prints["inner"]["workspace"] # <<file>>
      BY <2>1 DEF RepairsShow
    <2> QED
      BY <2>3, <2>4, <2>5
  <1> QED
    BY <1>3, <1>4, <1>5, <1>6, <1>7

(* A fingerprint reads what is there now: the first one before the install, so *)
(* nothing hangs on it yet, the last one what is still different.              *)
LEMMA PrintStep ==
  ASSUME DoctorInv, NEW d \in Doctors, ReadInput(d) \/ ReadPlain(d)
  PROVE  DoctorInv'
  <1> USE DEF DoctorInv, Doctors
  <1>1. UNCHANGED <<content, putBack, held, installed, args, owns>> /\ at[d] = "read"
    BY DEF ReadInput, ReadPlain, checkout, setting
  <1>2. \/ /\ at' = at /\ result' = result
           /\ \E i \in Inputs : prints[d][i] = <<>> /\ Note(d, i)
        \/ /\ prints' = prints /\ at' = [at EXCEPT ![d] = "ended"]
           /\ result' = [result EXCEPT ![d] = "1"]
    BY PrintedAreInputs DEF ReadInput, ReadPlain, Unread, Ends, Goes
  <1>3. CASE prints' = prints /\ at' = [at EXCEPT ![d] = "ended"] /\ result' = [result EXCEPT ![d] = "1"]
    <2>1. DoctorTypeOK'
      BY <1>1, <1>3 DEF DoctorTypeOK, Where
    <2>2. Course'
      BY <1>1, <1>3 DEF DoctorTypeOK, Course, OuterArgs
    <2>3. OthersStay' /\ RepairsShow'
      BY <1>1, <1>3 DEF DoctorTypeOK, OthersStay, RepairsShow
    <2>4. Successes'
      BY <1>1, <1>3 DEF DoctorTypeOK, Successes, Course, Printed
    <2> QED
      BY <2>1, <2>2, <2>3, <2>4
  <1>4. ASSUME at' = at, result' = result, NEW i \in Inputs, prints[d][i] = <<>>, Note(d, i)
        PROVE  DoctorInv'
    <2>1. prints' = [prints EXCEPT ![d][i] = <<content[i]>>] /\ <<content[i]>> \in Seen
      BY <1>4 DEF Note, DoctorTypeOK, Seen
    <2>2. DoctorTypeOK'
      BY <1>1, <1>4, <2>1 DEF DoctorTypeOK
    <2>3. Course'
      BY <1>1, <1>4, <2>1 DEF DoctorTypeOK, Course
    <2>4. OthersStay'
      <3>1. CASE d = "outer"
        BY <1>1, <1>4, <2>1, <3>1 DEF DoctorTypeOK, OthersStay, Course
      <3>2. CASE d = "inner"
        BY <1>1, <1>4, <2>1, <3>2 DEF DoctorTypeOK, OthersStay
      <3> QED
        BY <3>1, <3>2
    <2>5. RepairsShow'
      <3>1. CASE d = "outer"
        <4>1. at["inner"] = "off" /\ prints'["inner"] = prints["inner"]
          BY <1>1, <2>1, <3>1 DEF DoctorTypeOK, Course
        <4>2. prints'["inner"]["workspace"] = <<>> /\ at'["inner"] = "off"
          BY <1>4, <4>1, WorkspaceIsInput DEF Course
        <4> QED
          BY <4>2 DEF RepairsShow
      <3>2. CASE d = "inner"
        <4>1. prints'["outer"] = prints["outer"] /\ at["inner"] = "read"
          BY <1>1, <2>1, <3>2 DEF DoctorTypeOK
        <4>2. prints'["inner"]["workspace"] \in {prints["inner"]["workspace"], <<content["workspace"]>>}
          BY <2>1, <3>2, WorkspaceIsInput DEF DoctorTypeOK
        <4> QED
          BY <1>1, <1>4, <4>1, <4>2 DEF RepairsShow
      <3> QED
        BY <3>1, <3>2
    <2>6. Successes'
      BY <1>1, <1>4, <2>1 DEF DoctorTypeOK, Successes, Course, Printed
    <2> QED
      BY <2>2, <2>3, <2>4, <2>5, <2>6
  <1> QED
    BY <1>2, <1>3, <1>4

(* A fingerprint that ends decides from what the readers before it saw. *)
LEMMA EndPrintStep ==
  ASSUME DoctorInv, NEW d \in Doctors, EndFingerprint(d)
  PROVE  DoctorInv'
  <1> USE DEF DoctorInv, Doctors
  <1>1. UNCHANGED <<content, putBack, held, installed, prints, args, owns>> /\ at[d] = "read"
    BY DEF EndFingerprint, checkout, setting, reading
  <1>2. \A i \in Printed : prints[d][i] # <<>>
    BY DEF EndFingerprint, Unread
  <1>3. \/ /\ d = "outer" /\ result' = result /\ at' = [at EXCEPT ![d] = "install"]
        \/ /\ at' = [at EXCEPT ![d] = "ended"]
           /\ \E code \in {"0", "1"} :
                /\ result' = [result EXCEPT ![d] = code]
                /\ code = "0" => d = "inner" /\ prints["inner"] = prints["outer"]
    BY DEF EndFingerprint, Ends, Goes
  <1>4. DoctorTypeOK'
    BY <1>1, <1>3 DEF DoctorTypeOK, Where
  <1>5. Course'
    BY <1>1, <1>3 DEF DoctorTypeOK, Course, OuterArgs, Where
  <1>6. OthersStay' /\ RepairsShow'
    BY <1>1, <1>3 DEF DoctorTypeOK, OthersStay, RepairsShow
  <1>7. Successes'
    BY <1>1, <1>2, <1>3 DEF DoctorTypeOK, Successes, Course, Printed, OuterArgs
  <1> QED
    BY <1>4, <1>5, <1>6, <1>7

(* The install reads after the outer fingerprint and before the inner one. *)
LEMMA InstallReadStep ==
  ASSUME DoctorInv, InstallRead
  PROVE  DoctorInv'
  <1> USE DEF DoctorInv, Doctors
  <1>1. UNCHANGED <<content, putBack, held, prints, at, args, owns, result>> /\ at["outer"] = "install"
    BY DEF InstallRead, checkout, setting, reading
  <1>2. PICK i \in Inputs : installed[i] = <<>> /\ installed' = [installed EXCEPT ![i] = <<content[i]>>]
    BY DEF InstallRead
  <1>3. <<content[i]>> \in Seen
    BY DEF DoctorTypeOK, Seen
  <1>4. DoctorTypeOK'
    BY <1>1, <1>2, <1>3 DEF DoctorTypeOK
  <1>5. at["inner"] = "off"
    BY <1>1 DEF Course
  <1>6. Course'
    BY <1>1, <1>2, <1>5 DEF DoctorTypeOK, Course
  <1>7. OthersStay'
    BY <1>1, <1>2, <1>5 DEF DoctorTypeOK, OthersStay, Course
  <1>8. RepairsShow' /\ Successes'
    BY <1>1 DEF RepairsShow, Successes, Printed
  <1> QED
    BY <1>4, <1>6, <1>7, <1>8

(* The inner doctor starts once the install has read every input. *)
LEMMA InstallEndStep ==
  ASSUME DoctorInv, InstallEnds \/ PipelineEnds
  PROVE  DoctorInv'
  <1> USE DEF DoctorInv, Doctors
  <1>1. /\ UNCHANGED <<content, putBack, held, prints, args, owns, installed>>
        /\ \/ at["outer"] = "install"
           \/ at["outer"] = "pipeline" /\ at["inner"] = "ended"
    BY DEF InstallEnds, PipelineEnds, checkout, setting, reading
  <1>2. \/ /\ at["outer"] = "install" /\ args["outer"] = "pipeline" /\ result' = result
           /\ at' = [at EXCEPT !["outer"] = "pipeline", !["inner"] = "start"]
           /\ \A i \in Inputs : installed[i] # <<>>
        \/ /\ at' = [at EXCEPT !["outer"] = "ended"]
           /\ \E code \in {"0", "1"} :
                /\ result' = [result EXCEPT !["outer"] = code]
                /\ code = "0" => IF at["outer"] = "install" THEN args["outer"] # "pipeline"
                                 ELSE result["inner"] = "0"
    BY DEF InstallEnds, PipelineEnds, Ends, Goes
  <1>3. DoctorTypeOK'
    BY <1>1, <1>2 DEF DoctorTypeOK, Where
  <1>4. Course'
    BY <1>1, <1>2 DEF DoctorTypeOK, Course, OuterArgs
  <1>5. OthersStay'
    BY <1>1 DEF OthersStay
  <1>6. RepairsShow'
    BY <1>1, <1>2 DEF DoctorTypeOK, RepairsShow
  <1>7. Successes'
    BY <1>1, <1>2 DEF DoctorTypeOK, Successes, Course, Printed
  <1> QED
    BY <1>3, <1>4, <1>5, <1>6, <1>7

(* What others change is a save like any other. *)
LEMMA OthersStep ==
  ASSUME DoctorInv, EditInput \/ ReplaceFolder \/ EnsurePayload
  PROVE  DoctorInv'
  <1> USE DEF DoctorInv, Doctors
  <1>1. UNCHANGED <<prints, at, held, args, owns, installed, result>>
    BY DEF EditInput, ReplaceFolder, EnsurePayload, setting, reading
  <1>3. Saved
    <2>1. CASE EditInput
      BY <2>1, ChangesSave DEF EditInput
    <2>2. CASE EnsurePayload
      <3>1. Plain \subseteq Inputs
        BY DEF Inputs
      <3> QED
        BY <2>2, <3>1, ChangesSave DEF EnsurePayload
    <2>3. CASE ReplaceFolder
      <3>1. PICK text \in Wordings :
              Saves([i \in Inputs |-> IF i \in Ecosystem THEN [content[i] EXCEPT !.text = text]
                                                          ELSE content[i]])
        BY <2>3 DEF ReplaceFolder
      <3>2. \A i \in Inputs : content[i] \in InputFiles /\ [content[i] EXCEPT !.text = text] \in InputFiles
        BY DEF DoctorTypeOK, InputFiles
      <3>3. [i \in Inputs |-> IF i \in Ecosystem THEN [content[i] EXCEPT !.text = text] ELSE content[i]]
              \in [Inputs -> InputFiles]
        BY <3>2
      <3> QED
        BY <3>1, <3>3 DEF Saved
    <2> QED
      BY <2>1, <2>2, <2>3
  <1>4. /\ content' \in [Inputs -> InputFiles] /\ OthersStay' /\ putBack \subseteq putBack'
        /\ \A i \in Inputs \ putBack' :
             <<content[i]>> # prints["outer"][i] => <<content'[i]>> # prints["outer"][i]
    BY <1>1, <1>3, FilesKept
  <1>5. DoctorTypeOK' /\ Course' /\ Successes'
    BY <1>1, <1>4 DEF DoctorTypeOK, Course, Successes, Printed
  <1>6. RepairsShow'
    BY <1>1, <1>4, WorkspaceIsInput DEF RepairsShow
  <1> QED
    BY <1>4, <1>5, <1>6

(* Every step of the doctors and of others keeps the invariant. *)
LEMMA DoctorInvariant == DoctorSpec => []DoctorInv
  <1>1. DoctorInv /\ [DoctorNext]_doctorVars => DoctorInv'
    <2> SUFFICES ASSUME DoctorInv, [DoctorNext]_doctorVars PROVE DoctorInv'
      OBVIOUS
    <2>1. CASE UNCHANGED doctorVars
      BY <2>1 DEF doctorVars, DoctorInv, DoctorTypeOK, Course, OthersStay, RepairsShow, Successes, Printed
    <2>2. CASE DoctorNext
      BY <2>2, MoveStep, PrintStep, EndPrintStep, InstallReadStep, InstallEndStep,
         OthersStep DEF DoctorNext, GoesOn
    <2> QED
      BY <2>1, <2>2
  <1> QED
    BY <1>1, DoctorInitial, PTL DEF DoctorSpec

(* Whatever is edited, replaced or fetched while the two doctors and pnpm      *)
(* work, a pipeline that passes has installed from what the first fingerprint  *)
(* had read, but for inputs that were changed and put back in between; and the *)
(* workspace file it read needed no repair, unless that was put back           *)
(* (hydrateWorkspace, workspaceInstallFingerprint, runPrepare).                *)
THEOREM InstallMatchesFingerprint == DoctorSpec => []InstallSeesItsInputs
  <1>1. DoctorInv => InstallSeesItsInputs
    <2> SUFFICES ASSUME DoctorInv, result["outer"] = "0", args["outer"] = "pipeline"
                 PROVE  InstallSeesItsInputs
      BY DEF InstallSeesItsInputs
    <2> USE DEF DoctorInv, Doctors
    <2>1. /\ prints["inner"] = prints["outer"] /\ at["inner"] = "ended"
          /\ \A i \in Printed : prints["outer"][i] # <<>>
      BY DEF Successes, Course
    <2>2. ASSUME NEW i \in Printed \ putBack PROVE installed[i] = prints["outer"][i]
      <3>1. i \in Inputs \ putBack /\ installed[i] # <<>>
        BY <2>1, PrintedAreInputs DEF Course
      <3> QED
        BY <2>1, <3>1 DEF OthersStay
    <2>3. ASSUME "workspace" \notin putBack
          PROVE  ~installed["workspace"][1].retired /\ ~installed["workspace"][1].lacking
      <3>1. "workspace" \in Printed
        BY DEF Printed
      <3>2. prints["outer"]["workspace"] \in Seen /\ prints["outer"]["workspace"] # <<>>
        BY <2>1, <3>1, WorkspaceIsInput DEF DoctorTypeOK
      <3>3. PICK file \in InputFiles : prints["outer"]["workspace"] = <<file>>
        BY <3>2 DEF Seen
      <3>4. installed["workspace"] = <<file>>
        BY <2>2, <2>3, <3>1, <3>3
      <3>5. ~file.retired /\ ~file.lacking
        BY <2>1, <2>3, <3>3 DEF RepairsShow
      <3> QED
        BY <3>4, <3>5
    <2> QED
      BY <2>2, <2>3 DEF InstallSeesItsInputs
  <1> QED
    BY <1>1, DoctorInvariant, PTL

-----------------------------------------------------------------------------
(***************************************************************************)
(* The swap of a mirrored directory, for any files, kills and edits: what  *)
(* was listed is out of reach of every later run (in the quarantine, or in *)
(* a directory a killed run left behind) or where this run will not lose   *)
(* it.  An edit may overtake what was listed, so both are said of the pair *)
(* or of its edited file.                                                  *)
(***************************************************************************)

Dirs == [Names -> Contents]
MirrorTypes ==
  /\ live \in Dirs /\ incoming \in Dirs /\ source \in [Names -> {"none", "fleet"}]
  /\ outgoing \in SUBSET Dirs /\ stranded \in SUBSET Dirs
  /\ targetFiles \in SUBSET Names /\ present \in BOOLEAN /\ edits \in Nat
  /\ seen \in SUBSET ((Names \ Unlisted) \X (Contents \ {"none"}))

(* Which of its directories a run has, by where it is. *)
Standing ==
  /\ ~present => live = Empty
  /\ mirrorAt \in {"stage", "quarantine", "aside", "drop"} => present
  /\ mirrorAt \in {"in", "back"} => ~present
  /\ mirrorAt \in {"start", "stage", "quarantine", "aside"} => outgoing = {}
  /\ \A a, b \in outgoing : a = b

(* What was listed is there as it was, or edited since. *)
Holds(dir, pair) ==
  dir[pair[1]] = pair[2] \/ (dir[pair[1]] = "edited" /\ edits > 0)

(* Out of reach of every later run. *)
PutAway == reaped \cup UNION {Pairs(old) : old \in stranded}
Settled(pair) ==
  \/ pair \in PutAway
  \/ ~StaysLocal(pair[1]) /\ source[pair[1]] # "none"
  \/ <<pair[1], "edited">> \in PutAway /\ edits > 0

(* What is not out of reach yet is where this run will not lose it. *)
InHand(pair) ==
  /\ mirrorAt \in {"stage", "quarantine"} => pair[1] \in targetFiles
  /\ mirrorAt \in {"stage", "quarantine", "aside", "drop"} => Holds(live, pair)
  /\ mirrorAt \in {"aside", "in", "drop"} => StaysLocal(pair[1])
  /\ mirrorAt \in {"quarantine", "aside", "in"} /\ StaysLocal(pair[1]) => Holds(incoming, pair)
  /\ mirrorAt \in {"in", "back"} => \E old \in outgoing : Holds(old, pair)
  /\ \E dir \in {live} \cup outgoing : Holds(dir, pair)

NothingLost == \A pair \in seen : Settled(pair) \/ InHand(pair)

(* Without edits, what stays local is everywhere the same. *)
CopyIsTrue ==
  mirrorAt \in {"quarantine", "aside", "in"} =>
    \A n \in Names : incoming[n] # "none" => StaysLocal(n) \/ source[n] # "none"
Undisturbed == edits = 0 =>
  /\ mirrorAt = "drop" => \A n \in Names : live[n] # "none" => StaysLocal(n) \/ source[n] # "none"
  /\ \A pair \in seen : StaysLocal(pair[1]) =>
       /\ present => live[pair[1]] = pair[2]
       /\ mirrorAt = "stage" => pair[1] \in targetFiles
       /\ mirrorAt \in {"quarantine", "aside", "in"} => incoming[pair[1]] = pair[2]
       /\ mirrorAt \in {"in", "back"} => \A old \in outgoing : old[pair[1]] = pair[2]

MirrorInv == MirrorTypes /\ Standing /\ NothingLost /\ CopyIsTrue /\ Undisturbed

(* A listed file that a directory holds is among the directory's pairs. *)
LEMMA HeldIsListed ==
  ASSUME NEW dir \in Dirs, NEW pair \in (Names \ Unlisted) \X (Contents \ {"none"}),
         Holds(dir, pair)
  PROVE  /\ dir[pair[1]] # "none" /\ pair[1] \in Listed(dir)
         /\ pair \in Pairs(dir) \/ (<<pair[1], "edited">> \in Pairs(dir) /\ edits > 0)
  <1>1. pair = <<pair[1], pair[2]>> /\ pair[2] # "none"
    OBVIOUS
  <1>2. dir[pair[1]] # "none" /\ pair[1] \in Listed(dir)
    BY <1>1 DEF Holds, Listed
  <1>3. <<pair[1], dir[pair[1]]>> \in Pairs(dir)
    BY <1>2 DEF Pairs
  <1>4. dir[pair[1]] = pair[2] => pair \in Pairs(dir)
    BY <1>1, <1>3
  <1>5. dir[pair[1]] = "edited" /\ edits > 0 => <<pair[1], "edited">> \in Pairs(dir)
    BY <1>3
  <1> QED BY <1>2, <1>4, <1>5 DEF Holds

(* What is out of reach stays so. *)
LEMMA SettledStays ==
  ASSUME NEW pair, Settled(pair), stranded \subseteq stranded', reaped \subseteq reaped',
         source' = source, edits' = edits \/ (edits \in Nat /\ edits' = edits + 1)
  PROVE  Settled(pair)'
  <1>1. PutAway \subseteq PutAway' /\ (edits > 0 => edits' > 0)
    BY DEF PutAway, Pairs, Listed
  <1> QED BY <1>1 DEF Settled, StaysLocal

(* Before the first listing nothing is owed to the member. *)
LEMMA MirrorStarts == MirrorInit => MirrorInv
  <1> SUFFICES ASSUME MirrorInit PROVE MirrorInv
    OBVIOUS
  <1>1. Empty \in Dirs
    BY DEF Empty, Dirs, Contents
  <1>2. MirrorTypes
    BY <1>1 DEF MirrorInit, MirrorTypes, Dirs, Contents
  <1> QED BY <1>2 DEF MirrorInit, MirrorInv, Standing, NothingLost, CopyIsTrue, Undisturbed

(* Listing the live directory owes the member what is in it, and it is still there. *)
LEMMA CompareStep == ASSUME MirrorInv, Compare PROVE MirrorInv'
  <1>1. /\ mirrorAt = "start" /\ mirrorAt' \in {"done", "refused", "stage"} /\ outgoing = {}
        /\ mirrorAt' = "stage" => present
        /\ targetFiles' = Listed(live) /\ seen' = seen \cup Pairs(live)
        /\ UNCHANGED <<live, present, source, stranded, incoming, outgoing, reaped, edits, deaths>>
    BY DEF Compare, MirrorInv, Standing
  <1>2. MirrorTypes'
    <2>1. Pairs(live) \in SUBSET ((Names \ Unlisted) \X (Contents \ {"none"}))
      BY DEF MirrorInv, MirrorTypes, Pairs, Listed, Dirs
    <2> QED BY <1>1, <2>1 DEF MirrorInv, MirrorTypes, Listed
  <1>3. Standing'
    BY <1>1 DEF MirrorInv, Standing
  <1>4. ASSUME NEW pair \in seen' PROVE (Settled(pair) \/ InHand(pair))'
    <2>1. pair \in (Names \ Unlisted) \X (Contents \ {"none"}) /\ live \in Dirs
      BY <1>1, <1>2 DEF MirrorInv, MirrorTypes
    <2>2. CASE Settled(pair)
      BY <1>1, <2>2, SettledStays
    <2>3. CASE Holds(live, pair)
      <3>1. pair[1] \in Listed(live)
        BY <2>1, <2>3, HeldIsListed
      <3> QED BY <1>1, <2>3, <3>1 DEF InHand, Holds
    <2>4. pair \in Pairs(live) => Holds(live, pair)
      BY DEF Pairs, Holds
    <2>5. pair \in seen => Settled(pair) \/ Holds(live, pair)
      BY <1>1 DEF MirrorInv, NothingLost, InHand
    <2> QED BY <1>1, <2>2, <2>3, <2>4, <2>5
  <1>5. Undisturbed'
    <2>1. ASSUME edits = 0, NEW pair \in seen', StaysLocal(pair[1])
          PROVE  /\ present => live[pair[1]] = pair[2]
                 /\ mirrorAt' = "stage" => pair[1] \in targetFiles'
      <3>1. present => live[pair[1]] = pair[2]
        BY <1>1, <2>1 DEF MirrorInv, Undisturbed, Pairs
      <3>2. pair \in (Names \ Unlisted) \X (Contents \ {"none"})
        BY <1>2 DEF MirrorTypes
      <3> QED BY <1>1, <3>1, <3>2 DEF Listed
    <2> QED BY <1>1, <2>1 DEF Undisturbed, StaysLocal
  <1> QED BY <1>1, <1>2, <1>3, <1>4, <1>5 DEF MirrorInv, NothingLost, CopyIsTrue

(* The copy takes the local files as they are now, whatever was listed. *)
LEMMA StageStep == ASSUME MirrorInv, Stage PROVE MirrorInv'
  <1>1. /\ mirrorAt = "stage" /\ present
        /\ UNCHANGED <<live, present, source, stranded, outgoing, reaped, targetFiles, seen, edits, deaths>>
        /\ outgoing = {}
    BY DEF Stage, MirrorInv, Standing
  <1>2. CASE /\ incoming' = [n \in Names |->
                   IF n \in targetFiles /\ StaysLocal(n) THEN live[n] ELSE source[n]]
             /\ mirrorAt' = "quarantine"
    <2>1. MirrorTypes'
      <3>1. incoming' \in Dirs
        BY <1>2 DEF MirrorInv, MirrorTypes, Dirs, Contents
      <3> QED BY <1>1, <3>1 DEF MirrorInv, MirrorTypes
    <2>2. ASSUME NEW pair \in seen' PROVE (Settled(pair) \/ InHand(pair))'
      <3>1. pair[1] \in Names /\ pair \in seen
        BY <1>1 DEF MirrorInv, MirrorTypes
      <3>2. CASE Settled(pair)
        BY <1>1, <3>2, SettledStays
      <3>3. CASE InHand(pair)
        <4>1. pair[1] \in targetFiles /\ Holds(live, pair)
          BY <1>1, <3>3 DEF InHand
        <4>2. StaysLocal(pair[1]) => incoming'[pair[1]] = live[pair[1]]
          BY <1>2, <3>1, <4>1
        <4> QED BY <1>1, <1>2, <4>1, <4>2 DEF InHand, Holds, StaysLocal
      <3> QED BY <3>1, <3>2, <3>3 DEF MirrorInv, NothingLost
    <2>3. CopyIsTrue'
      BY <1>1, <1>2 DEF CopyIsTrue, StaysLocal
    <2>4. ASSUME edits = 0, NEW pair \in seen, StaysLocal(pair[1])
          PROVE  live[pair[1]] = pair[2] /\ incoming'[pair[1]] = pair[2]
      <3>1. pair[1] \in Names
        BY DEF MirrorInv, MirrorTypes
      <3> QED BY <1>1, <1>2, <2>4, <3>1 DEF MirrorInv, Undisturbed
    <2>5. Undisturbed'
      BY <1>1, <1>2, <2>4 DEF Undisturbed, StaysLocal
    <2> QED BY <1>1, <1>2, <2>1, <2>2, <2>3, <2>5 DEF MirrorInv, NothingLost, Standing
  <1>3. CASE incoming' = Empty /\ mirrorAt' = "failed"
    <2>1. MirrorTypes'
      BY <1>1, <1>3 DEF MirrorInv, MirrorTypes, Dirs, Contents, Empty
    <2>2. ASSUME NEW pair \in seen' PROVE (Settled(pair) \/ InHand(pair))'
      <3>1. CASE Settled(pair)
        BY <1>1, <3>1, SettledStays
      <3>2. CASE InHand(pair)
        BY <1>1, <1>3, <3>2 DEF InHand, Holds
      <3> QED BY <1>1, <3>1, <3>2 DEF MirrorInv, NothingLost
    <2> QED BY <1>1, <1>3, <2>1, <2>2 DEF MirrorInv, NothingLost, Standing, CopyIsTrue, Undisturbed, StaysLocal
  <1> QED BY <1>2, <1>3 DEF Stage

(* What the source omits and the member does not keep goes to the quarantine first. *)
LEMMA QuarantineStep == ASSUME MirrorInv, Quarantine PROVE MirrorInv'
  <1> DEFINE omitted == {n \in targetFiles : source[n] = "none" /\ ~StaysLocal(n)}
  <1>1. /\ mirrorAt = "quarantine" /\ present
        /\ UNCHANGED <<live, present, source, stranded, outgoing, targetFiles, seen, edits, deaths>>
        /\ outgoing = {} /\ reaped \subseteq reaped'
    BY DEF Quarantine, MirrorInv, Standing
  <1>2. CASE /\ reaped' = reaped \cup {<<n, live[n]>> : n \in omitted}
             /\ mirrorAt' = "aside" /\ incoming' = incoming
    <2>1. ASSUME NEW pair \in seen' PROVE (Settled(pair) \/ InHand(pair))'
      <3>1. pair = <<pair[1], pair[2]>> /\ pair \in seen
        BY <1>1 DEF MirrorInv, MirrorTypes
      <3>2. CASE Settled(pair)
        BY <1>1, <3>2, SettledStays
      <3>3. CASE InHand(pair) /\ StaysLocal(pair[1])
        BY <1>1, <1>2, <3>3 DEF InHand, Holds, StaysLocal
      <3>4. CASE InHand(pair) /\ ~StaysLocal(pair[1])
        <4>1. pair[1] \in targetFiles /\ Holds(live, pair)
          BY <1>1, <3>4 DEF InHand
        <4>2. source[pair[1]] = "none" => <<pair[1], live[pair[1]]>> \in reaped'
          BY <1>2, <3>4, <4>1
        <4>3. source[pair[1]] = "none" =>
                pair \in reaped' \/ (<<pair[1], "edited">> \in reaped' /\ edits > 0)
          BY <3>1, <4>1, <4>2 DEF Holds
        <4> QED BY <1>1, <3>4, <4>3 DEF Settled, PutAway, StaysLocal
      <3> QED BY <3>1, <3>2, <3>3, <3>4 DEF MirrorInv, NothingLost
    <2> QED BY <1>1, <1>2, <2>1 DEF MirrorInv, MirrorTypes, NothingLost, Standing, CopyIsTrue,
                                    Undisturbed, StaysLocal
  <1>3. CASE reaped' = reaped /\ mirrorAt' = "failed" /\ incoming' = Empty
    <2>1. MirrorTypes'
      BY <1>1, <1>3 DEF MirrorInv, MirrorTypes, Dirs, Contents, Empty
    <2>2. ASSUME NEW pair \in seen' PROVE (Settled(pair) \/ InHand(pair))'
      <3>1. CASE Settled(pair)
        BY <1>1, <3>1, SettledStays
      <3>2. CASE InHand(pair)
        BY <1>1, <1>3, <3>2 DEF InHand, Holds
      <3> QED BY <1>1, <3>1, <3>2 DEF MirrorInv, NothingLost
    <2> QED BY <1>1, <1>3, <2>1, <2>2 DEF MirrorInv, NothingLost, Standing, CopyIsTrue, Undisturbed, StaysLocal
  <1> QED BY <1>2, <1>3 DEF Quarantine

(* The directory that is renamed away is what the run still has of the live one. *)
LEMMA MoveAsideStep == ASSUME MirrorInv, MoveAside PROVE MirrorInv'
  <1>1. /\ mirrorAt = "aside" /\ present /\ outgoing = {}
        /\ UNCHANGED <<source, stranded, reaped, targetFiles, seen, edits, deaths>>
    BY DEF MoveAside, MirrorInv, Standing
  <1>2. CASE /\ outgoing' = {live} /\ live' = Empty /\ present' = FALSE /\ mirrorAt' = "in"
             /\ incoming' = incoming
    <2>1. MirrorTypes' /\ Standing'
      BY <1>1, <1>2 DEF MirrorInv, MirrorTypes, Standing, Dirs, Contents, Empty
    <2>2. ASSUME NEW pair \in seen' PROVE (Settled(pair) \/ InHand(pair))'
      <3>1. CASE Settled(pair)
        BY <1>1, <3>1, SettledStays
      <3>2. CASE InHand(pair)
        BY <1>1, <1>2, <3>2 DEF InHand, Holds, StaysLocal
      <3> QED BY <1>1, <3>1, <3>2 DEF MirrorInv, NothingLost
    <2> QED BY <1>1, <1>2, <2>1, <2>2 DEF MirrorInv, NothingLost, CopyIsTrue, Undisturbed, StaysLocal
  <1>3. CASE mirrorAt' = "failed" /\ incoming' = Empty /\ UNCHANGED <<live, present, outgoing>>
    <2>1. MirrorTypes'
      BY <1>1, <1>3 DEF MirrorInv, MirrorTypes, Dirs, Contents, Empty
    <2>2. ASSUME NEW pair \in seen' PROVE (Settled(pair) \/ InHand(pair))'
      <3>1. CASE Settled(pair)
        BY <1>1, <3>1, SettledStays
      <3>2. CASE InHand(pair)
        BY <1>1, <1>3, <3>2 DEF InHand, Holds
      <3> QED BY <1>1, <3>1, <3>2 DEF MirrorInv, NothingLost
    <2> QED BY <1>1, <1>3, <2>1, <2>2 DEF MirrorInv, NothingLost, Standing, CopyIsTrue, Undisturbed, StaysLocal
  <1> QED BY <1>1, <1>2, <1>3 DEF MoveAside

(* What stays local is in the copy that takes the place of the old directory. *)
LEMMA MoveInStep == ASSUME MirrorInv, MoveIn PROVE MirrorInv'
  <1>1. /\ mirrorAt = "in" /\ ~present
        /\ UNCHANGED <<source, stranded, outgoing, reaped, targetFiles, seen, edits, deaths>>
    BY DEF MoveIn, MirrorInv, Standing
  <1>2. CASE live' = incoming /\ present' = TRUE /\ incoming' = Empty /\ mirrorAt' = "drop"
    <2>1. MirrorTypes' /\ Standing'
      BY <1>1, <1>2 DEF MirrorInv, MirrorTypes, Standing, Dirs, Contents, Empty
    <2>2. ASSUME NEW pair \in seen' PROVE (Settled(pair) \/ InHand(pair))'
      <3>1. CASE Settled(pair)
        BY <1>1, <3>1, SettledStays
      <3>2. CASE InHand(pair)
        BY <1>1, <1>2, <3>2 DEF InHand, Holds, StaysLocal
      <3> QED BY <1>1, <3>1, <3>2 DEF MirrorInv, NothingLost
    <2> QED BY <1>1, <1>2, <2>1, <2>2 DEF MirrorInv, NothingLost, CopyIsTrue, Undisturbed, StaysLocal
  <1>3. CASE mirrorAt' = "back" /\ UNCHANGED <<live, present, incoming>>
    <2>2. ASSUME NEW pair \in seen' PROVE (Settled(pair) \/ InHand(pair))'
      <3>1. CASE Settled(pair)
        BY <1>1, <3>1, SettledStays
      <3>2. CASE InHand(pair)
        BY <1>1, <1>3, <3>2 DEF InHand, Holds, StaysLocal
      <3> QED BY <1>1, <3>1, <3>2 DEF MirrorInv, NothingLost
    <2> QED BY <1>1, <1>3, <2>2 DEF MirrorInv, MirrorTypes, NothingLost, Standing, CopyIsTrue,
                                    Undisturbed, StaysLocal
  <1> QED BY <1>2, <1>3 DEF MoveIn

(* The directory renamed back holds what was listed; if it cannot be, it stays beside. *)
LEMMA RollBackStep == ASSUME MirrorInv, RollBack PROVE MirrorInv'
  <1>1. /\ mirrorAt = "back" /\ ~present /\ live = Empty /\ incoming' = Empty /\ mirrorAt' = "failed"
        /\ UNCHANGED <<source, stranded, reaped, targetFiles, seen, edits, deaths>>
    BY DEF RollBack, MirrorInv, Standing
  <1>2. ASSUME NEW old \in outgoing, live' = old, present' = TRUE, outgoing' = {}
        PROVE  MirrorInv'
    <2>1. MirrorTypes' /\ Standing'
      BY <1>1, <1>2 DEF MirrorInv, MirrorTypes, Standing, Dirs, Contents, Empty
    <2>2. ASSUME NEW pair \in seen' PROVE (Settled(pair) \/ InHand(pair))'
      <3>1. CASE Settled(pair)
        BY <1>1, <3>1, SettledStays
      <3>2. CASE InHand(pair)
        <4>1. Holds(old, pair)
          BY <1>1, <3>2 DEF InHand, MirrorInv, Standing
        <4> QED BY <1>1, <1>2, <4>1 DEF InHand, Holds
      <3> QED BY <1>1, <3>1, <3>2 DEF MirrorInv, NothingLost
    <2> QED BY <1>1, <1>2, <2>1, <2>2 DEF MirrorInv, NothingLost, CopyIsTrue, Undisturbed, StaysLocal
  <1>3. CASE UNCHANGED <<live, present, outgoing>>
    <2>1. MirrorTypes'
      BY <1>1, <1>3 DEF MirrorInv, MirrorTypes, Dirs, Contents, Empty
    <2>2. ASSUME NEW pair \in seen' PROVE (Settled(pair) \/ InHand(pair))'
      <3>1. CASE Settled(pair)
        BY <1>1, <3>1, SettledStays
      <3>2. CASE InHand(pair)
        BY <1>1, <1>3, <3>2 DEF InHand, Holds
      <3> QED BY <1>1, <3>1, <3>2 DEF MirrorInv, NothingLost
    <2> QED BY <1>1, <1>3, <2>1, <2>2 DEF MirrorInv, NothingLost, Standing, CopyIsTrue, Undisturbed, StaysLocal
  <1> QED BY <1>2, <1>3 DEF RollBack

(* The old directory is deleted when the new one already holds what stays local. *)
LEMMA DropStep == ASSUME MirrorInv, DropOld PROVE MirrorInv'
  <1>1. /\ mirrorAt = "drop" /\ mirrorAt' = "done" /\ outgoing' \in {{}, outgoing}
        /\ UNCHANGED <<live, present, source, stranded, incoming, reaped, targetFiles, seen, edits, deaths>>
    BY DEF DropOld
  <1>2. ASSUME NEW pair \in seen' PROVE (Settled(pair) \/ InHand(pair))'
    <2>1. CASE Settled(pair)
      BY <1>1, <2>1, SettledStays
    <2>2. CASE InHand(pair)
      BY <1>1, <2>2 DEF InHand, Holds
    <2> QED BY <1>1, <2>1, <2>2 DEF MirrorInv, NothingLost
  <1> QED BY <1>1, <1>2 DEF MirrorInv, MirrorTypes, NothingLost, Standing, CopyIsTrue,
                            Undisturbed, StaysLocal

(* An edit of a live file leaves the edited text in the place of the listed one. *)
LEMMA EditStep == ASSUME MirrorInv, Edit PROVE MirrorInv'
  <1>1. /\ edits' = edits + 1 /\ present /\ edits \in Nat /\ live \in Dirs
        /\ UNCHANGED <<present, source, stranded, incoming, outgoing, reaped, targetFiles, seen,
                       mirrorAt, deaths>>
    BY DEF Edit, MirrorInv, MirrorTypes
  <1>2. PICK n \in Names : live' = [live EXCEPT ![n] = "edited"]
    BY DEF Edit
  <1>3. MirrorTypes' /\ Standing'
    BY <1>1, <1>2 DEF MirrorInv, MirrorTypes, Standing, Dirs, Contents
  <1>4. ASSUME NEW pair \in seen' PROVE (Settled(pair) \/ InHand(pair))'
    <2>1. CASE Settled(pair)
      BY <1>1, <2>1, SettledStays
    <2>2. CASE InHand(pair)
      <3>1. ASSUME NEW dir, Holds(dir, pair) PROVE Holds(dir, pair)'
        BY <1>1, <3>1 DEF Holds
      <3>2. Holds(live, pair) => Holds(live, pair)'
        BY <1>1, <1>2 DEF Holds, Dirs
      <3>3. Holds(incoming, pair) => Holds(incoming, pair)'
        BY <1>1 DEF Holds
      <3>4. \A old \in outgoing : Holds(old, pair) => Holds(old, pair)'
        BY <1>1 DEF Holds
      <3> QED BY <1>1, <2>2, <3>2, <3>3, <3>4 DEF InHand, StaysLocal
    <2> QED BY <1>1, <2>1, <2>2 DEF MirrorInv, NothingLost
  <1>5. edits' # 0
    BY <1>1
  <1> QED BY <1>1, <1>3, <1>4, <1>5 DEF MirrorInv, NothingLost, CopyIsTrue, Undisturbed, StaysLocal

(* A kill leaves the directory that was renamed away under the cache. *)
LEMMA DeathStep == ASSUME MirrorInv, DieInSwap PROVE MirrorInv'
  <1>1. /\ mirrorAt' = "start" /\ incoming' = Empty /\ stranded' = stranded \cup outgoing
        /\ outgoing' = {} /\ mirrorAt \notin {"start", "done", "refused", "failed"}
        /\ UNCHANGED <<live, present, source, reaped, targetFiles, seen, edits>>
    BY DEF DieInSwap
  <1>2. MirrorTypes' /\ Standing'
    BY <1>1 DEF MirrorInv, MirrorTypes, Standing, Dirs, Contents, Empty
  <1>3. ASSUME NEW pair \in seen' PROVE (Settled(pair) \/ InHand(pair))'
    <2>1. pair \in (Names \ Unlisted) \X (Contents \ {"none"}) /\ outgoing \in SUBSET Dirs
      BY <1>1 DEF MirrorInv, MirrorTypes
    <2>2. CASE Settled(pair)
      BY <1>1, <2>2, SettledStays
    <2>3. CASE Holds(live, pair)
      BY <1>1, <2>3 DEF InHand, Holds
    <2>4. ASSUME NEW old \in outgoing, Holds(old, pair) PROVE Settled(pair)'
      <3>1. pair \in Pairs(old) \/ (<<pair[1], "edited">> \in Pairs(old) /\ edits > 0)
        BY <2>1, <2>4, HeldIsListed
      <3>2. Pairs(old) \subseteq PutAway'
        <4>1. old \in stranded'
          BY <1>1
        <4>2. PutAway' = reaped' \cup UNION {Pairs(o) : o \in stranded'}
          BY DEF PutAway, Pairs, Listed
        <4> QED BY <4>1, <4>2
      <3> QED BY <1>1, <3>1, <3>2 DEF Settled
    <2> QED BY <1>1, <2>2, <2>3, <2>4 DEF MirrorInv, NothingLost, InHand
  <1> QED BY <1>1, <1>2, <1>3 DEF MirrorInv, NothingLost, CopyIsTrue, Undisturbed, StaysLocal

(* The invariant holds of every reachable state. *)
LEMMA MirrorInvariant == MirrorSpec => []MirrorInv
  <1>1. MirrorInv /\ [MirrorNext]_mirrorVars => MirrorInv'
    <2> SUFFICES ASSUME MirrorInv, [MirrorNext]_mirrorVars PROVE MirrorInv'
      OBVIOUS
    <2>1. CASE UNCHANGED mirrorVars
      BY <2>1 DEF mirrorVars, MirrorInv, MirrorTypes, Standing, NothingLost, Settled, PutAway, Pairs,
                  Listed, InHand, Holds, CopyIsTrue, Undisturbed, StaysLocal
    <2> QED BY <2>1, CompareStep, StageStep, QuarantineStep, MoveAsideStep, MoveInStep,
               RollBackStep, DropStep, EditStep, DeathStep DEF MirrorNext
  <1> QED BY <1>1, MirrorStarts, PTL DEF MirrorSpec

(* Whatever a directory swap has listed and the member had changed is live, *)
(* beside it or in the quarantine, through failing renames, the roll-back,  *)
(* edits and a kill between any two steps of ensureDirectoryMirrorsMatch,   *)
(* for any number of files, kills and edits; and a swap that comes to its   *)
(* end leaves the member's files in their place.                            *)
THEOREM MirrorLosesNothing == MirrorSpec => [](MirrorKeepsLocal /\ SwapIsComplete)
  <1>1. MirrorInv => MirrorKeepsLocal
    <2> SUFFICES ASSUME MirrorInv, NEW pair \in seen
                 PROVE  \/ pair \in Somewhere
                        \/ ~StaysLocal(pair[1]) /\ source[pair[1]] # "none"
                        \/ <<pair[1], "edited">> \in Somewhere /\ edits > 0
      BY DEF MirrorKeepsLocal
    <2>1. pair \in (Names \ Unlisted) \X (Contents \ {"none"})
      BY DEF MirrorInv, MirrorTypes
    <2>2. PutAway \subseteq Somewhere
      BY DEF PutAway, Somewhere
    <2>3. ASSUME NEW dir \in {live} \cup outgoing, Holds(dir, pair)
          PROVE  pair \in Somewhere \/ (<<pair[1], "edited">> \in Somewhere /\ edits > 0)
      <3>1. dir \in Dirs /\ Pairs(dir) \subseteq Somewhere
        BY DEF MirrorInv, MirrorTypes, Somewhere
      <3> QED BY <2>1, <2>3, <3>1, HeldIsListed
    <2> QED BY <2>2, <2>3 DEF MirrorInv, NothingLost, Settled, InHand
  <1>2. MirrorInv => SwapIsComplete
    BY DEF MirrorInv, Standing, Undisturbed, SwapIsComplete, Listed
  <1> QED BY <1>1, <1>2, MirrorInvariant, PTL

-----------------------------------------------------------------------------
(* Induction over the natural numbers, for a set in place of a predicate. *)
LEMMA SetInduction ==
  ASSUME NEW S \in SUBSET Nat, 0 \in S, \A n \in S : n + 1 \in S
  PROVE  S = Nat
  <1> DEFINE R == OpToRel(<, Nat)
             T == Nat \ S
  <1>1. IsWellFoundedOn(R, Nat)
    BY NatLessThanWellFounded
  <1>2. SUFFICES ASSUME T # {} PROVE FALSE
    OBVIOUS
  <1>3. PICK x \in T : \A y \in T : ~(<<y, x>> \in R)
    <2>1. T \subseteq Nat
      OBVIOUS
    <2> HIDE DEF R, T
    <2> QED
      BY <1>1, <1>2, <2>1, WFMin
  <1>4. x # 0 /\ x - 1 \in Nat /\ x - 1 < x
    OBVIOUS
  <1>5. x - 1 \in T
    BY <1>4
  <1>6. <<x - 1, x>> \in R
    BY <1>4 DEF OpToRel
  <1> QED
    BY <1>3, <1>5, <1>6

(***************************************************************************)
(* The manifest's moves keep the texts of a member and what refers to      *)
(* them, for any checkout, any list of moves and any kills.  A plan that   *)
(* is carried out has its source apart from every other plan, and what is  *)
(* still to be written to a path is what stands there, or will, but for    *)
(* the job that is repaired.                                               *)
(***************************************************************************)

PlanRecords == [from : Paths, to : Paths, workflow : BOOLEAN, content : Files]

Turns(text, later) == later = text \/ (text = "retired" /\ later = "repair")

(* No plan takes what another has moved, and only workflows meet. *)
Apart(p, q) ==
  /\ p.from # q.from /\ p.from # q.to /\ q.from # p.to
  /\ p.to = q.to => p.workflow /\ q.workflow
AllApart(list) == \A i, j \in 1 .. Len(list) : i # j => Apart(list[i], list[j])

(* A plan is one of the manifest's moves, and its ends are still files. *)
Fit(p) ==
  /\ p.workflow = (p.from \in Workflows /\ p.to \in Workflows)
  /\ p.from # p.to
  /\ \E m \in Range(moves) : m.from = p.from /\ m.to = p.to
  /\ IsFile(tree[p.from]) /\ (Exists(tree[p.to]) => IsFile(tree[p.to]))

(* Two plain files meet only as copies of each other. *)
Meets(p) ==
  /\ ~p.workflow /\ Exists(tree[p.to]) => tree[p.to] = tree[p.from]
  /\ p.workflow => p.to \in DOMAIN updates
  /\ p.to \in DOMAIN updates => Turns(tree[p.from].text, updates[p.to].text)

Writes(path) == IsFile(tree[path]) => Turns(tree[path].text, updates[path].text)

(* The old names of the workflows that this run has moved, or will. *)
OldNames == told \cup {p.from : p \in {q \in Range(plans) : q.workflow}}
Sources == {p.from : p \in Range(plans)}

(* What refers to an old name is still to be written, or still to be moved. *)
NamesFollowed ==
  /\ \A path \in DOMAIN updates : updates[path].calls \cap OldNames = {}
  /\ \A path \in Workflows \ DOMAIN updates :
       IsFile(tree[path]) /\ Within(path)
         => path \in Sources \/ tree[path].calls \cap OldNames = {}

Moving ==
  /\ AllApart(plans)
  /\ \A p \in Range(plans) : Fit(p) /\ Meets(p)
  /\ \A path \in DOMAIN updates : Writes(path)
  /\ NamesFollowed

MoveTypes ==
  /\ tree \in [Paths -> Files] /\ moves \in Seq(Moves) /\ plans \in Seq(PlanRecords)
  /\ DOMAIN updates \subseteq Paths
  /\ \A path \in DOMAIN updates : updates[path] \in Files /\ IsFile(updates[path])
  /\ kills \in Nat
  /\ phase # "moving" => DOMAIN updates = {}

(* A text that is gone is a job's, and another job's text is there; the repair *)
(* is there, or still to be written, unless a run was killed.                  *)
TextsKept == \A text \in before : text \in Texts \/ (text \in Jobs /\ Texts \cap Jobs # {})
Pending == \E path \in DOMAIN updates : updates[path].text = "repair"
RepairKept == kills = 0 /\ "repair" \in before => "repair" \in Texts \/ Pending

MovesInv ==
  /\ MoveTypes /\ TextsKept /\ RepairKept /\ ReferencesFollow
  /\ phase = "moving" => Moving

-----------------------------------------------------------------------------
(* The states of the judgement between the moves of the list exist. *)
LEMMA JudgementSteps ==
  ASSUME Len(moves) \in Nat
  PROVE  \E after : /\ after[0] = [plans |-> <<>>, refused |-> FALSE]
                    /\ \A n \in 1 .. Len(moves) : after[n] = Judged(after[n - 1], moves[n])
                    /\ Judgement = after[Len(moves)]
  <1> DEFINE Start == [plans |-> <<>>, refused |-> FALSE]
             Step(acc, n) == Judged(acc, moves[n])
             Steps(g, m) == g = [n \in 0 .. m |-> IF n = 0 THEN Start ELSE Step(g[n - 1], n)]
             S == {m \in Nat : \E g : Steps(g, m)}
  <1>1. Judgement = (CHOOSE g : Steps(g, Len(moves)))[Len(moves)]
    BY DEF Judgement
  <1> HIDE DEF Start, Step
  <1>2. 0 \in S
    <2> DEFINE g == [n \in 0 .. 0 |-> Start]
    <2>1. Steps(g, 0)
      OBVIOUS
    <2> QED BY <2>1
  <1>3. ASSUME NEW m \in S PROVE m + 1 \in S
    <2>1. PICK g : Steps(g, m)
      OBVIOUS
    <2> DEFINE h == [n \in 0 .. (m + 1) |-> IF n = m + 1 THEN Step(g[m], m + 1) ELSE g[n]]
    <2>2. Steps(h, m + 1)
      <3>1. ASSUME NEW n \in 0 .. (m + 1)
            PROVE  h[n] = IF n = 0 THEN Start ELSE Step(h[n - 1], n)
        <4>1. CASE n = 0
          BY <4>1, <2>1
        <4>2. CASE n \in 1 .. m
          <5>1. h[n] = g[n] /\ h[n - 1] = g[n - 1] /\ n \in 0 .. m
            BY <4>2
          <5>2. g[n] = Step(g[n - 1], n)
            BY <2>1, <5>1, <4>2
          <5> QED BY <5>1, <5>2, <4>2
        <4>3. CASE n = m + 1
          <5>1. h[n] = Step(g[m], n) /\ h[n - 1] = g[m] /\ n # 0
            BY <4>3
          <5> QED BY <5>1
        <4> QED BY <4>1, <4>2, <4>3
      <3>2. h = [n \in 0 .. (m + 1) |-> h[n]]
        OBVIOUS
      <3> HIDE DEF h
      <3> QED BY <3>1, <3>2
    <2> HIDE DEF Steps, h
    <2> QED BY <2>2
  <1>4. Len(moves) \in S
    <2> HIDE DEF S
    <2>1. S \in SUBSET Nat
      BY DEF S
    <2> QED BY <1>2, <1>3, <2>1, SetInduction
  <1> DEFINE after == CHOOSE g : Steps(g, Len(moves))
  <1>5. Steps(after, Len(moves))
    <2>1. \E g : Steps(g, Len(moves))
      BY <1>4
    <2> HIDE DEF Steps
    <2> QED BY <2>1
  <1>6. Judgement = after[Len(moves)]
    BY <1>1
  <1> HIDE DEF after
  <1>7. after[0] = Start /\ \A n \in 1 .. Len(moves) : after[n] = Step(after[n - 1], n)
    <2>1. \A n \in 0 .. Len(moves) : after[n] = IF n = 0 THEN Start ELSE Step(after[n - 1], n)
      BY <1>5
    <2> QED BY <2>1
  <1> QED BY <1>6, <1>7 DEF Start, Step

(* What each plan of a judgement is. *)
Sound(p) == /\ Fit(p)
            /\ p.workflow => IsFile(p.content) /\ Turns(tree[p.from].text, p.content.text)
SoundList(list) ==
  /\ list \in Seq(PlanRecords) /\ AllApart(list)
  /\ \A i \in 1 .. Len(list) : Sound(list[i])

LEMMA TextStep ==
  ASSUME NEW file \in Files, NEW text \in FileTexts
  PROVE  LET later == [file EXCEPT !.text = text]
         IN  later \in Files /\ later.text = text /\ later.kind = file.kind
  BY DEF Files

LEMMA NameStep ==
  ASSUME NEW file \in Files, NEW name \in Titles
  PROVE  LET later == [file EXCEPT !.name = name]
         IN  later \in Files /\ later.text = file.text /\ later.kind = file.kind
  BY DEF Files

LEMMA CallsStep ==
  ASSUME NEW file \in Files, NEW calls \in SUBSET Paths
  PROVE  LET later == [file EXCEPT !.calls = calls]
         IN  later \in Files /\ later.text = file.text /\ later.kind = file.kind /\ later.calls = calls
  BY DEF Files

LEMMA RepairedFile ==
  ASSUME NEW file \in Files, NEW move \in Moves, IsFile(file), NEW to \in Titles
  PROVE  LET later == Renamed(Repaired(file, move), to)
         IN  later \in Files /\ IsFile(later) /\ Turns(file.text, later.text)
  <1> DEFINE fixed == Repaired(file, move)
  <1>1. fixed \in Files /\ IsFile(fixed) /\ Turns(file.text, fixed.text)
    <2>1. CASE move.job /\ file.text = "retired"
      <3>1. fixed = [file EXCEPT !.text = "repair"]
        BY <2>1 DEF Repaired
      <3> HIDE DEF fixed
      <3>2. fixed \in Files /\ fixed.text = "repair" /\ fixed.kind = file.kind
        BY <3>1, PathsAssumption, TextStep
      <3> QED BY <3>2, <2>1 DEF Turns, IsFile
    <2>2. CASE ~(move.job /\ file.text = "retired")
      BY <2>2 DEF Repaired, Turns
    <2> QED BY <2>1, <2>2
  <1> HIDE DEF fixed
  <1>2. Renamed(fixed, to) = [fixed EXCEPT !.name = to]
    BY DEF Renamed
  <1>3. /\ Renamed(fixed, to) \in Files /\ Renamed(fixed, to).text = fixed.text
        /\ Renamed(fixed, to).kind = fixed.kind
    BY <1>1, <1>2, NameStep
  <1> QED BY <1>1, <1>3 DEF IsFile, fixed

LEMMA PlannedSound ==
  ASSUME tree \in [Paths -> Files], NEW move \in Moves, move \in Range(moves),
         move.from # move.to, Exists(tree[move.from]), ~Unfit(move)
  PROVE  Planned(move) \in PlanRecords /\ Sound(Planned(move))
  <1>1. /\ tree[move.from] \in Files /\ tree[move.to] \in Files
        /\ move.from \in Paths /\ move.to \in Paths /\ move.to \in Titles
    BY PathsAssumption DEF Moves
  <1>2. IsFile(tree[move.from]) /\ (Exists(tree[move.to]) => IsFile(tree[move.to]))
    BY DEF Unfit
  <1> DEFINE file == tree[move.from]
             turned == Renamed(Repaired(file, move), move.to)
  <1>3. turned \in Files /\ IsFile(turned) /\ Turns(file.text, turned.text)
    BY <1>1, <1>2, RepairedFile
  <1> DEFINE plan == Planned(move)
  <1>4. /\ plan.from = move.from /\ plan.to = move.to /\ plan.workflow = IsWorkflowMove(move)
        /\ plan.content = IF IsWorkflowMove(move) THEN turned ELSE file
        /\ plan = [from |-> plan.from, to |-> plan.to, workflow |-> plan.workflow,
                   content |-> plan.content]
    BY DEF Planned
  <1> HIDE DEF turned
  <1>5. /\ IsWorkflowMove(move) \in BOOLEAN
        /\ IsWorkflowMove(move) = (move.from \in Workflows /\ move.to \in Workflows)
    BY DEF IsWorkflowMove
  <1> HIDE DEF plan
  <1>6. plan \in PlanRecords
    <2>1. plan.content \in Files
      BY <1>1, <1>3, <1>4
    <2> QED BY <2>1, <1>4, <1>5, <1>1 DEF PlanRecords
  <1>7. plan.workflow => IsFile(plan.content) /\ Turns(file.text, plan.content.text)
    BY <1>4, <1>3
  <1>8. Fit(plan)
    BY <1>4, <1>5, <1>2 DEF Fit
  <1>9. plan.workflow => IsFile(plan.content) /\ Turns(tree[plan.from].text, plan.content.text)
    BY <1>7, <1>4
  <1>10. plan \in PlanRecords /\ Sound(plan)
    BY <1>6, <1>8, <1>9 DEF Sound
  <1> QED BY <1>10 DEF plan

(* A judgement that refuses nothing has only sound plans, all apart. *)
LEMMA JudgedSound ==
  ASSUME tree \in [Paths -> Files], moves \in Seq(Moves), ~Judgement.refused
  PROVE  SoundList(Judgement.plans)
  <1>1. PICK after : /\ after[0] = [plans |-> <<>>, refused |-> FALSE]
                     /\ \A n \in 1 .. Len(moves) : after[n] = Judged(after[n - 1], moves[n])
                     /\ Judgement = after[Len(moves)]
    BY JudgementSteps
  <1> DEFINE Good(acc) == /\ acc = [plans |-> acc.plans, refused |-> acc.refused]
                          /\ acc.refused \/ SoundList(acc.plans)
             S == {n \in Nat : n <= Len(moves) => Good(after[n])}
  <1>2. 0 \in S
    <2>1. SoundList(<<>>)
      BY DEF SoundList, AllApart
    <2> QED BY <2>1, <1>1
  <1>3. ASSUME NEW n \in S PROVE n + 1 \in S
    <2> SUFFICES ASSUME n + 1 <= Len(moves) PROVE Good(after[n + 1])
      OBVIOUS
    <2>1. n + 1 \in 1 .. Len(moves) /\ (n + 1) - 1 = n /\ Good(after[n])
      OBVIOUS
    <2> DEFINE acc == after[n]
               move == moves[n + 1]
    <2>2. after[n + 1] = Judged(acc, move) /\ move \in Moves /\ move \in Range(moves)
      BY <1>1, <2>1 DEF Range
    <2>3. Good(acc)
      BY <2>1
    <2> HIDE DEF acc, move
    <2>4. CASE acc.refused \/ Skipped(move)
      BY <2>4, <2>2, <2>3 DEF Judged
    <2>5. CASE ~(acc.refused \/ Skipped(move)) /\ (move.from = move.to \/ Overlaps(move, Range(acc.plans)))
      <3>1. Judged(acc, move) = [acc EXCEPT !.refused = TRUE]
        BY <2>5 DEF Judged
      <3> QED BY <3>1, <2>2, <2>3
    <2>6. CASE ~(acc.refused \/ Skipped(move)) /\ move.from # move.to
               /\ ~Overlaps(move, Range(acc.plans)) /\ ~Exists(tree[move.from])
      BY <2>6, <2>2, <2>3 DEF Judged
    <2>7. CASE ~(acc.refused \/ Skipped(move)) /\ move.from # move.to
               /\ ~Overlaps(move, Range(acc.plans)) /\ Exists(tree[move.from])
      <3>1. CASE Unfit(move)
        <4>1. Judged(acc, move) = [acc EXCEPT !.refused = TRUE]
          BY <2>7, <3>1 DEF Judged
        <4> QED BY <4>1, <2>2, <2>3
      <3>2. CASE ~Unfit(move)
        <4> DEFINE list == acc.plans
                   plan == Planned(move)
                   longer == Append(list, plan)
        <4>1. Judged(acc, move) = [acc EXCEPT !.plans = longer]
          BY <2>7, <3>2 DEF Judged
        <4>2. SoundList(list)
          BY <2>3, <2>7
        <4>3. plan \in PlanRecords /\ Sound(plan)
          BY <2>7, <3>2, <2>2, PlannedSound
        <4>4. plan.from = move.from /\ plan.to = move.to /\ plan.workflow = IsWorkflowMove(move)
          BY DEF Planned
        <4>5. \A p \in Range(list) : Apart(p, plan)
          BY <2>7, <4>4 DEF Overlaps, Apart
        <4> HIDE DEF list, plan
        <4>6. /\ longer \in Seq(PlanRecords) /\ Len(longer) = Len(list) + 1
              /\ \A i \in 1 .. Len(list) : longer[i] = list[i] /\ list[i] \in Range(list)
              /\ longer[Len(list) + 1] = plan /\ Len(list) \in Nat
          BY <4>2, <4>3, AppendProperties DEF SoundList, Range
        <4> HIDE DEF longer
        <4>7. AllApart(longer)
          <5> SUFFICES ASSUME NEW i \in 1 .. Len(longer), NEW j \in 1 .. Len(longer), i # j
                       PROVE  Apart(longer[i], longer[j])
            BY DEF AllApart
          <5>1. CASE i <= Len(list) /\ j <= Len(list)
            <6>1. i \in 1 .. Len(list) /\ j \in 1 .. Len(list)
              BY <5>1, <4>6
            <6> QED BY <6>1, <4>6, <4>2 DEF SoundList, AllApart
          <5>2. CASE i <= Len(list) /\ j = Len(list) + 1
            <6>1. i \in 1 .. Len(list)
              BY <5>2, <4>6
            <6> QED BY <6>1, <5>2, <4>5, <4>6
          <5>3. CASE j <= Len(list) /\ i = Len(list) + 1
            <6>1. j \in 1 .. Len(list)
              BY <5>3, <4>6
            <6>2. Apart(longer[j], plan)
              BY <6>1, <4>5, <4>6
            <6> QED BY <6>2, <5>3, <4>6 DEF Apart
          <5> QED BY <5>1, <5>2, <5>3, <4>6
        <4>8. \A i \in 1 .. Len(longer) : Sound(longer[i])
          <5> SUFFICES ASSUME NEW i \in 1 .. Len(longer) PROVE Sound(longer[i])
            OBVIOUS
          <5>1. i \in 1 .. Len(list) \/ i = Len(list) + 1
            BY <4>6
          <5> QED BY <5>1, <4>6, <4>2, <4>3 DEF SoundList
        <4> QED BY <4>1, <4>6, <4>7, <4>8, <2>2, <2>3 DEF SoundList
      <3> QED BY <3>1, <3>2
    <2> QED BY <2>4, <2>5, <2>6, <2>7
  <1>4. S = Nat
    <2> HIDE DEF S
    <2>1. S \in SUBSET Nat
      BY DEF S
    <2>2. 0 \in S /\ \A n \in S : n + 1 \in S
      BY <1>2, <1>3
    <2> QED BY <2>1, <2>2, SetInduction
  <1>5. Len(moves) \in Nat
    BY LenProperties
  <1> HIDE DEF Good
  <1>6. Good(after[Len(moves)])
    <2>1. Len(moves) \in S /\ Len(moves) <= Len(moves)
      BY <1>4, <1>5
    <2> QED BY <2>1
  <1>7. Judgement.refused \/ SoundList(Judgement.plans)
    BY <1>1, <1>6 DEF Good
  <1> QED BY <1>7

-----------------------------------------------------------------------------
LEMMA RangeApart ==
  ASSUME NEW list \in Seq(PlanRecords), AllApart(list), NEW p \in Range(list), NEW q \in Range(list)
  PROVE  p \in PlanRecords /\ (p # q => Apart(p, q))
  <1>1. PICK i \in 1 .. Len(list) : p = list[i]
    BY DEF Range
  <1>2. PICK j \in 1 .. Len(list) : q = list[j]
    BY DEF Range
  <1> QED BY <1>1, <1>2 DEF AllApart

LEMMA SoundOnes ==
  ASSUME NEW list, SoundList(list), NEW p \in Range(list)
  PROVE  Sound(p)
  BY DEF SoundList, Range

(* A new name is no old one: a destination is the source of no plan. *)
LEMMA NamesFollow ==
  ASSUME NEW list, SoundList(list)
  PROVE  LET names == NewNames(list)
         IN  /\ DOMAIN names = {p.from : p \in {q \in Range(list) : q.workflow}}
             /\ \A old \in DOMAIN names : names[old] \in Paths \ DOMAIN names
  <1> DEFINE Old == {p.from : p \in {q \in Range(list) : q.workflow}}
             names == NewNames(list)
  <1>1. names = [old \in Old |-> (CHOOSE p \in Range(list) : p.from = old).to]
    BY DEF NewNames
  <1>2. ASSUME NEW old \in Old PROVE names[old] \in Paths \ Old
    <2>1. PICK p \in Range(list) : p.from = old /\ names[old] = p.to
      <3>1. \E p \in Range(list) : p.from = old
        OBVIOUS
      <3> QED BY <3>1, <1>1
    <2>2. p.to \in Paths
      BY RangeApart DEF SoundList, PlanRecords
    <2>3. ASSUME NEW q \in Range(list) PROVE q.from # p.to
      <3>1. p # q => Apart(p, q)
        BY RangeApart DEF SoundList
      <3>2. p.from # p.to
        BY SoundOnes DEF Sound, Fit
      <3> QED BY <3>1, <3>2 DEF Apart
    <2> QED BY <2>1, <2>2, <2>3
  <1>3. DOMAIN names = Old
    BY <1>1
  <1> QED BY <1>2, <1>3

LEMMA FollowingFile ==
  ASSUME NEW file \in Files, NEW names, \A old \in DOMAIN names : names[old] \in Paths \ DOMAIN names
  PROVE  LET later == Following(file, names)
         IN  /\ later \in Files /\ later.text = file.text /\ later.kind = file.kind
             /\ later.calls \cap DOMAIN names = {}
             /\ later = file => file.calls \cap DOMAIN names = {}
  <1> DEFINE later == Following(file, names)
             calls == {IF c \in DOMAIN names THEN names[c] ELSE c : c \in file.calls}
  <1>1. file.calls \in SUBSET Paths
    BY DEF Files
  <1>2. calls \in SUBSET Paths /\ calls \cap DOMAIN names = {}
    BY <1>1
  <1>3. later = [file EXCEPT !.calls = calls]
    <2>1. later = [file EXCEPT !.calls = {IF c \in DOMAIN names THEN names[c] ELSE c : c \in @}]
      BY DEF Following
    <2> QED BY <2>1
  <1> HIDE DEF calls
  <1>4. later \in Files /\ later.text = file.text /\ later.kind = file.kind /\ later.calls = calls
    BY <1>2, <1>3, CallsStep
  <1> QED BY <1>2, <1>4

(* What a judged list is to write: files that call nothing by its old name,   *)
(* with the text of what is moved there or of what is there already, repaired.*)
LEMMA UpdatesAgree ==
  ASSUME tree \in [Paths -> Files], NEW list, SoundList(list), ~Conflicts(list)
  PROVE  LET new == Updates(list)
             Old == {p.from : p \in {q \in Range(list) : q.workflow}}
         IN  /\ DOMAIN new \subseteq Paths
             /\ \A path \in DOMAIN new :
                  /\ new[path] \in Files /\ IsFile(new[path]) /\ new[path].calls \cap Old = {}
                  /\ IsFile(tree[path]) => Turns(tree[path].text, new[path].text)
             /\ \A p \in Range(list) :
                  /\ ~p.workflow /\ Exists(tree[p.to]) => tree[p.to] = tree[p.from]
                  /\ p.workflow => p.to \in DOMAIN new
                  /\ p.to \in DOMAIN new => Turns(tree[p.from].text, new[p.to].text)
             /\ \A path \in Workflows \ DOMAIN new :
                  IsFile(tree[path]) /\ Within(path)
                    => \/ path \in {p.from : p \in Range(list)}
                       \/ tree[path].calls \cap Old = {}
  <1> DEFINE new == Updates(list)
             names == NewNames(list)
             Old == {p.from : p \in {q \in Range(list) : q.workflow}}
             movedTo(path) == {p.to : p \in {q \in Range(list) : q.from = path}}
             landing(path) == IF movedTo(path) = {} THEN path ELSE CHOOSE to \in movedTo(path) : TRUE
             moved == {p \in Range(list) : p.workflow}
             follows == {path \in Workflows :
                           /\ IsFile(tree[path]) /\ Following(tree[path], names) # tree[path]
                           /\ movedTo(path) = {} => \A p \in Range(list) : p.to # path
                           /\ \A p \in moved : p.from # path}
             Places == {p.to : p \in moved} \cup {landing(path) : path \in follows}
             Content(path) ==
               IF \E p \in moved : p.to = path
                 THEN Following((CHOOSE p \in moved : p.to = path).content, names)
                 ELSE Following(tree[CHOOSE from \in follows : landing(from) = path], names)
  <1>1. new = [path \in Places |-> Content(path)]
    BY DEF Updates
  <1> HIDE DEF new
  <1>0. DOMAIN new = Places /\ \A path \in Places : new[path] = Content(path)
    <2> HIDE DEF Places, Content
    <2> QED BY <1>1
  <1>2. DOMAIN names = Old /\ \A old \in DOMAIN names : names[old] \in Paths \ DOMAIN names
    BY NamesFollow
  <1>3. /\ list \in Seq(PlanRecords) /\ AllApart(list)
        /\ \A p \in Range(list) : Sound(p) /\ p \in PlanRecords
    BY SoundOnes, RangeApart DEF SoundList
  <1>4. \A p, q \in Range(list) : p # q => Apart(p, q)
    BY <1>3, RangeApart
  <1>5. \A file \in Files : LET later == Following(file, names)
                            IN  /\ later \in Files /\ later.text = file.text /\ later.kind = file.kind
                                /\ later.calls \cap Old = {}
                                /\ later = file => file.calls \cap Old = {}
    BY <1>2, FollowingFile
  <1>6. \A p \in Range(list) : /\ p.from \in Paths /\ p.to \in Paths /\ p.content \in Files
                               /\ p.workflow \in BOOLEAN
    BY <1>3 DEF PlanRecords
  (* Plain files that meet are copies. *)
  <1>7. ASSUME NEW p \in Range(list), ~p.workflow, Exists(tree[p.to]) PROVE tree[p.to] = tree[p.from]
    BY <1>7 DEF Conflicts
  (* What is written to a destination of moved workflows. *)
  <1>8. ASSUME NEW path \in {p.to : p \in moved}
        PROVE  \E p \in moved : p.to = path /\ new[path] = Following(p.content, names)
    <2>1. \E p \in moved : p.to = path
      OBVIOUS
    <2>2. PICK p \in moved : p.to = path /\ Content(path) = Following(p.content, names)
      BY <2>1
    <2> HIDE DEF Content
    <2> QED BY <2>2, <1>0
  <1>9. ASSUME NEW p \in moved, NEW q \in moved, p.to = q.to
        PROVE  Following(q.content, names) = Following(p.content, names)
    BY <1>9 DEF Conflicts
  <1>10. ASSUME NEW p \in moved, Exists(tree[p.to])
         PROVE  Following(Renamed(tree[p.to], p.to), names) = Following(p.content, names)
    BY <1>10 DEF Conflicts
  (* What is written elsewhere. *)
  <1>11. ASSUME NEW path \in Places, path \notin {p.to : p \in moved}
         PROVE  \E from \in follows : landing(from) = path /\ new[path] = Following(tree[from], names)
    <2>1. \E from \in follows : landing(from) = path
      BY <1>11
    <2> DEFINE from == CHOOSE f \in follows : landing(f) = path
    <2>2. from \in follows /\ landing(from) = path
      BY <2>1
    <2>3. Content(path) = Following(tree[from], names)
      BY <1>11
    <2> HIDE DEF from, Content
    <2> QED BY <2>2, <2>3, <1>0, <1>11
  <1>12. \A path \in Workflows : path \in Paths /\ tree[path] \in Files
    BY PathsAssumption
  (* A plain file moved out of the workflows is rewritten where it goes. *)
  <1>13. ASSUME NEW from \in follows
         PROVE  /\ landing(from) \in Paths
                /\ \/ landing(from) = from /\ \A p \in Range(list) : p.to # from
                   \/ \E p \in Range(list) : ~p.workflow /\ p.from = from /\ p.to = landing(from)
    <2>1. CASE movedTo(from) = {}
      BY <2>1, <1>12
    <2>2. CASE movedTo(from) # {}
      <3>1. landing(from) \in movedTo(from)
        BY <2>2
      <3>2. PICK p \in Range(list) : p.from = from /\ p.to = landing(from)
        BY <3>1
      <3>3. p \notin moved
        BY <3>2
      <3> QED BY <3>2, <3>3, <1>6
    <2> QED BY <2>1, <2>2
  <1> HIDE DEF follows, landing, Content
  <1>14. \A p \in moved : p.to \in Places
    OBVIOUS
  <1>15. Places \subseteq Paths
    BY <1>6, <1>13
  <1>16. ASSUME NEW path \in Places
         PROVE  /\ new[path] \in Files /\ IsFile(new[path]) /\ new[path].calls \cap Old = {}
                /\ IsFile(tree[path]) => Turns(tree[path].text, new[path].text)
                /\ \A p \in Range(list) : p.to = path => Turns(tree[p.from].text, new[path].text)
    <2>1. CASE path \in {p.to : p \in moved}
      <3>1. PICK p \in moved : p.to = path /\ new[path] = Following(p.content, names)
        BY <2>1, <1>8
      <3>2. /\ p.content \in Files /\ IsFile(p.content) /\ Fit(p)
            /\ Turns(tree[p.from].text, p.content.text)
        BY <1>3, <1>6 DEF Sound
      <3>3. /\ new[path] \in Files /\ IsFile(new[path]) /\ new[path].calls \cap Old = {}
            /\ new[path].text = p.content.text
        BY <3>1, <3>2, <1>5 DEF IsFile
      <3>4. ASSUME IsFile(tree[path]) PROVE tree[path].text = new[path].text
        <4>1. Exists(tree[p.to]) /\ tree[path] \in Files /\ path \in Titles
          BY <3>1, <3>4, <1>6, PathsAssumption DEF Exists, IsFile
        <4>2. /\ Renamed(tree[path], path) \in Files
              /\ Renamed(tree[path], path).text = tree[path].text
          BY <4>1, NameStep DEF Renamed
        <4> QED BY <4>1, <4>2, <3>1, <1>10, <1>5
      <3>5. ASSUME NEW q \in Range(list), q.to = path
            PROVE  Turns(tree[q.from].text, new[path].text)
        <4>1. q \in moved
          <5>1. q = p \/ Apart(q, p)
            BY <1>4
          <5> QED BY <5>1, <3>1, <3>5 DEF Apart
        <4>2. Following(q.content, names) = new[path] /\ q.content \in Files
          BY <4>1, <3>1, <3>5, <1>6, <1>9
        <4>3. Turns(tree[q.from].text, q.content.text)
          BY <4>1, <1>3 DEF Sound
        <4> QED BY <4>2, <4>3, <1>5
      <3> QED BY <3>3, <3>4, <3>5 DEF Turns
    <2>2. CASE path \notin {p.to : p \in moved}
      <3>1. PICK from \in follows : landing(from) = path /\ new[path] = Following(tree[from], names)
        BY <2>2, <1>11
      <3>2. tree[from] \in Files /\ IsFile(tree[from])
        BY <1>12 DEF follows
      <3>3. /\ new[path] \in Files /\ IsFile(new[path]) /\ new[path].calls \cap Old = {}
            /\ new[path].text = tree[from].text
        BY <3>1, <3>2, <1>5 DEF IsFile
      <3>4. CASE path = from /\ \A p \in Range(list) : p.to # from
        BY <3>3, <3>4 DEF Turns
      <3>5. CASE \E p \in Range(list) : ~p.workflow /\ p.from = from /\ p.to = path
        <4>1. PICK p \in Range(list) : ~p.workflow /\ p.from = from /\ p.to = path
          BY <3>5
        <4>2. \A q \in Range(list) : q.to = path => q = p
          BY <4>1, <1>4 DEF Apart
        <4>3. IsFile(tree[path]) => tree[path] = tree[from]
          BY <4>1, <1>7 DEF IsFile, Exists
        <4> QED BY <4>1, <4>2, <4>3, <3>3 DEF Turns
      <3> QED BY <3>1, <3>4, <3>5, <1>13
    <2> QED BY <2>1, <2>2
  <1>17. ASSUME NEW path \in Workflows \ Places, IsFile(tree[path]), Within(path)
         PROVE  path \in {p.from : p \in Range(list)} \/ tree[path].calls \cap Old = {}
    <2> SUFFICES ASSUME path \notin {p.from : p \in Range(list)} PROVE tree[path].calls \cap Old = {}
      OBVIOUS
    <2>1. movedTo(path) = {}
      OBVIOUS
    <2>2. ASSUME NEW p \in Range(list) PROVE p.to # path
      <3>1. SUFFICES ASSUME p.to = path PROVE FALSE
        OBVIOUS
      <3>2. Fit(p)
        BY <1>3 DEF Sound
      <3>3. p.from \in Workflows
        BY <3>1, <3>2, <1>17 DEF Fit, Within
      <3>4. p \in moved
        BY <3>1, <3>2, <3>3 DEF Fit
      <3> QED BY <3>1, <3>4, <1>14
    <2>3. path \notin follows
      <3>1. SUFFICES ASSUME path \in follows PROVE FALSE
        OBVIOUS
      <3>2. landing(path) = path
        BY <2>1 DEF landing
      <3> QED BY <3>1, <3>2
    <2>4. Following(tree[path], names) = tree[path]
      BY <2>1, <2>2, <2>3, <1>17 DEF follows
    <2> QED BY <2>4, <1>5, <1>12
  <1>18. /\ DOMAIN new \subseteq Paths
         /\ \A path \in DOMAIN new :
              /\ new[path] \in Files /\ IsFile(new[path]) /\ new[path].calls \cap Old = {}
              /\ IsFile(tree[path]) => Turns(tree[path].text, new[path].text)
         /\ \A p \in Range(list) :
              /\ ~p.workflow /\ Exists(tree[p.to]) => tree[p.to] = tree[p.from]
              /\ p.workflow => p.to \in DOMAIN new
              /\ p.to \in DOMAIN new => Turns(tree[p.from].text, new[p.to].text)
         /\ \A path \in Workflows \ DOMAIN new :
              IsFile(tree[path]) /\ Within(path)
                => path \in {p.from : p \in Range(list)} \/ tree[path].calls \cap Old = {}
    <2> HIDE DEF Places, Old
    <2>1. \A p \in Range(list) : p.workflow => p.to \in Places
      BY <1>14
    <2> QED BY <2>1, <1>0, <1>7, <1>15, <1>16, <1>17
  <1> QED BY <1>18 DEF new

-----------------------------------------------------------------------------
LEMMA MovesStart == MovesInit => MovesInv
  <1> SUFFICES ASSUME MovesInit PROVE MovesInv
    OBVIOUS
  <1>1. tree \in [Paths -> Files] /\ moves \in Seq(Moves)
    BY TreesAssumption, MovesAssumption DEF MovesInit
  <1>2. plans \in Seq(PlanRecords) /\ DOMAIN updates = {} /\ phase = "idle" /\ kills = 0 /\ before = Texts
    BY DEF MovesInit
  <1> QED BY <1>1, <1>2 DEF MovesInv, MoveTypes, TextsKept, RepairKept, ReferencesFollow

LEMMA PlanStep == ASSUME MovesInv, PlanMoves PROVE MovesInv'
  <1>1. /\ phase = "idle" /\ DOMAIN updates = {} /\ UNCHANGED <<tree, moves, shipped, kept, kills, before>>
        /\ Texts' = Texts
    BY DEF MovesInv, MoveTypes, PlanMoves, Texts
  <1>2. TextsKept' /\ RepairKept'
    <2>1. ~Pending
      BY <1>1 DEF Pending
    <2> QED BY <2>1, <1>1 DEF MovesInv, TextsKept, RepairKept
  <1>3. CASE Judgement.refused \/ Conflicts(Judgement.plans)
    <2>1. phase' = "refused" /\ UNCHANGED <<plans, updates, told>>
      BY <1>3 DEF PlanMoves
    <2> QED BY <2>1, <1>1, <1>2 DEF MovesInv, MoveTypes, ReferencesFollow
  <1>4. CASE ~(Judgement.refused \/ Conflicts(Judgement.plans))
    <2>1. PICK list : list = Judgement.plans
      OBVIOUS
    <2>2. phase' = "moving" /\ plans' = list /\ told' = {} /\ updates' = Updates(list)
      BY <1>4, <2>1 DEF PlanMoves
    <2>3. SoundList(list) /\ ~Conflicts(list)
      BY <1>4, <2>1, JudgedSound DEF MovesInv, MoveTypes
    <2>4. PICK new : new = Updates(list)
      OBVIOUS
    <2>5. PICK Old : Old = {p.from : p \in {q \in Range(list) : q.workflow}}
      OBVIOUS
    <2>6. /\ DOMAIN new \subseteq Paths
          /\ \A path \in DOMAIN new :
               /\ new[path] \in Files /\ IsFile(new[path]) /\ new[path].calls \cap Old = {}
               /\ IsFile(tree[path]) => Turns(tree[path].text, new[path].text)
          /\ \A p \in Range(list) :
               /\ ~p.workflow /\ Exists(tree[p.to]) => tree[p.to] = tree[p.from]
               /\ p.workflow => p.to \in DOMAIN new
               /\ p.to \in DOMAIN new => Turns(tree[p.from].text, new[p.to].text)
          /\ \A path \in Workflows \ DOMAIN new :
               IsFile(tree[path]) /\ Within(path)
                 => \/ path \in {p.from : p \in Range(list)}
                    \/ tree[path].calls \cap Old = {}
      BY <2>3, <2>4, <2>5, UpdatesAgree DEF MovesInv, MoveTypes
    <2>7. OldNames' = Old /\ Sources' = {p.from : p \in Range(list)}
      BY <2>2, <2>5 DEF OldNames, Sources
    <2>8. MoveTypes'
      BY <2>2, <2>3, <2>4, <2>6, <1>1 DEF MovesInv, MoveTypes, SoundList
    <2>9. ASSUME NEW p \in Range(list) PROVE Fit(p)' /\ Meets(p)'
      <3>1. Fit(p)
        BY <2>3, SoundOnes DEF Sound
      <3> QED BY <3>1, <2>2, <2>4, <2>6, <1>1 DEF Fit, Meets
    <2>10. \A path \in DOMAIN new : Writes(path)'
      BY <2>2, <2>4, <2>6, <1>1 DEF Writes
    <2>11. NamesFollowed'
      BY <2>2, <2>4, <2>6, <2>7, <1>1 DEF NamesFollowed, Within
    <2>12. Moving'
      BY <2>2, <2>3, <2>4, <2>9, <2>10, <2>11 DEF Moving, SoundList
    <2> QED BY <2>2, <2>8, <2>12, <1>2 DEF MovesInv, ReferencesFollow
  <1> QED BY <1>3, <1>4

(* A step that takes a text away leaves another job's for a job's. *)
LEMMA TextsStay ==
  ASSUME TextsKept, before' = before,
         \A text \in Texts : text \in Texts' \/ (text \in Jobs /\ Texts' \cap Jobs # {})
  PROVE  TextsKept'
  BY DEF TextsKept

(* The plans that are left when the first is carried out. *)
LEMMA PlansLeft ==
  ASSUME NEW list \in Seq(PlanRecords), list # <<>>, AllApart(list)
  PROVE  /\ Head(list) \in Range(list) /\ Head(list) \in PlanRecords
         /\ Tail(list) \in Seq(PlanRecords) /\ AllApart(Tail(list))
         /\ Range(list) = Range(Tail(list)) \cup {Head(list)}
         /\ \A q \in Range(Tail(list)) : Apart(Head(list), q)
  <1> DEFINE rest == Tail(list)
  <1>1. /\ rest \in Seq(PlanRecords) /\ Len(rest) = Len(list) - 1 /\ Len(list) \in Nat \ {0}
        /\ \A i \in 1 .. Len(rest) : rest[i] = list[i + 1] /\ i + 1 \in 1 .. Len(list)
        /\ Head(list) = list[1] /\ 1 \in 1 .. Len(list)
    BY HeadTailProperties, EmptySeq, LenProperties
  <1> HIDE DEF rest
  <1>2. AllApart(rest)
    <2> SUFFICES ASSUME NEW i \in 1 .. Len(rest), NEW j \in 1 .. Len(rest), i # j
                 PROVE  Apart(rest[i], rest[j])
      BY DEF AllApart
    <2>1. i + 1 # j + 1
      OBVIOUS
    <2> QED BY <2>1, <1>1 DEF AllApart
  <1>3. \A q \in Range(rest) : Apart(Head(list), q) /\ q \in Range(list)
    <2> SUFFICES ASSUME NEW q \in Range(rest) PROVE Apart(Head(list), q) /\ q \in Range(list)
      OBVIOUS
    <2>1. PICK i \in 1 .. Len(rest) : q = rest[i]
      BY <1>1 DEF Range
    <2>2. i + 1 # 1 /\ i + 1 \in 1 .. Len(list) /\ q = list[i + 1]
      BY <2>1, <1>1
    <2>3. Apart(list[1], list[i + 1])
      BY <2>2, <1>1 DEF AllApart
    <2>4. list[i + 1] \in Range(list)
      BY <2>2 DEF Range
    <2> QED BY <2>2, <2>3, <2>4, <1>1
  <1>4. ASSUME NEW q \in Range(list) PROVE q = Head(list) \/ q \in Range(rest)
    <2>1. PICK i \in 1 .. Len(list) : q = list[i]
      BY DEF Range
    <2>2. CASE i = 1
      BY <2>1, <2>2, <1>1
    <2>3. CASE i # 1
      <3>1. i - 1 \in 1 .. Len(rest) /\ (i - 1) + 1 = i
        BY <2>3, <1>1
      <3>2. q = rest[i - 1]
        BY <3>1, <2>1, <1>1
      <3> QED BY <3>1, <3>2, <1>1 DEF Range
    <2> QED BY <2>2, <2>3
  <1>5. Head(list) \in Range(list) /\ Head(list) \in PlanRecords
    BY <1>1 DEF Range
  <1> QED BY <1>1, <1>2, <1>3, <1>4, <1>5 DEF rest

LEMMA MoveOneStep == ASSUME MovesInv, MoveOne PROVE MovesInv'
  <1> DEFINE p == Head(plans)
             rest == Tail(plans)
  <1>1. /\ phase = "moving" /\ plans # <<>> /\ plans' = rest
        /\ UNCHANGED <<moves, shipped, kept, updates, phase, kills, before>>
        /\ told' = IF p.workflow THEN told \cup {p.from} ELSE told
        /\ tree' = IF Exists(tree[p.to]) THEN [tree EXCEPT ![p.from] = Absent]
                   ELSE [tree EXCEPT ![p.from] = Absent, ![p.to] = tree[p.from]]
    BY DEF MoveOne
  <1>2. Moving /\ MoveTypes
    BY <1>1 DEF MovesInv
  <1>3. /\ p \in Range(plans) /\ p \in PlanRecords /\ rest \in Seq(PlanRecords) /\ AllApart(rest)
        /\ Range(plans) = Range(rest) \cup {p} /\ \A q \in Range(rest) : Apart(p, q)
    BY <1>1, <1>2, PlansLeft DEF Moving, MoveTypes
  <1> HIDE DEF p, rest
  <1>4. /\ p.from \in Paths /\ p.to \in Paths /\ p.from # p.to /\ Fit(p) /\ Meets(p)
        /\ tree[p.from] \in Files /\ IsFile(tree[p.from])
    BY <1>2, <1>3 DEF PlanRecords, Moving, MoveTypes, Fit
  <1>5. Absent \in Files /\ ~IsFile(Absent)
    BY PathsAssumption DEF Absent, Files, Kinds, IsFile
  <1>6. /\ tree' \in [Paths -> Files] /\ tree'[p.from] = Absent
        /\ tree'[p.to] = IF Exists(tree[p.to]) THEN tree[p.to] ELSE tree[p.from]
        /\ \A path \in Paths \ {p.from, p.to} : tree'[path] = tree[path]
    BY <1>1, <1>2, <1>4, <1>5 DEF MoveTypes
  (* Where the destination is there already, the source goes. *)
  <1>7. ASSUME Exists(tree[p.to])
        PROVE  LET text == tree[p.from].text
               IN  /\ IsFile(tree[p.to])
                   /\ \/ tree[p.to].text = text
                      \/ text \in Jobs /\ tree[p.to].text \in Jobs /\ Pending
    <2>1. IsFile(tree[p.to])
      BY <1>4, <1>7 DEF Fit
    <2>2. CASE ~p.workflow
      BY <2>1, <2>2, <1>4, <1>7 DEF Meets
    <2>3. CASE p.workflow
      <3>1. /\ p.to \in DOMAIN updates
            /\ Turns(tree[p.from].text, updates[p.to].text)
            /\ Turns(tree[p.to].text, updates[p.to].text)
        BY <2>1, <2>3, <1>2, <1>4 DEF Meets, Moving, Writes
      <3> QED BY <2>1, <3>1 DEF Turns, Jobs, Pending
    <2>4. p.workflow \in BOOLEAN
      BY <1>3 DEF PlanRecords
    <2> QED BY <2>2, <2>3, <2>4
  <1>8. ASSUME NEW text \in Texts
        PROVE  text \in Texts' \/ (text \in Jobs /\ Texts' \cap Jobs # {} /\ Pending)
    <2>1. PICK path \in Paths : IsFile(tree[path]) /\ tree[path].text = text
      BY DEF Texts
    <2>2. ASSUME NEW place \in Paths, IsFile(tree'[place]) PROVE tree'[place].text \in Texts'
      BY <2>2 DEF Texts
    <2>3. CASE path \notin {p.from, p.to}
      BY <2>1, <2>2, <2>3, <1>6
    <2>4. CASE ~Exists(tree[p.to])
      <3>1. path # p.to /\ IsFile(tree'[p.to]) /\ tree'[p.to] = tree[p.from]
        BY <2>1, <2>4, <1>4, <1>6 DEF IsFile, Exists
      <3> QED BY <3>1, <2>1, <2>2, <2>3, <1>4
    <2>5. CASE Exists(tree[p.to])
      <3>1. tree'[p.to] = tree[p.to] /\ IsFile(tree'[p.to]) /\ tree[p.to].text \in Texts'
        BY <2>5, <2>2, <1>4, <1>6, <1>7
      <3>2. CASE path = p.to
        BY <3>1, <3>2, <2>1
      <3>3. CASE path = p.from
        BY <3>1, <3>3, <2>1, <2>5, <1>7
      <3> QED BY <3>2, <3>3, <2>3
    <2> QED BY <2>4, <2>5
  <1>9. Pending' = Pending /\ before' = before /\ kills' = kills
    BY <1>1 DEF Pending
  <1>10. TextsKept' /\ RepairKept'
    <2>1. TextsKept'
      <3>1. TextsKept
        BY DEF MovesInv
      <3> QED BY <3>1, <1>8, <1>9, TextsStay
    <2>2. RepairKept'
      BY <1>8, <1>9 DEF MovesInv, RepairKept
    <2> QED BY <2>1, <2>2
  <1>11. MoveTypes'
    BY <1>1, <1>2, <1>3, <1>6 DEF MoveTypes
  <1>12. OldNames' = OldNames /\ Sources' \cup {p.from} = Sources
    <2>1. Range(plans') = Range(rest)
      BY <1>1
    <2>2. CASE p.workflow
      BY <2>1, <2>2, <1>1, <1>3 DEF OldNames, Sources
    <2>3. CASE ~p.workflow
      BY <2>1, <2>3, <1>1, <1>3 DEF OldNames, Sources
    <2> QED BY <2>2, <2>3
  <1>13. ASSUME NEW q \in Range(rest) PROVE Fit(q)' /\ Meets(q)'
    <2>1. /\ Apart(p, q) /\ q \in Range(plans) /\ Fit(q) /\ Meets(q)
          /\ q.from \in Paths /\ q.to \in Paths /\ q.workflow \in BOOLEAN
      <3>1. Apart(p, q) /\ q \in Range(plans)
        BY <1>3
      <3>2. Fit(q) /\ Meets(q)
        BY <3>1, <1>2 DEF Moving
      <3>3. q \in PlanRecords
        BY <1>3 DEF Range
      <3> QED BY <3>1, <3>2, <3>3 DEF PlanRecords
    <2>2. tree'[q.from] = tree[q.from]
      BY <2>1, <1>6 DEF Apart
    <2>3. CASE q.to # p.to
      <3>1. tree'[q.to] = tree[q.to]
        BY <2>1, <2>3, <1>6 DEF Apart
      <3> QED BY <3>1, <2>1, <2>2, <1>1 DEF Fit, Meets
    <2>4. CASE q.to = p.to
      <3>1. q.workflow /\ IsFile(tree'[q.to])
        BY <2>1, <2>4, <1>4, <1>6, <1>7 DEF Apart
      <3> QED BY <3>1, <2>1, <2>2, <1>1 DEF Fit, Meets
    <2> QED BY <2>3, <2>4
  <1>14. ASSUME NEW path \in DOMAIN updates PROVE Writes(path)'
    <2>1. path \in Paths /\ Writes(path)
      BY <1>2 DEF Moving, MoveTypes
    <2>2. CASE path \notin {p.from, p.to}
      BY <2>1, <2>2, <1>1, <1>6 DEF Writes
    <2>3. CASE path = p.from
      <3>1. ~IsFile(tree'[path])
        BY <2>3, <1>5, <1>6
      <3> QED BY <3>1 DEF Writes
    <2>4. CASE path = p.to /\ Exists(tree[p.to])
      BY <2>1, <2>4, <1>1, <1>6 DEF Writes
    <2>5. CASE path = p.to /\ ~Exists(tree[p.to])
      BY <2>5, <1>1, <1>4, <1>6 DEF Writes, Meets
    <2> QED BY <2>2, <2>3, <2>4, <2>5
  <1>15. NamesFollowed'
    <2>1. \A path \in DOMAIN updates' : updates'[path].calls \cap OldNames' = {}
      BY <1>1, <1>2, <1>12 DEF Moving, NamesFollowed
    <2>2. ASSUME NEW path \in Workflows \ DOMAIN updates, IsFile(tree'[path]), Within(path)
          PROVE  path \in Sources' \/ tree'[path].calls \cap OldNames = {}
      <3>1. path \in Paths /\ path # p.from
        <4>1. path # p.from
          BY <2>2, <1>5, <1>6
        <4> QED BY <4>1, <2>2, PathsAssumption
      <3>2. CASE path # p.to \/ Exists(tree[p.to])
        <4>1. tree'[path] = tree[path]
          BY <3>1, <3>2, <1>6
        <4>2. path \in Sources \/ tree[path].calls \cap OldNames = {}
          BY <4>1, <2>2, <1>2 DEF Moving, NamesFollowed
        <4> QED BY <4>1, <4>2, <3>1, <1>12
      <3>3. CASE path = p.to /\ ~Exists(tree[p.to])
        <4>1. PICK m \in Range(moves) : m.from = p.from /\ m.to = p.to
          BY <1>4 DEF Fit
        <4>2. p.from \in Workflows
          BY <4>1, <3>3, <2>2 DEF Within
        <4>3. p.workflow
          BY <4>2, <3>3, <2>2, <1>4 DEF Fit
        <4> QED BY <4>3, <3>3, <2>2, <1>4 DEF Meets
      <3> QED BY <3>2, <3>3
    <2> QED BY <2>1, <2>2, <1>1, <1>12 DEF NamesFollowed, Within
  <1>16. Moving'
    BY <1>1, <1>3, <1>13, <1>14, <1>15 DEF Moving
  <1> QED BY <1>1, <1>10, <1>11, <1>16 DEF MovesInv, ReferencesFollow

LEMMA UpdateOneStep == ASSUME MovesInv, UpdateOne PROVE MovesInv'
  <1>1. /\ phase = "moving" /\ plans = <<>>
        /\ UNCHANGED <<moves, shipped, kept, plans, told, phase, kills, before>>
    BY DEF UpdateOne
  <1>2. PICK path \in DOMAIN updates :
          /\ tree' = [tree EXCEPT ![path] = updates[path]]
          /\ updates' = [q \in DOMAIN updates \ {path} |-> updates[q]]
    BY DEF UpdateOne
  <1>3. Moving /\ MoveTypes /\ Range(plans) = {}
    BY <1>1 DEF MovesInv, Range
  <1>4. path \in Paths /\ updates[path] \in Files /\ IsFile(updates[path])
    BY <1>3 DEF MoveTypes
  <1>5. /\ tree' \in [Paths -> Files] /\ tree'[path] = updates[path]
        /\ \A q \in Paths \ {path} : tree'[q] = tree[q]
        /\ DOMAIN updates' = DOMAIN updates \ {path}
        /\ \A q \in DOMAIN updates' : updates'[q] = updates[q]
    BY <1>2, <1>3, <1>4 DEF MoveTypes
  <1>6. \A place \in Paths : IsFile(tree'[place]) => tree'[place].text \in Texts'
    BY DEF Texts
  <1>7. updates[path].text \in Texts'
    BY <1>4, <1>5, <1>6
  <1>8. ASSUME NEW text \in Texts
        PROVE  text \in Texts' \/ (text = "retired" /\ "repair" \in Texts')
    <2>1. PICK q \in Paths : IsFile(tree[q]) /\ tree[q].text = text
      BY DEF Texts
    <2>2. CASE q # path
      BY <2>1, <2>2, <1>5, <1>6
    <2>3. CASE q = path
      <3>1. Turns(text, updates[path].text)
        BY <2>1, <2>3, <1>3 DEF Moving, Writes
      <3> QED BY <3>1, <1>7 DEF Turns
    <2> QED BY <2>2, <2>3
  <1>9. TextsKept'
    <2>1. TextsKept /\ before' = before
      BY <1>1 DEF MovesInv
    <2>2. \A text \in Texts : text \in Texts' \/ (text \in Jobs /\ Texts' \cap Jobs # {})
      BY <1>8 DEF Jobs
    <2> QED BY <2>1, <2>2, TextsStay
  <1>10. RepairKept'
    <2>1. SUFFICES ASSUME kills = 0, "repair" \in before PROVE "repair" \in Texts' \/ Pending'
      BY <1>1 DEF RepairKept
    <2>2. CASE "repair" \in Texts
      BY <2>2, <1>8
    <2>3. CASE Pending
      BY <2>3, <1>5, <1>7 DEF Pending
    <2> QED BY <2>1, <2>2, <2>3 DEF MovesInv, RepairKept
  <1>11. MoveTypes'
    BY <1>1, <1>3, <1>5 DEF MoveTypes
  <1>12. OldNames' = OldNames /\ Sources' = {} /\ Sources = {}
    BY <1>1, <1>3 DEF OldNames, Sources
  <1>13. \A q \in DOMAIN updates' : Writes(q)'
    BY <1>3, <1>5 DEF Moving, MoveTypes, Writes
  <1>14. NamesFollowed'
    <2>1. \A q \in DOMAIN updates' : updates'[q].calls \cap OldNames' = {}
      BY <1>3, <1>5, <1>12 DEF Moving, NamesFollowed
    <2>2. ASSUME NEW q \in Workflows \ DOMAIN updates', IsFile(tree'[q]), Within(q)
          PROVE  tree'[q].calls \cap OldNames = {}
      <3>1. CASE q = path
        BY <3>1, <1>3, <1>5 DEF Moving, NamesFollowed
      <3>2. CASE q # path
        <4>1. q \in Workflows \ DOMAIN updates /\ tree'[q] = tree[q]
          BY <3>2, <2>2, <1>5, PathsAssumption
        <4> QED BY <4>1, <2>2, <1>3, <1>12 DEF Moving, NamesFollowed
      <3> QED BY <3>1, <3>2
    <2> QED BY <2>1, <2>2, <1>1, <1>12 DEF NamesFollowed, Within
  <1>15. Moving'
    <2>1. plans' = <<>> /\ Range(plans') = {}
      BY <1>1, <1>3
    <2> QED BY <2>1, <1>13, <1>14 DEF Moving, AllApart
  <1> QED BY <1>1, <1>9, <1>10, <1>11, <1>15 DEF MovesInv, ReferencesFollow

LEMMA DoneStep == ASSUME MovesInv, MovesDone PROVE MovesInv'
  <1>1. /\ phase = "moving" /\ plans = <<>> /\ DOMAIN updates = {} /\ phase' = "moved"
        /\ UNCHANGED <<tree, moves, shipped, kept, plans, updates, told, kills, before>>
    BY DEF MovesDone
  <1>2. Moving /\ MoveTypes /\ Range(plans) = {}
    BY <1>1 DEF MovesInv, Range
  <1>3. ReferencesFollow'
    <2>1. Sources = {} /\ told \subseteq OldNames
      BY <1>2 DEF Sources, OldNames
    <2> QED BY <2>1, <1>1, <1>2 DEF ReferencesFollow, Moving, NamesFollowed, Within
  <1> QED BY <1>1, <1>2, <1>3
          DEF MovesInv, MoveTypes, TextsKept, RepairKept, Texts, Pending

LEMMA KillStep == ASSUME MovesInv, KillMoves PROVE MovesInv'
  <1>1. /\ kills' = kills + 1 /\ phase' = "idle" /\ plans' = <<>> /\ updates' = <<>>
        /\ UNCHANGED <<tree, moves, shipped, kept, before>> /\ Texts' = Texts
    BY DEF KillMoves, Texts
  <1>2. kills \in Nat /\ kills' # 0 /\ DOMAIN updates' = {}
    BY <1>1 DEF MovesInv, MoveTypes
  <1>3. MoveTypes'
    BY <1>1, <1>2 DEF MovesInv, MoveTypes
  <1> QED BY <1>1, <1>2, <1>3 DEF MovesInv, TextsKept, RepairKept, ReferencesFollow

LEMMA MovesInvariant == MovesSpec => []MovesInv
  <1>1. MovesInv /\ [MovesNext]_moveVars => MovesInv'
    <2> SUFFICES ASSUME MovesInv, [MovesNext]_moveVars PROVE MovesInv'
      OBVIOUS
    <2>1. CASE UNCHANGED moveVars
      BY <2>1 DEF moveVars, MovesInv, MoveTypes, TextsKept, RepairKept, ReferencesFollow, Texts, Pending,
                  Moving, AllApart, Fit, Meets, Writes, NamesFollowed, OldNames, Sources, Within
    <2> QED BY <2>1, PlanStep, MoveOneStep, UpdateOneStep, DoneStep, KillStep DEF MovesNext
  <1> QED BY <1>1, MovesStart, PTL DEF MovesSpec

(* What the manifest's moves and the directory mirrors do to the files of a   *)
(* member loses no text and no reference, through lists that chain, collide   *)
(* and meet in one destination, through failing renames, the roll-back, edits *)
(* and kills, for any checkout, any lists and any number of files.            *)
THEOREM PlacementAlwaysKeeps == MovesSpec /\ MirrorSpec => []PlacementKeepsFiles
  <1>1. MovesInv => MovesLoseNothing /\ ReferencesFollow
    BY DEF MovesInv, MoveTypes, TextsKept, RepairKept, Pending, MovesLoseNothing
  <1> QED BY <1>1, MovesInvariant, MirrorLosesNothing, PTL DEF PlacementKeepsFiles

-----------------------------------------------------------------------------
(***************************************************************************)
(* The merges of the structured files keep what a member wrote in them,    *)
(* for any packs and files of members, in any order and cut short          *)
(* anywhere.  A merge works on the file it migrated and holds in memory,   *)
(* so what is said of the file on disk is said of that one too: whichever  *)
(* is there when a merge dies lists the member's entries.                  *)
(***************************************************************************)

BlockSet == [entries : SUBSET Entries, flat : BOOLEAN]

FileShape(file) ==
  /\ \A key \in DOMAIN file :
       /\ file[key] \in Seq(BlockSet) \ {<<>>}
       /\ key \in RetiredFlags => \A block \in Range(file[key]) : ~Mergeable(block)
  /\ ~Repeated(file, Patches)

Lists(file, key, id) == \E block \in Range(Under(file, key)) : Mergeable(block) /\ id \in Ids(block)

(* No block lists a patch of one of these packages. *)
NoPatchOf(file, packages) ==
  \A block \in Range(Under(file, Patches)) :
    ~block.flat => \A e \in block.entries : Package[e.id] \notin packages

GivesWay(key, id) ==
  \/ key = Exempt /\ id \in config
  \/ ReplacedWhole(key)
  \/ key = Patches /\ Package[id] \in FleetPatched \cup dropped

OwnSurvives(file) == \A entry \in own : Lists(file, entry[1], entry[2]) \/ GivesWay(entry[1], entry[2])

FileInv(file) == FileShape(file) /\ OwnSurvives(file) /\ (fresh => NoPatchOf(file, Inactive))
PrepareKept == /\ prepareAtFirst \in Prepares
               /\ prepareScript \in {prepareAtFirst, <<"prepare">> \o prepareAtFirst}
HooksKept ==
  /\ RepoHooks(settingsAtFirst) \subseteq settings.hooks
  /\ settingsAtFirst.keys \ {"legacy env"} \subseteq settings.keys
  /\ WiredEvents(settingsAtFirst) \cap {h.event : h \in {x \in FleetSettings.hooks : x.command = "dispatch"}}
       \subseteq WiredEvents(settings)

MergeInv ==
  /\ FileInv(yaml) /\ (mergeStep # "idle" => FileInv(carried))
  /\ \A entry \in own : entry[1] \notin RetiredFlags
  /\ PrepareKept /\ HooksKept

LEMMA SequenceFacts ==
  ASSUME NEW S, NEW s \in Seq(S)
  PROVE  /\ Len(s) \in Nat /\ DOMAIN s = 1 .. Len(s) /\ (s # <<>> => 1 \in DOMAIN s /\ Len(s) \in DOMAIN s)
         /\ \A i \in DOMAIN s : s[i] \in S /\ s[i] \in Range(s)
         /\ \A x \in Range(s) : x \in S /\ \E i \in DOMAIN s : s[i] = x
  BY LenProperties, EmptySeq DEF Range

(* The first block of the patches is the only one. *)
LEMMA OnlyPatches ==
  ASSUME NEW file, FileShape(file), Patches \in DOMAIN file
  PROVE  /\ file[Patches] \in Seq(BlockSet) /\ Len(file[Patches]) = 1 /\ DOMAIN file[Patches] = {1}
         /\ file[Patches][1] \in BlockSet /\ Range(file[Patches]) = {file[Patches][1]}
         /\ Tail(file[Patches]) = <<>>
  <1>1. /\ file[Patches] \in Seq(BlockSet) /\ file[Patches] # <<>>
        /\ \A i, j \in DOMAIN file[Patches] : i = j
    BY DEF FileShape, Repeated, Under
  <1> DEFINE s == file[Patches]
  <1>2. Len(s) \in Nat /\ DOMAIN s = 1 .. Len(s) /\ 1 \in DOMAIN s /\ Len(s) \in DOMAIN s
    BY <1>1, SequenceFacts
  <1>3. Len(s) = 1 /\ DOMAIN s = {1}
    BY <1>1, <1>2
  <1>4. s[1] \in BlockSet /\ Range(s) = {s[1]}
    BY <1>1, <1>3, SequenceFacts DEF Range
  <1>5. Tail(s) \in Seq(BlockSet) /\ Len(Tail(s)) = 0
    BY <1>1, <1>3, HeadTailProperties
  <1> QED BY <1>1, <1>3, <1>4, <1>5, EmptySeq

LEMMA FilterPatchesKeeps ==
  ASSUME NEW file, FileShape(file), NEW packages
  PROVE  LET later == FilterPatches(file, packages)
         IN  /\ FileShape(later)
             /\ \A key : key # Patches => Under(later, key) = Under(file, key)
             /\ NoPatchOf(later, packages)
             /\ \A id : Lists(file, Patches, id) => Lists(later, Patches, id) \/ Package[id] \in packages
             /\ \A block \in Range(Under(later, Patches)) :
                  Mergeable(block) \/ block \in Range(Under(file, Patches))
  <1> DEFINE later == FilterPatches(file, packages)
             staying == {e \in file[Patches][1].entries : Package[e.id] \notin packages}
             rest == IF staying = {} THEN Tail(file[Patches])
                     ELSE [file[Patches] EXCEPT ![1] = Block(staying, FALSE)]
  <1>1. later = IF ~Patching(file) THEN file
                ELSE IF rest = <<>> THEN Without(file, {Patches})
                ELSE [file EXCEPT ![Patches] = rest]
    BY DEF FilterPatches
  <1>2. CASE ~Patching(file)
    <2>1. later = file
      BY <1>1, <1>2
    <2>2. NoPatchOf(file, packages)
      <3>1. CASE Patches \notin DOMAIN file
        BY <3>1 DEF NoPatchOf, Under, Range
      <3>2. CASE Patches \in DOMAIN file
        <4>1. ~Mergeable(file[Patches][1]) /\ Range(Under(file, Patches)) = {file[Patches][1]}
              /\ file[Patches][1] \in BlockSet
          BY <3>2, <1>2, OnlyPatches DEF Patching, Under
        <4> QED BY <4>1 DEF NoPatchOf, Mergeable, BlockSet
      <3> QED BY <3>1, <3>2
    <2> QED BY <2>1, <2>2, <1>2
  <1>3. CASE Patching(file) /\ staying = {}
    <2>1. Patches \in DOMAIN file
      BY <1>3 DEF Patching
    <2>2. later = Without(file, {Patches})
      BY <1>1, <1>3, <2>1, OnlyPatches
    <2> HIDE DEF later
    <2>3. DOMAIN later = DOMAIN file \ {Patches} /\ \A key \in DOMAIN later : later[key] = file[key]
      BY <2>2 DEF Without
    <2>4. Under(later, Patches) = <<>> /\ Range(Under(later, Patches)) = {}
      BY <2>3 DEF Under, Range
    <2>5. FileShape(later)
      <3>1. ~Repeated(later, Patches)
        BY <2>4 DEF Repeated
      <3> QED BY <3>1, <2>3 DEF FileShape
    <2>6. ASSUME NEW id, Lists(file, Patches, id) PROVE Package[id] \in packages
      <3>1. id \in Ids(file[Patches][1])
        BY <2>6, <2>1, OnlyPatches DEF Lists, Under
      <3> QED BY <3>1, <1>3 DEF Ids
    <2>7. \A key : key # Patches => Under(later, key) = Under(file, key)
      BY <2>3 DEF Under
    <2>8. NoPatchOf(later, packages)
      BY <2>4 DEF NoPatchOf
    <2> QED BY <2>4, <2>5, <2>6, <2>7, <2>8 DEF later
  <1>4. CASE Patching(file) /\ staying # {}
    <2>1. Patches \in DOMAIN file /\ Mergeable(file[Patches][1])
      BY <1>4 DEF Patching
    <2>2. file[Patches] \in Seq(BlockSet) /\ Len(file[Patches]) = 1 /\ DOMAIN file[Patches] = {1}
          /\ file[Patches][1] \in BlockSet /\ Range(file[Patches]) = {file[Patches][1]}
      BY <2>1, OnlyPatches
    <2>3. staying \in SUBSET Entries
      BY <2>2 DEF BlockSet
    <2> DEFINE block == Block(staying, FALSE)
    <2>4. block \in BlockSet /\ Mergeable(block) /\ block.entries = staying /\ ~block.flat
      BY <2>3, <1>4 DEF Block, BlockSet, Mergeable
    <2> HIDE DEF block, staying
    <2>5. rest = [file[Patches] EXCEPT ![1] = block]
      BY <1>4 DEF block
    <2> HIDE DEF rest
    <2>6. rest \in Seq(BlockSet) /\ DOMAIN rest = {1} /\ rest[1] = block /\ rest # <<>> /\ Range(rest) = {block}
      <3>1. rest \in Seq(BlockSet) /\ Len(rest) = 1
        BY <2>5, <2>2, <2>4, ExceptSeq
      <3>2. rest[1] = block /\ DOMAIN rest = {1}
        BY <2>5, <2>2
      <3> QED BY <3>1, <3>2, EmptySeq DEF Range
    <2>7. later = [file EXCEPT ![Patches] = rest]
      BY <1>1, <1>4, <2>6
    <2> HIDE DEF later
    <2>8. /\ DOMAIN later = DOMAIN file /\ later[Patches] = rest
          /\ \A key \in DOMAIN file \ {Patches} : later[key] = file[key]
      BY <2>7, <2>1
    <2>9. Under(later, Patches) = rest /\ Under(file, Patches) = file[Patches]
      BY <2>8, <2>1 DEF Under
    <2>10. FileShape(later)
      <3>1. ~Repeated(later, Patches)
        BY <2>9, <2>6 DEF Repeated
      <3>2. Patches \notin RetiredFlags
        BY DEF Patches, RetiredFlags
      <3> QED BY <3>1, <3>2, <2>6, <2>8 DEF FileShape
    <2>11. NoPatchOf(later, packages)
      BY <2>9, <2>6, <2>4 DEF NoPatchOf, staying
    <2>12. ASSUME NEW id, Lists(file, Patches, id)
           PROVE  Lists(later, Patches, id) \/ Package[id] \in packages
      <3>1. PICK e \in file[Patches][1].entries : id = e.id
        BY <2>12, <2>9, <2>2 DEF Lists, Ids
      <3>2. CASE e \in staying
        BY <3>1, <3>2, <2>4, <2>6, <2>9 DEF Lists, Ids
      <3> QED BY <3>1, <3>2 DEF staying
    <2>13. \A key : key # Patches => Under(later, key) = Under(file, key)
      BY <2>8 DEF Under
    <2> QED BY <2>10, <2>11, <2>12, <2>13, <2>9, <2>6, <2>4 DEF later
  <1> QED BY <1>2, <1>3, <1>4

LEMMA MergedBlockKeeps ==
  ASSUME NEW brought \in BlockSet, NEW consumer \in BlockSet
  PROVE  LET merged == MergedBlock(brought, consumer)
         IN  /\ merged \in BlockSet /\ (Mergeable(merged) => Mergeable(brought))
             /\ Mergeable(brought) => Mergeable(merged)
             /\ Mergeable(brought) /\ Mergeable(consumer) => Ids(consumer) \subseteq Ids(merged)
             /\ \/ merged = brought
                \/ Mergeable(consumer) /\ merged.entries \subseteq brought.entries \cup consumer.entries
  <1>1. CASE ~Mergeable(brought) \/ ~Mergeable(consumer)
    BY <1>1 DEF MergedBlock
  <1>2. CASE Mergeable(brought) /\ Mergeable(consumer)
    <2> DEFINE all == brought.entries \cup {e \in consumer.entries : e.id \notin Ids(brought)}
    <2>1. MergedBlock(brought, consumer) = [entries |-> all, flat |-> FALSE]
      BY <1>2 DEF MergedBlock, Block
    <2>2. all \in SUBSET Entries /\ all # {} /\ all \subseteq brought.entries \cup consumer.entries
      BY <1>2 DEF Mergeable, BlockSet
    <2>3. Ids(consumer) \subseteq {e.id : e \in all}
      BY DEF Ids
    <2> HIDE DEF all
    <2> DEFINE merged == MergedBlock(brought, consumer)
    <2>4. merged.entries = all /\ merged.flat = FALSE
      BY <2>1
    <2>5. merged \in BlockSet
      BY <2>1, <2>2 DEF BlockSet
    <2> HIDE DEF merged
    <2>6. Mergeable(merged)
      BY <2>2, <2>4 DEF Mergeable
    <2>7. Ids(consumer) \subseteq Ids(merged)
      BY <2>3, <2>4 DEF Ids
    <2>8. merged.entries \subseteq brought.entries \cup consumer.entries
      BY <2>2, <2>4
    <2> QED BY <2>5, <2>6, <2>7, <2>8, <1>2 DEF merged
  <1> QED BY <1>1, <1>2

LEMMA MergedYamlKeeps ==
  ASSUME NEW file, FileShape(file), NEW bundle, FileShape(bundle), NEW packages,
         NoPatchOf(file, packages), NoPatchOf(bundle, packages)
  PROVE  LET later == MergedYaml(file, bundle)
         IN  /\ FileShape(later) /\ NoPatchOf(later, packages)
             /\ \A key, id : Lists(file, key, id) =>
                  \/ Lists(later, key, id)
                  \/ key \in FleetKeys /\ \E block \in Range(Under(bundle, key)) : ~Mergeable(block)
  <1> DEFINE later == MergedYaml(file, bundle)
             brought == FleetKeys \cap DOMAIN bundle
             merged(key) == [i \in DOMAIN file[key] |-> MergedBlock(Last(bundle[key]), file[key][i])]
  <1>1. /\ DOMAIN later = DOMAIN file \cup brought
        /\ \A key \in DOMAIN later :
             later[key] = IF key \notin brought THEN file[key]
                          ELSE IF key \notin DOMAIN file THEN <<Last(bundle[key])>> ELSE merged(key)
    BY DEF MergedYaml
  <1> HIDE DEF later
  <1>2. ASSUME NEW key \in brought
        PROVE  /\ bundle[key] \in Seq(BlockSet) /\ Last(bundle[key]) \in BlockSet
               /\ Last(bundle[key]) \in Range(bundle[key])
               /\ key \in RetiredFlags => ~Mergeable(Last(bundle[key]))
    <2>1. bundle[key] \in Seq(BlockSet) /\ bundle[key] # <<>>
      BY DEF FileShape
    <2>2. Last(bundle[key]) \in BlockSet /\ Last(bundle[key]) \in Range(bundle[key])
      BY <2>1, SequenceFacts DEF Last
    <2> QED BY <2>1, <2>2 DEF FileShape
  <1>3. ASSUME NEW key \in DOMAIN file
        PROVE  /\ file[key] \in Seq(BlockSet) /\ file[key] # <<>>
               /\ Len(file[key]) \in Nat /\ DOMAIN file[key] = 1 .. Len(file[key])
               /\ \A i \in DOMAIN file[key] : file[key][i] \in BlockSet /\ file[key][i] \in Range(file[key])
    <2>1. file[key] \in Seq(BlockSet) /\ file[key] # <<>>
      BY DEF FileShape
    <2> QED BY <2>1, SequenceFacts
  (* Each block that is merged stands where the member's stood. *)
  <1>4. ASSUME NEW key \in DOMAIN file \cap brought
        PROVE  /\ later[key] \in Seq(BlockSet) \ {<<>>} /\ DOMAIN later[key] = DOMAIN file[key]
               /\ \A i \in DOMAIN file[key] :
                    later[key][i] = MergedBlock(Last(bundle[key]), file[key][i])
    <2>1. later[key] = merged(key)
      BY <1>1
    <2>2. \A i \in DOMAIN file[key] : MergedBlock(Last(bundle[key]), file[key][i]) \in BlockSet
      BY <1>2, <1>3, MergedBlockKeeps
    <2>3. DOMAIN file[key] = 1 .. Len(file[key]) /\ Len(file[key]) \in Nat /\ 1 \in DOMAIN file[key]
      BY <1>3, SequenceFacts
    <2>4. merged(key) \in Seq(BlockSet) /\ DOMAIN merged(key) = DOMAIN file[key]
      <3>1. merged(key) = [i \in 1 .. Len(file[key]) |-> merged(key)[i]]
        BY <2>3
      <3>2. \A i \in 1 .. Len(file[key]) : merged(key)[i] \in BlockSet
        BY <2>2, <2>3
      <3>3. merged(key) \in [1 .. Len(file[key]) -> BlockSet]
        BY <3>1, <3>2
      <3> QED BY <3>3, <2>3, SeqDef
    <2>5. merged(key) # <<>>
      BY <2>3, <2>4
    <2> QED BY <2>1, <2>4, <2>5
  <1>5. ASSUME NEW key \in brought \ DOMAIN file
        PROVE  /\ later[key] = <<Last(bundle[key])>> /\ later[key] \in Seq(BlockSet) \ {<<>>}
               /\ DOMAIN later[key] = {1} /\ Range(later[key]) = {Last(bundle[key])}
    <2>1. later[key] = <<Last(bundle[key])>>
      BY <1>1
    <2> QED BY <2>1, <1>2 DEF Range
  <1>6. ASSUME NEW key \in DOMAIN later
        PROVE  /\ later[key] \in Seq(BlockSet) \ {<<>>}
               /\ key \in RetiredFlags => \A block \in Range(later[key]) : ~Mergeable(block)
    <2>1. CASE key \notin brought
      BY <2>1, <1>1 DEF FileShape
    <2>2. CASE key \in DOMAIN file \cap brought
      <3>1. ASSUME key \in RetiredFlags, NEW block \in Range(later[key]) PROVE ~Mergeable(block)
        <4>1. PICK i \in DOMAIN file[key] : block = later[key][i]
          BY <2>2, <1>4 DEF Range
        <4>2. block = MergedBlock(Last(bundle[key]), file[key][i])
          BY <4>1, <2>2, <1>4
        <4>3. ~Mergeable(Last(bundle[key])) /\ Last(bundle[key]) \in BlockSet /\ file[key][i] \in BlockSet
          BY <3>1, <2>2, <1>2, <1>3
        <4> QED BY <4>2, <4>3, MergedBlockKeeps
      <3> QED BY <3>1, <2>2, <1>4
    <2>3. CASE key \in brought \ DOMAIN file
      BY <2>3, <1>2, <1>5
    <2> QED BY <2>1, <2>2, <2>3, <1>1
  <1>7. ~Repeated(later, Patches)
    <2>1. CASE Patches \in DOMAIN file
      <3>1. DOMAIN later[Patches] = DOMAIN file[Patches]
        BY <2>1, <1>1, <1>4
      <3> QED BY <3>1, <2>1, <1>1, OnlyPatches DEF Repeated, Under
    <2>2. CASE Patches \in brought \ DOMAIN file
      BY <2>2, <1>1, <1>5 DEF Repeated, Under
    <2>3. CASE Patches \notin DOMAIN later
      BY <2>3 DEF Repeated, Under
    <2> QED BY <2>1, <2>2, <2>3, <1>1
  <1>8. NoPatchOf(later, packages)
    <2> SUFFICES ASSUME NEW block \in Range(Under(later, Patches)), ~block.flat, NEW e \in block.entries
                 PROVE  Package[e.id] \notin packages
      BY DEF NoPatchOf
    <2>1. Patches \in DOMAIN later /\ Under(later, Patches) = later[Patches]
      BY DEF Under, Range
    <2>2. CASE Patches \in DOMAIN file \ brought
      BY <2>1, <2>2, <1>1 DEF NoPatchOf, Under
    <2>3. CASE Patches \in brought \ DOMAIN file
      <3>1. block = Last(bundle[Patches]) /\ block \in Range(Under(bundle, Patches))
        BY <2>1, <2>3, <1>2, <1>5 DEF Under
      <3> QED BY <3>1 DEF NoPatchOf
    <2>4. CASE Patches \in DOMAIN file \cap brought
      <3>1. PICK i \in DOMAIN file[Patches] : block = later[Patches][i]
        BY <2>1, <2>4, <1>4 DEF Range
      <3> DEFINE given == Last(bundle[Patches])
                 mine == file[Patches][i]
      <3>2. /\ block = MergedBlock(given, mine) /\ given \in BlockSet /\ mine \in BlockSet
            /\ given \in Range(Under(bundle, Patches)) /\ mine \in Range(Under(file, Patches))
        BY <3>1, <2>4, <1>2, <1>3, <1>4 DEF Under
      <3> HIDE DEF given, mine
      <3>3. \/ block = given
            \/ Mergeable(mine) /\ block.entries \subseteq given.entries \cup mine.entries
        BY <3>2, MergedBlockKeeps
      <3>4. CASE block = given
        BY <3>2, <3>4 DEF NoPatchOf
      <3>5. CASE block # given
        <4>1. Mergeable(given) /\ Mergeable(mine)
          BY <3>2, <3>3, <3>5 DEF MergedBlock
        <4> QED BY <4>1, <3>2, <3>3, <3>5 DEF NoPatchOf, Mergeable
      <3> QED BY <3>4, <3>5
    <2> QED BY <2>1, <2>2, <2>3, <2>4, <1>1
  <1>9. ASSUME NEW key, NEW id, Lists(file, key, id)
        PROVE  \/ Lists(later, key, id)
               \/ key \in FleetKeys /\ \E block \in Range(Under(bundle, key)) : ~Mergeable(block)
    <2>1. PICK mine \in Range(Under(file, key)) : Mergeable(mine) /\ id \in Ids(mine)
      BY <1>9 DEF Lists
    <2>2. key \in DOMAIN file /\ mine \in Range(file[key]) /\ key \in DOMAIN later
      BY <2>1, <1>1 DEF Under, Range
    <2>3. CASE key \notin brought
      BY <2>1, <2>2, <2>3, <1>1 DEF Lists, Under
    <2>4. CASE key \in brought
      <3>1. PICK i \in DOMAIN file[key] : mine = file[key][i]
        BY <2>2 DEF Range
      <3> DEFINE given == Last(bundle[key])
                 block == later[key][i]
      <3>2. /\ block = MergedBlock(given, mine) /\ given \in BlockSet /\ mine \in BlockSet
            /\ given \in Range(Under(bundle, key)) /\ block \in Range(Under(later, key))
        BY <3>1, <2>2, <2>4, <1>2, <1>3, <1>4 DEF Under, Range
      <3> HIDE DEF given, block
      <3>3. CASE Mergeable(given)
        <4>1. Mergeable(block) /\ id \in Ids(block)
          BY <3>2, <3>3, <2>1, MergedBlockKeeps
        <4> QED BY <4>1, <3>2 DEF Lists
      <3>4. CASE ~Mergeable(given)
        BY <3>2, <3>4, <2>4
      <3> QED BY <3>3, <3>4
    <2> QED BY <2>3, <2>4
  <1>10. FileShape(later)
    BY <1>6, <1>7 DEF FileShape
  <1> QED BY <1>8, <1>9, <1>10 DEF later

LEMMA LeastOne ==
  ASSUME NEW S \in SUBSET Nat, S # {}
  PROVE  \E i \in S : \A j \in S : i <= j
  <1>1. PICK i \in S : \A j \in S : ~ (<<j, i>> \in OpToRel(<, Nat))
    BY NatLessThanWellFounded, WFMin
  <1>2. \A j \in S : ~ (j < i)
    BY <1>1 DEF OpToRel
  <1> QED BY <1>2

LEMMA RepairedKeeps ==
  ASSUME NEW file, FileShape(file)
  PROVE  LET later == RepairedPackages(file)
         IN  /\ FileShape(later)
             /\ \A key, id : Lists(file, key, id) => Lists(later, key, id)
             /\ Under(later, Patches) = Under(file, Patches)
  <1> DEFINE later == RepairedPackages(file)
             blocks == Under(file, "packages")
             lists == {i \in DOMAIN blocks : ~blocks[i].flat}
             first == CHOOSE i \in lists : \A j \in lists : i <= j
             missing(those) == {[id |-> g, text |-> "fleet"] : g \in FleetPackages \ those}
             listed == Block(blocks[first].entries \cup missing(Ids(blocks[first])), FALSE)
             repaired == IF lists = {} THEN <<Block(missing({}), FALSE)>> \o blocks
                         ELSE [blocks EXCEPT ![first] = listed]
  <1>1. /\ DOMAIN later = DOMAIN file \cup {"packages"} /\ later["packages"] = repaired
        /\ \A key \in DOMAIN file \ {"packages"} : later[key] = file[key]
    BY DEF RepairedPackages
  <1> HIDE DEF later
  <1>2. blocks \in Seq(BlockSet) /\ Len(blocks) \in Nat /\ DOMAIN blocks = 1 .. Len(blocks)
        /\ \A i \in DOMAIN blocks : blocks[i] \in BlockSet
    <2>1. blocks \in Seq(BlockSet)
      BY DEF Under, FileShape
    <2> HIDE DEF blocks
    <2> QED BY <2>1, SequenceFacts
  <1>3. \A those : missing(those) \subseteq Entries
    BY PackagesAssumption DEF Entries
  <1> HIDE DEF blocks, missing
  <1>4. /\ repaired \in Seq(BlockSet) /\ repaired # <<>>
        /\ \A id : (\E block \in Range(blocks) : Mergeable(block) /\ id \in Ids(block))
                     => \E block \in Range(repaired) : Mergeable(block) /\ id \in Ids(block)
    <2>1. CASE lists = {}
      <3> DEFINE block == Block(missing({}), FALSE)
      <3>1. block \in BlockSet
        BY <1>3 DEF Block, BlockSet
      <3>2. repaired = <<block>> \o blocks
        BY <2>1
      <3> HIDE DEF block
      <3>3. /\ repaired \in Seq(BlockSet) /\ Len(repaired) = 1 + Len(blocks)
            /\ \A i \in 1 .. Len(repaired) : repaired[i] = IF i <= 1 THEN block ELSE blocks[i - 1]
        <4>1. <<block>> \in Seq(BlockSet) /\ Len(<<block>>) = 1
          BY <3>1
        <4> HIDE DEF repaired
        <4> QED BY <4>1, <3>2, <1>2, ConcatProperties
      <3>4. \A b \in Range(blocks) : ~Mergeable(b)
        BY <2>1 DEF Range, Mergeable
      <3> HIDE DEF repaired
      <3>5. repaired # <<>>
        BY <3>3, <1>2
      <3> QED BY <3>3, <3>4, <3>5
    <2>2. CASE lists # {}
      <3>1. first \in lists
        <4>1. lists \subseteq Nat /\ lists # {}
          BY <1>2, <2>2
        <4> HIDE DEF lists
        <4>2. \E i \in lists : \A j \in lists : i <= j
          BY <4>1, LeastOne
        <4> QED BY <4>2
      <3>2. first \in DOMAIN blocks /\ ~blocks[first].flat /\ blocks[first] \in BlockSet
        BY <3>1, <1>2
      <3> HIDE DEF first, lists
      <3>3. /\ listed \in BlockSet /\ Ids(blocks[first]) \subseteq Ids(listed)
            /\ Mergeable(blocks[first]) => Mergeable(listed)
        BY <3>2, <1>3 DEF Block, BlockSet, Ids, Mergeable
      <3> HIDE DEF listed
      <3>4. repaired = [blocks EXCEPT ![first] = listed]
        BY <2>2
      <3> HIDE DEF repaired
      <3>5. repaired \in Seq(BlockSet) /\ Len(repaired) = Len(blocks) /\ DOMAIN repaired = DOMAIN blocks
            /\ repaired[first] = listed /\ \A i \in DOMAIN blocks \ {first} : repaired[i] = blocks[i]
        BY <3>2, <3>3, <3>4, <1>2, ExceptSeq
      <3>6. ASSUME NEW id, NEW block \in Range(blocks), Mergeable(block), id \in Ids(block)
            PROVE  \E b \in Range(repaired) : Mergeable(b) /\ id \in Ids(b)
        <4>1. PICK i \in DOMAIN blocks : block = blocks[i]
          BY DEF Range
        <4>2. repaired[i] \in Range(repaired)
          BY <3>5 DEF Range
        <4>3. CASE i = first
          BY <4>1, <4>2, <4>3, <3>3, <3>5, <3>6
        <4>4. CASE i # first
          BY <4>1, <4>2, <4>4, <3>5, <3>6
        <4> QED BY <4>3, <4>4
      <3>7. repaired # <<>>
        BY <3>2, <3>5
      <3> QED BY <3>5, <3>6, <3>7
    <2> QED BY <2>1, <2>2
  <1> HIDE DEF repaired
  <1>5. Patches # "packages" /\ "packages" \notin RetiredFlags
    BY DEF Patches, RetiredFlags
  <1>6. Under(later, Patches) = Under(file, Patches)
    BY <1>1, <1>5 DEF Under
  <1>7. FileShape(later)
    <2>1. ~Repeated(later, Patches)
      BY <1>6 DEF FileShape, Repeated
    <2> QED BY <2>1, <1>1, <1>4, <1>5 DEF FileShape
  <1>8. ASSUME NEW key, NEW id, Lists(file, key, id) PROVE Lists(later, key, id)
    <2>1. CASE key = "packages"
      <3>1. Under(later, key) = repaired /\ Under(file, key) = blocks
        BY <2>1, <1>1 DEF Under, blocks
      <3> QED BY <3>1, <1>4, <1>8 DEF Lists
    <2>2. CASE key # "packages"
      BY <2>2, <1>1, <1>8 DEF Lists, Under
    <2> QED BY <2>1, <2>2
  <1> QED BY <1>6, <1>7, <1>8 DEF later

LEMMA MergeStarts == MergeInit => MergeInv
  <1> SUFFICES ASSUME MergeInit PROVE MergeInv
    OBVIOUS
  <1>1. yaml \in Workspaces /\ own = MemberEntries(yaml) /\ ~fresh /\ mergeStep = "idle"
    BY DEF MergeInit
  <1>2. FileShape(yaml)
    BY <1>1, WorkspaceAssumption DEF FileShape, BlockSet
  <1>3. ASSUME NEW entry \in own PROVE Lists(yaml, entry[1], entry[2]) /\ entry[1] \notin RetiredFlags
    <2>1. PICK key \in DOMAIN yaml :
            entry \in {<<key, e.id>> :
              e \in {x \in UNION {b.entries : b \in {c \in Range(yaml[key]) : ~c.flat}} : x.text = "own"}}
      BY <1>1 DEF MemberEntries
    <2>2. PICK block \in Range(yaml[key]) : ~block.flat /\ \E e \in block.entries : entry = <<key, e.id>>
      BY <2>1
    <2>3. PICK e \in block.entries : entry = <<key, e.id>>
      BY <2>2
    <2>4. Mergeable(block) /\ e.id \in Ids(block)
      BY <2>2, <2>3 DEF Mergeable, Ids
    <2>5. entry[1] = key /\ entry[2] = e.id
      BY <2>3
    <2>6. Lists(yaml, key, e.id)
      BY <2>2, <2>4 DEF Lists, Under
    <2>7. key \notin RetiredFlags
      BY <2>2, <2>4, <1>2 DEF FileShape
    <2> QED BY <2>5, <2>6, <2>7
  <1>4. FileInv(yaml)
    BY <1>1, <1>2, <1>3 DEF FileInv, OwnSurvives
  <1>5. PrepareKept /\ HooksKept
    <2>1. settingsAtFirst = settings /\ prepareAtFirst = prepareScript /\ prepareScript \in Prepares
      BY DEF MergeInit
    <2>2. RepoHooks(settings) \subseteq settings.hooks
      BY DEF RepoHooks
    <2>3. HooksKept
      BY <2>1, <2>2 DEF HooksKept
    <2> QED BY <2>1, <2>3 DEF PrepareKept
  <1> QED BY <1>1, <1>3, <1>4, <1>5 DEF MergeInv

(* The settings and the scripts are left alone by the merges of the workspace file. *)
LEMMA SettingsStay ==
  ASSUME PrepareKept /\ HooksKept, UNCHANGED <<settings, prepareScript, settingsAtFirst, prepareAtFirst>>
  PROVE  PrepareKept' /\ HooksKept'
  BY DEF PrepareKept, HooksKept

LEMMA MigrateStep == ASSUME MergeInv, MigrateSettings PROVE MergeInv'
  <1>1. /\ FileShape(yaml) /\ OwnSurvives(yaml) /\ (fresh => NoPatchOf(yaml, Inactive))
        /\ \A entry \in own : entry[1] \notin RetiredFlags
    BY DEF MergeInv, FileInv
  <1>2. /\ yaml' = yaml /\ own' = own /\ dropped' = dropped /\ fresh' = fresh
        /\ declared' = declared /\ locked' = locked
        /\ IF Migratable(yaml)
           THEN /\ carried' = MigratedYaml(yaml)
                /\ config' = IF Exempt \in DOMAIN yaml THEN MigratedConfig(yaml) ELSE config
           ELSE config' = config /\ mergeStep' = "idle"
    BY DEF MigrateSettings
  <1>3. Inactive' = Inactive /\ config \subseteq config'
    BY <1>2 DEF Inactive, Requires, MigratedConfig
  <1>4. \A key, id : GivesWay(key, id) => GivesWay(key, id)'
    BY <1>2, <1>3 DEF GivesWay, ReplacedWhole
  <1>5. FileInv(yaml)'
    <2>1. OwnSurvives(yaml)'
      BY <1>1, <1>2, <1>4 DEF OwnSurvives
    <2> QED BY <2>1, <1>1, <1>2, <1>3 DEF FileInv
  <1>6. ASSUME mergeStep' # "idle" PROVE FileInv(carried)'
    <2> DEFINE migrated == MigratedYaml(yaml)
    <2>1. carried' = migrated
      BY <1>2, <1>6
    <2>2. DOMAIN migrated = DOMAIN yaml \ (RetiredFlags \cup {Exempt})
          /\ \A key \in DOMAIN migrated : migrated[key] = yaml[key]
      BY DEF MigratedYaml, Without
    <2> HIDE DEF migrated
    <2>3. \A key : key \notin RetiredFlags \cup {Exempt} => Under(migrated, key) = Under(yaml, key)
      BY <2>2 DEF Under
    <2>4. Patches \notin RetiredFlags \cup {Exempt}
      BY DEF Patches, RetiredFlags, Exempt
    <2>5. FileShape(migrated)
      <3>1. ~Repeated(migrated, Patches)
        BY <2>3, <2>4, <1>1 DEF FileShape, Repeated
      <3> QED BY <3>1, <2>2, <1>1 DEF FileShape
    <2>6. fresh => NoPatchOf(migrated, Inactive)
      BY <2>3, <2>4, <1>1 DEF NoPatchOf
    <2>7. ASSUME NEW entry \in own PROVE Lists(migrated, entry[1], entry[2]) \/ GivesWay(entry[1], entry[2])'
      <3>1. CASE GivesWay(entry[1], entry[2])
        BY <3>1, <1>4
      <3>2. CASE Lists(yaml, entry[1], entry[2]) /\ entry[1] # Exempt
        BY <3>2, <2>3, <1>1 DEF Lists
      <3>3. CASE Lists(yaml, entry[1], entry[2]) /\ entry[1] = Exempt
        <4>1. PICK block \in Range(Under(yaml, Exempt)) : entry[2] \in Ids(block)
          BY <3>3 DEF Lists
        <4>2. Exempt \in DOMAIN yaml
          BY DEF Under, Range
        <4>3. config' = MigratedConfig(yaml)
          BY <4>2, <1>2, <1>6
        <4>4. entry[2] \in config'
          BY <4>1, <4>3 DEF MigratedConfig
        <4> QED BY <4>4, <3>3 DEF GivesWay
      <3> QED BY <3>1, <3>2, <3>3, <1>1 DEF OwnSurvives
    <2>8. OwnSurvives(carried)'
      BY <2>1, <2>7, <1>2 DEF OwnSurvives
    <2> QED BY <2>1, <2>5, <2>6, <2>8, <1>2, <1>3 DEF FileInv
  <1>7. PrepareKept' /\ HooksKept'
    BY SettingsStay DEF MergeInv, MigrateSettings
  <1> QED BY <1>1, <1>2, <1>5, <1>6, <1>7 DEF MergeInv

LEMMA MergeStep == ASSUME MergeInv, MergeWorkspace PROVE MergeInv'
  <1> DEFINE patched == PatchedConsumer(carried)
             merged == MergedYaml(patched, ActiveBundle)
  <1>1. /\ FileShape(yaml) /\ OwnSurvives(yaml) /\ FileShape(carried) /\ OwnSurvives(carried)
        /\ \A entry \in own : entry[1] \notin RetiredFlags
    BY DEF MergeInv, FileInv, MergeWorkspace
  <1>2. /\ own' = own /\ config' = config /\ dropped' = dropped \cup Inactive /\ mergeStep' = "idle"
        /\ declared' = declared /\ locked' = locked
        /\ yaml' = IF Unmergeable(patched) THEN yaml ELSE merged
        /\ fresh' = ~Unmergeable(patched)
    BY DEF MergeWorkspace
  <1>3. Inactive' = Inactive
    BY <1>2 DEF Inactive, Requires
  <1>4. \A key, id : GivesWay(key, id) => GivesWay(key, id)'
    BY <1>2 DEF GivesWay, ReplacedWhole
  <1>5. /\ FileShape(patched) /\ NoPatchOf(patched, Inactive)
        /\ \A key, id : Lists(carried, key, id)
             => Lists(patched, key, id) \/ (key = Patches /\ Package[id] \in FleetPatched \cup Inactive)
    <2> DEFINE packages == FleetPatched \cup Inactive
    <2>1. patched = FilterPatches(carried, packages)
      BY DEF PatchedConsumer
    <2> HIDE DEF packages, patched
    <2>2. /\ FileShape(patched) /\ NoPatchOf(patched, packages)
          /\ \A key : key # Patches => Under(patched, key) = Under(carried, key)
          /\ \A id : Lists(carried, Patches, id) => Lists(patched, Patches, id) \/ Package[id] \in packages
      BY <2>1, <1>1, FilterPatchesKeeps
    <2>3. NoPatchOf(patched, Inactive)
      BY <2>2 DEF NoPatchOf, packages
    <2>4. ASSUME NEW key, NEW id, Lists(carried, key, id)
          PROVE  Lists(patched, key, id) \/ (key = Patches /\ Package[id] \in FleetPatched \cup Inactive)
      <3>1. CASE key = Patches
        BY <3>1, <2>2, <2>4 DEF packages
      <3>2. CASE key # Patches
        BY <3>2, <2>2, <2>4 DEF Lists
      <3> QED BY <3>1, <3>2
    <2> QED BY <2>2, <2>3, <2>4
  <1>6. /\ FileShape(ActiveBundle) /\ NoPatchOf(ActiveBundle, Inactive)
        /\ \A key : \A block \in Range(Under(ActiveBundle, key)) :
             Mergeable(block) \/ block \in Range(Under(Bundle, key))
    <2>1. FileShape(Bundle)
      BY WorkspaceAssumption DEF FileShape, BlockSet
    <2>2. ActiveBundle = FilterPatches(Bundle, Inactive)
      BY DEF ActiveBundle
    <2>3. /\ FileShape(ActiveBundle) /\ NoPatchOf(ActiveBundle, Inactive)
          /\ \A key : key # Patches => Under(ActiveBundle, key) = Under(Bundle, key)
          /\ \A block \in Range(Under(ActiveBundle, Patches)) :
               Mergeable(block) \/ block \in Range(Under(Bundle, Patches))
      BY <2>1, <2>2, FilterPatchesKeeps
    <2> QED BY <2>3
  <1> HIDE DEF patched
  <1>7. /\ FileShape(merged) /\ NoPatchOf(merged, Inactive)
        /\ \A key, id : Lists(patched, key, id) =>
             \/ Lists(merged, key, id)
             \/ key \in FleetKeys /\ \E block \in Range(Under(ActiveBundle, key)) : ~Mergeable(block)
    BY <1>5, <1>6, MergedYamlKeeps
  <1> HIDE DEF merged
  <1>8. ASSUME NEW entry \in own PROVE Lists(merged, entry[1], entry[2]) \/ GivesWay(entry[1], entry[2])'
    <2>1. CASE GivesWay(entry[1], entry[2])
      BY <2>1, <1>4
    <2>2. CASE Lists(carried, entry[1], entry[2])
      <3>1. CASE entry[1] = Patches /\ Package[entry[2]] \in FleetPatched \cup Inactive
        BY <3>1, <1>2 DEF GivesWay, FleetPatched
      <3>2. CASE Lists(patched, entry[1], entry[2]) /\ ~Lists(merged, entry[1], entry[2])
        <4>1. ReplacedWhole(entry[1])
          BY <3>2, <1>6, <1>7 DEF ReplacedWhole
        <4> QED BY <4>1 DEF GivesWay, ReplacedWhole
      <3> QED BY <3>1, <3>2, <2>2, <1>5
    <2> QED BY <2>1, <2>2, <1>1 DEF OwnSurvives
  <1>9. FileInv(yaml)'
    <2>1. CASE Unmergeable(patched)
      <3>1. OwnSurvives(yaml)'
        BY <2>1, <1>1, <1>2, <1>4 DEF OwnSurvives
      <3> QED BY <3>1, <2>1, <1>1, <1>2 DEF FileInv
    <2>2. CASE ~Unmergeable(patched)
      <3>1. yaml' = merged
        BY <2>2, <1>2
      <3>2. OwnSurvives(yaml)'
        BY <3>1, <1>2, <1>8 DEF OwnSurvives
      <3> QED BY <3>1, <3>2, <1>3, <1>7 DEF FileInv
    <2> QED BY <2>1, <2>2
  <1>10. PrepareKept' /\ HooksKept'
    BY SettingsStay DEF MergeInv, MergeWorkspace
  <1> QED BY <1>1, <1>2, <1>9, <1>10 DEF MergeInv

LEMMA PackagesStep == ASSUME MergeInv, RepairWorkspace PROVE MergeInv'
  <1>1. /\ FileShape(carried) /\ OwnSurvives(carried) /\ (fresh => NoPatchOf(carried, Inactive))
        /\ \A entry \in own : entry[1] \notin RetiredFlags
    BY DEF MergeInv, FileInv, RepairWorkspace
  <1>2. /\ own' = own /\ config' = config /\ dropped' = dropped /\ fresh' = fresh /\ mergeStep' = "idle"
        /\ declared' = declared /\ locked' = locked /\ yaml' = RepairedPackages(carried)
    BY DEF RepairWorkspace
  <1>3. Inactive' = Inactive /\ \A key, id : GivesWay(key, id) => GivesWay(key, id)'
    BY <1>2 DEF Inactive, Requires, GivesWay, ReplacedWhole
  <1>4. /\ FileShape(yaml') /\ \A key, id : Lists(carried, key, id) => Lists(yaml', key, id)
        /\ Under(yaml', Patches) = Under(carried, Patches)
    BY <1>1, <1>2, RepairedKeeps
  <1>5. FileInv(yaml)'
    <2>1. OwnSurvives(yaml)'
      BY <1>1, <1>2, <1>3, <1>4 DEF OwnSurvives
    <2>2. fresh => NoPatchOf(yaml', Inactive)
      BY <1>1, <1>4 DEF NoPatchOf
    <2> QED BY <2>1, <2>2, <1>2, <1>3, <1>4 DEF FileInv
  <1>6. PrepareKept' /\ HooksKept'
    BY SettingsStay DEF MergeInv, RepairWorkspace
  <1> QED BY <1>1, <1>2, <1>5, <1>6 DEF MergeInv

LEMMA DieStep == ASSUME MergeInv, DieInMerge PROVE MergeInv'
  <1>1. FileInv(yaml) /\ FileInv(carried) /\ \A entry \in own : entry[1] \notin RetiredFlags
    BY DEF MergeInv, DieInMerge
  <1>2. /\ own' = own /\ config' = config /\ dropped' = dropped /\ fresh' = fresh /\ mergeStep' = "idle"
        /\ declared' = declared /\ locked' = locked /\ yaml' \in {yaml, carried}
    BY DEF DieInMerge
  <1>3. Inactive' = Inactive /\ \A key, id : GivesWay(key, id) => GivesWay(key, id)'
    BY <1>2 DEF Inactive, Requires, GivesWay, ReplacedWhole
  <1>4. FileInv(yaml)'
    <2>1. CASE yaml' = yaml
      <3>1. OwnSurvives(yaml)'
        BY <2>1, <1>1, <1>2, <1>3 DEF OwnSurvives, FileInv
      <3> QED BY <3>1, <2>1, <1>1, <1>2, <1>3 DEF FileInv
    <2>2. CASE yaml' = carried
      <3>1. OwnSurvives(yaml)'
        BY <2>2, <1>1, <1>2, <1>3 DEF OwnSurvives, FileInv
      <3> QED BY <3>1, <2>2, <1>1, <1>2, <1>3 DEF FileInv
    <2> QED BY <2>1, <2>2, <1>2
  <1>5. PrepareKept' /\ HooksKept'
    BY SettingsStay DEF MergeInv, DieInMerge
  <1> QED BY <1>1, <1>2, <1>4, <1>5 DEF MergeInv

LEMMA PutInFront ==
  ASSUME NEW S, NEW x \in S, NEW s \in Seq(S)
  PROVE  <<x>> \o s # <<>> /\ (<<x>> \o s)[1] = x
  <1> DEFINE longer == <<x>> \o s
  <1>1. <<x>> \in Seq(S) /\ Len(<<x>>) = 1 /\ <<x>>[1] = x
    OBVIOUS
  <1>2. /\ longer \in Seq(S) /\ Len(longer) = 1 + Len(s)
        /\ \A i \in 1 .. Len(longer) : longer[i] = IF i <= 1 THEN <<x>>[i] ELSE s[i - 1]
    BY <1>1, ConcatProperties
  <1>3. Len(s) \in Nat
    BY LenProperties
  <1> HIDE DEF longer
  <1>4. Len(longer) # 0 /\ 1 \in 1 .. Len(longer)
    BY <1>2, <1>3
  <1>5. longer # <<>> /\ longer[1] = x
    BY <1>1, <1>2, <1>4
  <1> QED BY <1>5 DEF longer

(* A command that is in front is not put there again. *)
LEMMA WiredOnce ==
  ASSUME PrepareKept
  PROVE  Wired(prepareScript) \in {prepareAtFirst, <<"prepare">> \o prepareAtFirst}
  <1> DEFINE commands == (UNION {Range(script) : script \in Prepares}) \cup {"prepare"}
             longer == <<"prepare">> \o prepareAtFirst
  <1>1. prepareAtFirst \in Seq(commands)
    BY SettingsAssumption DEF PrepareKept
  <1>2. longer # <<>> /\ longer[1] = "prepare"
    <2>2. "prepare" \in commands
      OBVIOUS
    <2> HIDE DEF commands
    <2> QED BY <1>1, <2>2, PutInFront
  <1> HIDE DEF longer
  <1>3. CASE prepareScript = prepareAtFirst
    BY <1>3 DEF Wired, longer
  <1>4. CASE prepareScript = longer
    BY <1>2, <1>4 DEF Wired, longer
  <1> QED BY <1>3, <1>4 DEF PrepareKept, longer

LEMMA SettingsMergeStep == ASSUME MergeInv, MergeSettingsAndScripts PROVE MergeInv'
  <1>1. FileInv(yaml) /\ mergeStep = "idle" /\ PrepareKept /\ HooksKept
        /\ \A entry \in own : entry[1] \notin RetiredFlags
    BY DEF MergeInv, MergeSettingsAndScripts
  <1>2. /\ yaml' = yaml /\ own' = own /\ config' = config /\ dropped' = dropped /\ fresh' = fresh
        /\ declared' = declared /\ locked' = locked /\ mergeStep' = mergeStep
        /\ settingsAtFirst' = settingsAtFirst /\ prepareAtFirst' = prepareAtFirst
        /\ settings' = MergedSettings(settings) /\ prepareScript' = Wired(prepareScript)
    BY DEF MergeSettingsAndScripts
  <1>3. FileInv(yaml)'
    <2>1. Inactive' = Inactive /\ \A key, id : GivesWay(key, id) => GivesWay(key, id)'
      BY <1>2 DEF Inactive, Requires, GivesWay, ReplacedWhole
    <2>2. OwnSurvives(yaml)'
      BY <2>1, <1>1, <1>2 DEF OwnSurvives, FileInv
    <2> QED BY <2>1, <2>2, <1>1, <1>2 DEF FileInv
  <1>4. PrepareKept'
    BY <1>1, <1>2, WiredOnce DEF PrepareKept
  <1>5. HooksKept'
    <2> DEFINE hooks == FleetSettings.hooks \cup RepoHooks(settings)
               wired == WiredEvents(settings)
    <2>1. /\ settings'.hooks = Dispatched(hooks, wired)
          /\ settings'.keys = FleetSettings.keys \cup (settings.keys \ {"<fleet>", "</fleet>", "legacy env"})
      BY <1>2 DEF MergedSettings
    <2>2. settingsAtFirst.keys \ {"legacy env"} \subseteq settings'.keys
      BY <2>1, <1>1, SettingsAssumption DEF HooksKept
    <2>3. ASSUME NEW h \in RepoHooks(settingsAtFirst) PROVE h \in settings'.hooks
      <3>1. h \in settings.hooks /\ h.command \in {"repo", "repo2"}
        BY <1>1 DEF HooksKept, RepoHooks
      <3>2. h \in hooks /\ h.command \notin {"launcher", "dispatch"}
        BY <3>1 DEF RepoHooks
      <3> HIDE DEF hooks
      <3> QED BY <3>2, <2>1 DEF Dispatched
    <2>4. ASSUME NEW h \in FleetSettings.hooks, h.command = "dispatch", h.event \in WiredEvents(settingsAtFirst)
          PROVE  h.event \in WiredEvents(settings')
      <3>1. h.event \in wired
        BY <2>4, <1>1 DEF HooksKept
      <3> DEFINE launched == [event |-> h.event, matcher |-> h.matcher, command |-> "launcher"]
      <3>2. launched \in settings'.hooks
        <4>1. h \in hooks /\ wired # {}
          BY <3>1
        <4> HIDE DEF hooks, wired
        <4> QED BY <4>1, <3>1, <2>1, <2>4 DEF Dispatched
      <3> QED BY <3>2 DEF WiredEvents
    <2>5. WiredEvents(settingsAtFirst)
              \cap {h.event : h \in {x \in FleetSettings.hooks : x.command = "dispatch"}}
            \subseteq WiredEvents(settings')
      BY <2>4
    <2>6. RepoHooks(settingsAtFirst) \subseteq settings'.hooks
      BY <2>3
    <2> QED BY <2>2, <2>5, <2>6, <1>2 DEF HooksKept
  <1> QED BY <1>1, <1>2, <1>3, <1>4, <1>5 DEF MergeInv

(* An entry the member adds to a list. *)
LEMMA AddedEntry ==
  ASSUME NEW file, FileShape(file), NEW key \in DOMAIN file, NEW i \in DOMAIN file[key],
         Mergeable(file[key][i]), NEW e \in Entries
  PROVE  \E after :
           /\ after = [file EXCEPT ![key] =
                         [file[key] EXCEPT ![i] = Block(file[key][i].entries \cup {e}, FALSE)]]
           /\ FileShape(after) /\ Lists(after, key, e.id) /\ key \notin RetiredFlags
           /\ \A other, id : Lists(file, other, id) => Lists(after, other, id)
           /\ key # Patches => Under(after, Patches) = Under(file, Patches)
  <1> DEFINE block == Block(file[key][i].entries \cup {e}, FALSE)
             list == [file[key] EXCEPT ![i] = block]
             after == [file EXCEPT ![key] = list]
  <1>1. file[key] \in Seq(BlockSet) /\ file[key][i] \in BlockSet /\ file[key][i] \in Range(file[key])
    <2>1. file[key] \in Seq(BlockSet)
      BY DEF FileShape
    <2> QED BY <2>1, SequenceFacts
  <1>2. block \in BlockSet /\ Mergeable(block) /\ Ids(file[key][i]) \cup {e.id} \subseteq Ids(block)
    BY <1>1 DEF Block, BlockSet, Mergeable, Ids
  <1>3. key \notin RetiredFlags
    BY <1>1 DEF FileShape
  <1> HIDE DEF block
  <1>4. /\ list \in Seq(BlockSet) /\ DOMAIN list = DOMAIN file[key] /\ list # <<>>
        /\ list[i] = block /\ \A j \in DOMAIN file[key] \ {i} : list[j] = file[key][j]
    <2>1. list \in Seq(BlockSet)
      BY <1>1, <1>2, ExceptSeq
    <2>2. DOMAIN list = DOMAIN file[key] /\ list[i] = block
          /\ \A j \in DOMAIN file[key] \ {i} : list[j] = file[key][j]
      BY <1>1
    <2> HIDE DEF list
    <2> QED BY <2>1, <2>2
  <1>5. block \in Range(list)
    BY <1>4 DEF Range
  <1> HIDE DEF list
  <1>6. /\ DOMAIN after = DOMAIN file /\ after[key] = list
        /\ \A other \in DOMAIN file \ {key} : after[other] = file[other]
    OBVIOUS
  <1> HIDE DEF after
  <1>7. /\ Under(after, key) = list /\ Under(file, key) = file[key]
        /\ \A other : other # key => Under(after, other) = Under(file, other)
    BY <1>6 DEF Under
  <1>8. FileShape(after)
    <2>1. ~Repeated(after, Patches)
      BY <1>4, <1>7 DEF FileShape, Repeated
    <2> QED BY <2>1, <1>3, <1>4, <1>6 DEF FileShape
  <1>9. Lists(after, key, e.id)
    BY <1>2, <1>5, <1>7 DEF Lists
  <1>10. ASSUME NEW other, NEW id, Lists(file, other, id) PROVE Lists(after, other, id)
    <2>1. CASE other # key
      BY <2>1, <1>7, <1>10 DEF Lists
    <2>2. CASE other = key
      <3>1. PICK b \in Range(file[key]) : Mergeable(b) /\ id \in Ids(b)
        BY <2>2, <1>7, <1>10 DEF Lists
      <3>2. PICK j \in DOMAIN file[key] : b = file[key][j]
        BY <3>1 DEF Range
      <3>3. CASE j = i
        <4>1. id \in Ids(block)
          BY <3>1, <3>2, <3>3, <1>2
        <4> QED BY <4>1, <2>2, <1>2, <1>5, <1>7 DEF Lists
      <3>4. CASE j # i
        <4>1. b \in Range(list)
          BY <3>2, <3>4, <1>4 DEF Range
        <4> QED BY <4>1, <3>1, <2>2, <1>7 DEF Lists
      <3> QED BY <3>3, <3>4
    <2> QED BY <2>1, <2>2
  <1>11. after = [file EXCEPT ![key] = [file[key] EXCEPT ![i] = Block(file[key][i].entries \cup {e}, FALSE)]]
    BY DEF after, list, block
  <1>12. /\ FileShape(after) /\ Lists(after, key, e.id) /\ key \notin RetiredFlags
         /\ \A other, id : Lists(file, other, id) => Lists(after, other, id)
         /\ key # Patches => Under(after, Patches) = Under(file, Patches)
    BY <1>3, <1>7, <1>8, <1>9, <1>10
  <1> QED BY <1>11, <1>12

LEMMA MemberEditStep == ASSUME MergeInv, EditWorkspace PROVE MergeInv'
  <1>1. /\ FileShape(yaml) /\ OwnSurvives(yaml) /\ (fresh => NoPatchOf(yaml, Inactive))
        /\ \A entry \in own : entry[1] \notin RetiredFlags
    BY DEF MergeInv, FileInv
  <1>2. config' = config /\ dropped' = dropped /\ mergeStep' = "idle"
    BY DEF EditWorkspace
  <1>3. PrepareKept' /\ HooksKept'
    BY SettingsStay DEF MergeInv, EditWorkspace
  <1>4. \A key, id : GivesWay(key, id) => GivesWay(key, id)'
    BY <1>2 DEF GivesWay, ReplacedWhole
  <1>5. CASE /\ declared' \in SUBSET Conditional /\ locked' \in {declared, declared'} /\ fresh' = FALSE
             /\ UNCHANGED <<yaml, own>>
    <2>1. OwnSurvives(yaml)'
      BY <1>1, <1>4, <1>5 DEF OwnSurvives
    <2>2. FileInv(yaml)'
      BY <2>1, <1>1, <1>5 DEF FileInv
    <2> QED BY <2>2, <1>1, <1>2, <1>3, <1>5 DEF MergeInv
  <1>6. CASE \E key \in DOMAIN yaml : \E i \in DOMAIN yaml[key] :
               /\ Mergeable(yaml[key][i]) /\ "later" \notin Ids(yaml[key][i])
               /\ yaml' = [yaml EXCEPT ![key] = [@ EXCEPT ![i] =
                             Block(yaml[key][i].entries \cup {[id |-> "later", text |-> "own"]}, FALSE)]]
               /\ own' = own \cup {<<key, "later">>}
               /\ fresh' = (fresh /\ key # Patches)
               /\ UNCHANGED <<declared, locked>>
    <2> DEFINE e == [id |-> "later", text |-> "own"]
    <2>1. PICK key \in DOMAIN yaml : \E i \in DOMAIN yaml[key] :
               /\ Mergeable(yaml[key][i])
               /\ yaml' = [yaml EXCEPT ![key] = [@ EXCEPT ![i] = Block(yaml[key][i].entries \cup {e}, FALSE)]]
               /\ own' = own \cup {<<key, "later">>}
               /\ fresh' = (fresh /\ key # Patches)
               /\ UNCHANGED <<declared, locked>>
      BY <1>6
    <2>2. PICK i \in DOMAIN yaml[key] :
               /\ Mergeable(yaml[key][i])
               /\ yaml' = [yaml EXCEPT ![key] = [@ EXCEPT ![i] = Block(yaml[key][i].entries \cup {e}, FALSE)]]
               /\ own' = own \cup {<<key, "later">>}
               /\ fresh' = (fresh /\ key # Patches)
               /\ UNCHANGED <<declared, locked>>
      BY <2>1
    <2>3. e \in Entries /\ e.id = "later"
      BY PackagesAssumption DEF Entries
    <2> HIDE DEF e
    <2>4. /\ FileShape(yaml') /\ Lists(yaml', key, "later") /\ key \notin RetiredFlags
          /\ \A other, id : Lists(yaml, other, id) => Lists(yaml', other, id)
          /\ key # Patches => Under(yaml', Patches) = Under(yaml, Patches)
      <3>1. Mergeable(yaml[key][i]) /\ i \in DOMAIN yaml[key] /\ key \in DOMAIN yaml
        BY <2>2
      <3>2. PICK after :
           /\ after = [yaml EXCEPT ![key] =
                         [yaml[key] EXCEPT ![i] = Block(yaml[key][i].entries \cup {e}, FALSE)]]
           /\ FileShape(after) /\ Lists(after, key, e.id) /\ key \notin RetiredFlags
           /\ \A other, id : Lists(yaml, other, id) => Lists(after, other, id)
           /\ key # Patches => Under(after, Patches) = Under(yaml, Patches)
        BY <3>1, <2>3, <1>1, AddedEntry, Zenon
      <3>3. yaml' = after
        BY <2>2, <3>2
      <3> QED BY <3>2, <3>3, <2>3
    <2>5. Inactive' = Inactive
      BY <2>2 DEF Inactive, Requires
    <2>6. ASSUME NEW entry \in own'
          PROVE  /\ entry[1] \notin RetiredFlags
                 /\ Lists(yaml', entry[1], entry[2]) \/ GivesWay(entry[1], entry[2])'
      <3>1. CASE entry = <<key, "later">>
        BY <3>1, <2>4
      <3>2. CASE entry \in own
        BY <3>2, <2>4, <1>1, <1>4 DEF OwnSurvives
      <3> QED BY <3>1, <3>2, <2>2
    <2>7. fresh' => NoPatchOf(yaml', Inactive)
      BY <2>2, <2>4, <1>1 DEF NoPatchOf
    <2>8. OwnSurvives(yaml)'
      BY <2>6 DEF OwnSurvives
    <2>9. FileInv(yaml)'
      BY <2>4, <2>5, <2>7, <2>8 DEF FileInv
    <2> QED BY <2>6, <2>9, <1>2, <1>3 DEF MergeInv
  <1> QED BY <1>5, <1>6 DEF EditWorkspace

LEMMA MergeInvariant == MergeSpec => []MergeInv
  <1>1. MergeInv /\ [MergeNext]_mergeVars => MergeInv'
    <2> SUFFICES ASSUME MergeInv, [MergeNext]_mergeVars PROVE MergeInv'
      OBVIOUS
    <2>1. CASE UNCHANGED mergeVars
      BY <2>1 DEF MergeInv, FileInv, OwnSurvives, GivesWay, ReplacedWhole, Inactive, Requires, PrepareKept,
                  HooksKept, mergeVars
    <2> QED BY <2>1, MigrateStep, MergeStep, PackagesStep, DieStep, SettingsMergeStep, MemberEditStep
           DEF MergeNext
  <1> QED BY MergeStarts, <1>1, PTL DEF MergeSpec

(* For any pack, any files of members and any order of merges, repairs and  *)
(* edits, cut short anywhere: no entry, hook, setting or command a member   *)
(* wrote is lost, and a merged file patches only what is in use.            *)
THEOREM EntriesAlwaysKept == MergeSpec => []EntriesAreKept
  <1>1. MergeInv => EntriesAreKept
    <2> SUFFICES ASSUME MergeInv PROVE EntriesAreKept
      OBVIOUS
    <2>1. EntriesSurvive
      BY DEF MergeInv, FileInv, OwnSurvives, GivesWay, Lists, InYaml, EntriesSurvive
    <2>2. PatchesFollowGraph
      BY DEF MergeInv, FileInv, NoPatchOf, PatchesFollowGraph
    <2>3. SettingsSurvive
      BY DEF MergeInv, PrepareKept, HooksKept, SettingsSurvive
    <2> QED BY <2>1, <2>2, <2>3 DEF EntriesAreKept
  <1> QED BY MergeInvariant, <1>1, PTL
===============================================================================
